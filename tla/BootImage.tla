----------------------------- MODULE BootImage -----------------------------
(***************************************************************************)
(* The boot stream that boot.py builds for the Talaria TWO boot ROM, and   *)
(* the memory image the ROM ends up with when it runs that stream.         *)
(*                                                                         *)
(* parse_boot_seq walks the --seq words.  'load' writes every PT_LOAD      *)
(* segment outside virtual memory in 32 KiB chunks through cmd_write; with *)
(* the bank 3 workaround, bank3_memory_ranges keeps the part of a write    *)
(* that falls in 0x70000..0x80000 in bank3_data instead of the stream, and *)
(* bank3_fixup appends it above everything written so far together with a *)
(* trampoline that copies it back and then jumps to the real entry.  Every *)
(* piece written is recorded in Memory with Memory.add.                    *)
(*                                                                         *)
(* Addresses are in units of 0x8000 bytes, the chunk size, so a chunk is   *)
(* one unit and the 256- and 4-byte alignments of bank3_fixup vanish.  The *)
(* content of a byte is the address it was loaded for: the ELF's and the   *)
(* argument blob's bytes are their own address; Zero is the zero fill of  *)
(* bank3_data and Tramp the trampoline's code.                             *)
(***************************************************************************)
EXTENDS Integers, Sequences, SequencesExt, FiniteSets, FiniteSetsExt, TLC

CONSTANTS
  Layouts,          \* ELF images: sequences of PT_LOAD segments [addr, len]
  Seqs,             \* --seq values: sequences of command words
  EntryAddr,        \* e_entry of the ELF
  ArgsAddr,         \* args.load_address
  ArgsLen,          \* len(args.blob) after args.encode
  Bank3Lo, Bank3Hi, \* 0x70000 and 0x80000
  RamLo, RamHi,     \* is_ram_address: 0x40000 <= addr < 0xc0000
  VirtLo,           \* is_virtual_address: 0x100000 <= addr
  Options,          \* main()'s options: records [output, verify, reset,
                    \* xtal, speed, flash]
  DefaultSpeed      \* DEFAULT_SPEED, the boot ROM's baud rate

ContAddr == -1      \* cmd_entry(0xffffffff) for 'cont'
NextAddr == 0       \* cmd_entry(0) for 'next'
Zero  == -3
Tramp == -2
Unset == -4
NoTable == [src |-> 0, size |-> 0, dst |-> 0]

VARIABLES
  cmds,      \* cmd_list: the --seq words not yet handled
  stream,    \* BootStream.buf: the commands written so far
  ranges,    \* Memory.ranges: <<start, end>>, or <<v>> for the int that
             \* the overlap branch of Memory.add leaves there
  bank3,     \* bank3_data: set of <<address, content>>
  entry,     \* parse_boot_seq's entry (ELF entry, or the trampoline's)
  intended,  \* addresses cmd_write was asked for by load (the image the
             \* user asked for)
  elf,       \* the PT_LOAD segments, <<>> without an image
  image,     \* whether an image file was given
  bank3On,   \* opt.bank3_workaround
  status,    \* "run", "done", or "raised" (an exception left main)
  \* --- main() around parse_boot_seq ---
  seq,       \* opt.seq as given
  opt,       \* the other options
  pc,        \* where main() is: "parse", "speed", "romver", "flash",
             \* "helper", "parts", "reset2", "respeed", "write", "final",
             \* "end" (returned) or "exit" (sys.exit / SystemExit)
  hostBaud,  \* the baud rate the host opened the port with (0: --output)
  tgt,       \* the target: [prog |-> "rom", "gordon" or "app", baud]
  delivered  \* write_stream_to_memory: "none", "ok", or "lost" (written
             \* where the boot ROM does not hear it)

parseVars == <<cmds, stream, ranges, bank3, entry, intended, elf, image, bank3On, status>>
mainVars == <<seq, opt, pc, hostBaud, tgt, delivered>>
vars == <<parseVars, mainVars>>

IsVirtual(a) == a >= VirtLo
IsRam(a) == RamLo <= a /\ a < RamHi

Cmd(op, a, data, table, want) ==
  [op |-> op, addr |-> a, data |-> data, table |-> table, want |-> want]

\* The bytes of a chunk of the ELF or of the argument blob.
Own(a, n) == [i \in 1..n |-> a + i - 1]

-----------------------------------------------------------------------------
(* Memory.add                                                              *)

RangeLess(x, y) == x[1] < y[1] \/ (x[1] = y[1] /\ x[2] < y[2])
Poisoned(rs) == \E i \in DOMAIN rs : Len(rs[i]) = 1

\* The for loop of Memory.add over the sorted ranges.  rlast is <<>> for
\* None, a range, or <<v>> once the overlap branch assigned the int
\* max(rlast.end, r.end) to it; the next iteration's rlast.end raises.
RECURSIVE MergeLoop(_, _, _)
MergeLoop(tmp, rlast, out) ==
  IF tmp = <<>> THEN [ranges |-> IF rlast = <<>> THEN out ELSE Append(out, rlast), ok |-> TRUE]
  ELSE LET r == Head(tmp) IN
    CASE rlast = <<>>     -> MergeLoop(Tail(tmp), r, out)
      [] Len(rlast) = 1   -> [ranges |-> out, ok |-> FALSE]
      [] rlast[2] = r[1]  -> MergeLoop(Tail(tmp), <<rlast[1], r[2]>>, out)
      [] r[1] < rlast[2]  -> MergeLoop(Tail(tmp), <<Max({rlast[2], r[2]})>>, out)
      [] OTHER            -> MergeLoop(Tail(tmp), r, Append(out, rlast))

\* Bug variant: the ranges are merged without sorting them first.
MemoryAddNoSort(rs, s, e) ==
  IF Poisoned(rs) THEN [ranges |-> rs, ok |-> FALSE]
  ELSE MergeLoop(Append(rs, <<s, e>>), <<>>, <<>>)

\* Memory.add(start, end): append, sort by (start, end), merge.  Sorting a
\* list that holds the int raises in Range.sort_key.
MemoryAdd(rs, s, e) ==
  IF Poisoned(rs) THEN [ranges |-> rs, ok |-> FALSE]
  ELSE MergeLoop(SortSeq(Append(rs, <<s, e>>), RangeLess), <<>>, <<>>)

-----------------------------------------------------------------------------
(* BootStream.cmd_write and the bank 3 workaround                          *)

\* Bug variant: bank 3 taken to end at 0x80000 inclusive.
Bank3SplitInclusive(a, n) ==
  LET lo == Max({Bank3Lo, a})
      hi == Min({Bank3Hi + 1, a + n})
  IN IF bank3On /\ lo < hi
     THEN [emit |-> (IF a < lo THEN <<<<a, lo - a>>>> ELSE <<>>)
                    \o (IF a + n > hi THEN <<<<hi, a + n - hi>>>> ELSE <<>>),
           keep |-> lo..(hi - 1)]
     ELSE [emit |-> <<<<a, n>>>>, keep |-> {}]

\* bank3_memory_ranges(addr, data): the pieces <<addr, len>> written to the
\* stream, and the addresses kept in bank3_data.
Bank3Split(a, n) ==
  LET lo == Max({Bank3Lo, a})
      hi == Min({Bank3Hi, a + n})
  IN IF bank3On /\ lo < hi
     THEN [emit |-> (IF a < lo THEN <<<<a, lo - a>>>> ELSE <<>>)
                    \o (IF a + n > hi THEN <<<<hi, a + n - hi>>>> ELSE <<>>),
           keep |-> lo..(hi - 1)]
     ELSE [emit |-> <<<<a, n>>>>, keep |-> {}]

\* cmd_write(addr, data) on the builder's state st = [stream, ranges, bank3,
\* ok]: for each piece a WRITE command, then Memory.add; the kept part
\* overwrites bank3_data at its offset.  table is the trampoline's table
\* when data is the trampoline.
CmdWrite(st, a, d, table) ==
  IF d = <<>> \/ ~st.ok THEN st
  ELSE
    LET sp == Bank3Split(a, Len(d))
        piece(p) == SubSeq(d, p[1] - a + 1, p[1] - a + p[2])
        st1 == FoldLeft(LAMBDA s, p :
                 IF ~s.ok THEN s
                 ELSE LET m == MemoryAdd(s.ranges, p[1], p[1] + p[2])
                      IN [s EXCEPT !.stream = Append(@, Cmd("write", p[1], piece(p), table, {})),
                                   !.ranges = m.ranges,
                                   !.ok = m.ok],
               st, sp.emit)
    IN [st1 EXCEPT !.bank3 = {b \in @ : b[1] \notin sp.keep}
                              \cup {<<x, d[x - a + 1]>> : x \in sp.keep}]

\* bank3_data.getvalue(): from offset 0 to the last byte written, with the
\* bytes never written read as zeros.
Bank3Data(b3) ==
  LET at == {b[1] : b \in b3}
  IN IF at = {} THEN <<>>
     ELSE [i \in 1..(Max(at) - Bank3Lo + 1) |->
             IF \E b \in b3 : b[1] = Bank3Lo + i - 1
             THEN (CHOOSE b \in b3 : b[1] = Bank3Lo + i - 1)[2] ELSE Zero]

\* Bug variant: the relocated data starts above the ranges only, without
\* the 0x80000 floor.
Bank3FixupNoFloor(st, ent) ==
  IF ~bank3On THEN [st |-> st, entry |-> ent]
  ELSE IF Poisoned(st.ranges) THEN [st |-> [st EXCEPT !.ok = FALSE], entry |-> ent]
  ELSE
    LET data == Bank3Data(st.bank3)
        start == Max({r[2] : r \in Range(st.ranges)} \cup {0})
        st1 == FoldLeft(LAMBDA s, i : CmdWrite(s, start + i - 1, <<data[i]>>, NoTable),
                        st, [i \in 1..Len(data) |-> i])
        tend == start + Len(data)
    IN [st |-> CmdWrite(st1, tend, <<Tramp>>,
                        [src |-> start, size |-> Len(data), dst |-> Bank3Lo]),
        entry |-> tend]

\* bank3_fixup(entry, argc, argv): write bank3_data chunk by chunk above the
\* highest range end (at least 0x80000), then the trampoline after it, and
\* return the trampoline as the new entry.  r.end on the int left by
\* Memory.add raises.
Bank3Fixup(st, ent) ==
  IF ~bank3On THEN [st |-> st, entry |-> ent]
  ELSE IF Poisoned(st.ranges) THEN [st |-> [st EXCEPT !.ok = FALSE], entry |-> ent]
  ELSE
    LET data == Bank3Data(st.bank3)
        start == Max({r[2] : r \in Range(st.ranges)} \cup {Bank3Hi})
        st1 == FoldLeft(LAMBDA s, i : CmdWrite(s, start + i - 1, <<data[i]>>, NoTable),
                        st, [i \in 1..Len(data) |-> i])
        tend == start + Len(data)
    IN [st |-> CmdWrite(st1, tend, <<Tramp>>,
                        [src |-> start, size |-> Len(data), dst |-> Bank3Lo]),
        entry |-> tend]

-----------------------------------------------------------------------------
(* parse_boot_seq: one step per --seq word                                 *)

\* bootspeed: DEFAULT_SPEED doubled for an 80 MHz crystal; the same factor
\* the ROM applies to every baud rate it is told.
Factor(o) == IF o.xtal = 80 THEN 2 ELSE 1

\* --output writes a file and opens no port; otherwise hostio.open(raw)
\* at bootspeed.  The target sits in the boot ROM at bootspeed.
OpenPort(o) == IF o.output THEN 0 ELSE DefaultSpeed * Factor(o)

InitMain ==
  /\ opt \in Options
  /\ ~(opt.verify /\ opt.output)
  /\ pc = "parse"
  /\ hostBaud = OpenPort(opt)
  /\ tgt = [prog |-> "rom", baud |-> DefaultSpeed * Factor(opt)]
  /\ delivered = "none"

Init ==
  /\ seq \in Seqs
  /\ cmds = seq
  /\ InitMain
  /\ \/ image = TRUE /\ elf \in Layouts
     \/ image = FALSE /\ elf = <<>>
  /\ bank3On \in BOOLEAN
  /\ stream = <<>>
  /\ ranges = <<>>
  /\ bank3 = {}
  /\ entry = EntryAddr
  /\ intended = {}
  /\ status = "run"

Builder == [stream |-> stream, ranges |-> ranges, bank3 |-> bank3, ok |-> TRUE]

\* The addresses of the 32 KiB chunks of the PT_LOAD segments outside
\* virtual memory, in segment order.
ElfChunks ==
  LET segs == SelectSeq(elf, LAMBDA g : ~IsVirtual(g.addr))
  IN FlattenSeq([k \in DOMAIN segs |-> Own(segs[k].addr, segs[k].len)])

Word == Head(cmds)

\* A command that appends one command to the stream: 'nop', 'cont',
\* 'next', and 'entry' with an image.
Emit(c) ==
  /\ stream' = Append(stream, c)
  /\ cmds' = Tail(cmds)
  /\ UNCHANGED <<ranges, bank3, entry, intended, elf, image, bank3On, status>>
  /\ UNCHANGED mainVars

Nop   == status = "run" /\ cmds # <<>> /\ Word = "nop"  /\ Emit(Cmd("nop", 0, <<>>, NoTable, {}))
Cont  == status = "run" /\ cmds # <<>> /\ Word = "cont" /\ Emit(Cmd("entry", ContAddr, <<>>, NoTable, {}))
NextWord == status = "run" /\ cmds # <<>> /\ Word = "next" /\ Emit(Cmd("entry", NextAddr, <<>>, NoTable, {}))
Entry == status = "run" /\ cmds # <<>> /\ Word = "entry" /\ image
         /\ Emit(Cmd("entry", entry, <<>>, NoTable, intended))

\* 'load' with an image: every chunk, bank3_fixup, the argument blob at
\* args.load_address, then cmd_args.  An exception ends the program.
Load ==
  LET st1 == FoldLeft(LAMBDA s, a : CmdWrite(s, a, <<a>>, NoTable), Builder, ElfChunks)
      fx == Bank3Fixup(st1, entry)
      st2 == CmdWrite(fx.st, ArgsAddr, Own(ArgsAddr, ArgsLen), NoTable)
  IN
  /\ status = "run" /\ cmds # <<>> /\ Word = "load" /\ image
  /\ cmds' = Tail(cmds)
  /\ IF st2.ok
     THEN /\ stream' = Append(st2.stream, Cmd("args", 0, <<>>, NoTable, {}))
          /\ ranges' = st2.ranges
          /\ bank3' = st2.bank3
          /\ entry' = fx.entry
          /\ intended' = intended \cup Range(ElfChunks) \cup Range(Own(ArgsAddr, ArgsLen))
          /\ UNCHANGED status
     ELSE /\ status' = "raised"
          /\ UNCHANGED <<stream, ranges, bank3, entry, intended>>
  /\ UNCHANGED <<elf, image, bank3On>> /\ UNCHANGED mainVars

\* A word with '=' that parse_write_cmd accepts: stream.cmd_pbwrite does
\* not exist, and the AttributeError is not the ValueError caught.
WriteWord ==
  /\ status = "run" /\ cmds # <<>> /\ Word = "wr"
  /\ cmds' = Tail(cmds)
  /\ status' = "raised"
  /\ UNCHANGED <<stream, ranges, bank3, entry, intended, elf, image, bank3On>>
  /\ UNCHANGED mainVars

\* 'clken', '' and the words that only print: a write command
\* parse_write_cmd rejects, an unknown word, and 'load' or 'entry' without
\* an image.
Ignore ==
  /\ status = "run" /\ cmds # <<>>
  /\ \/ Word \in {"clken", "", "wr_bad", "junk"}
     \/ Word \in {"load", "entry"} /\ ~image
  /\ cmds' = Tail(cmds)
  /\ UNCHANGED <<stream, ranges, bank3, entry, intended, elf, image, bank3On, status>>
  /\ UNCHANGED mainVars

\* The while loop ends: parse_boot_seq returns.
Finish ==
  /\ status = "run" /\ cmds = <<>>
  /\ status' = "done"
  /\ UNCHANGED <<cmds, stream, ranges, bank3, entry, intended, elf, image, bank3On>>
  /\ UNCHANGED mainVars

-----------------------------------------------------------------------------
(* main() after parse_boot_seq.  A boot-ROM command written on the port is *)
(* heard when the ROM runs at the host's baud rate; an HIO call reaches the *)
(* flash helper (gordon) likewise.  Register access, --check-rom,          *)
(* --check-clock and --test are diagnostics left out; --reset is "none",   *)
(* "dev" (dev.reset(), which a Serial port lacks) or "hw" (every method    *)
(* that restarts the chip into the ROM: evk42, ftdi, ocd, manual).          *)

RomHears == tgt.prog = "rom" /\ tgt.baud = hostBaud
HelperHears == tgt.prog = "gordon" /\ tgt.baud = hostBaud

\* vm: the data of a PT_LOAD segment in virtual memory.
HasVm == \E k \in DOMAIN elf : IsVirtual(elf[k].addr)

\* reset(method): "hw" restarts the chip into the ROM at bootspeed.
ResetTo(t) == IF opt.reset = "hw"
              THEN [prog |-> "rom", baud |-> DefaultSpeed * Factor(opt)]
              ELSE t

\* BootStream(dev).cmd_speed(s): a ROM that hears it switches to s (times
\* the crystal factor); anything else ignores the bytes.
SpeedTo(s) == IF RomHears THEN [tgt EXCEPT !.baud = s * Factor(opt)] ELSE tgt

\* main()'s steps leave the stream builder, --seq and the options alone.
Keep == UNCHANGED <<parseVars, seq, opt>>

MainStep(from, to) == pc = from /\ pc' = to /\ Keep

\* --output: the stream (and the .vm image) go to files; main returns.
OutputWrite ==
  /\ status = "done" /\ pc = "parse" /\ opt.output
  /\ pc' = "end" /\ UNCHANGED <<hostBaud, tgt, delivered>>
  /\ Keep

\* reset(opt.reset) (opt.reset is never empty: its default is 'none'),
\* then flushrx.  dev.reset() on a Serial raises NotImplementedError and
\* reset() exits.
FirstReset ==
  /\ status = "done" /\ pc = "parse" /\ ~opt.output
  /\ IF opt.reset = "dev"
     THEN pc' = "exit" /\ UNCHANGED tgt
     ELSE pc' = "speed" /\ tgt' = ResetTo(tgt)
  /\ UNCHANGED <<hostBaud, delivered>>
  /\ Keep

\* opt.speed != DEFAULT_SPEED: cmd_speed, close, reopen at speed times the
\* crystal factor.
ChangeSpeed ==
  /\ MainStep("speed", "romver")
  /\ IF opt.speed # DefaultSpeed
     THEN tgt' = SpeedTo(opt.speed) /\ hostBaud' = opt.speed * Factor(opt)
     ELSE UNCHANGED <<tgt, hostBaud>>
  /\ UNCHANGED delivered

\* read_rom_version: cmd_read of the version string under a 1 s timeout;
\* no answer raises SystemExit('Timeout reading ROM').
RomVersion ==
  /\ pc = "romver"
  /\ pc' = IF RomHears THEN "flash" ELSE "exit"
  /\ UNCHANGED <<hostBaud, tgt, delivered>>
  /\ Keep

\* Flash unless --flash nope, or --flash vm without a vm segment.  The
\* guard 'opt.reset is None' that asks for a reset method never holds.
FlashChoice ==
  /\ pc = "flash"
  /\ pc' = IF opt.flash # "nope" /\ ~(opt.flash = "vm" /\ ~HasVm)
           THEN "helper" ELSE "write"
  /\ UNCHANGED <<hostBaud, tgt, delivered>>
  /\ Keep

\* start_flash_helper: gordon's boot stream is written to the ROM, which
\* runs it with hio.baudrate = opt.speed; the port is reopened at opt.speed
\* (not raw) and open() calls hio.query with a 1 s timeout, exiting if
\* nothing answers.
StartHelper ==
  LET t == IF RomHears THEN [prog |-> "gordon", baud |-> opt.speed] ELSE tgt
  IN /\ pc = "helper"
     /\ tgt' = t /\ hostBaud' = opt.speed
     /\ pc' = IF t.prog = "gordon" /\ t.baud = opt.speed THEN "parts" ELSE "exit"
     /\ UNCHANGED delivered
     /\ Keep

\* write_stream_to_part for the boot stream (--flash all) and for vm: the
\* partition is found, or the default table is created when the flash has
\* none; a missing partition or one too small makes main exit.
WriteParts ==
  /\ pc = "parts" /\ HelperHears
  /\ \E fits \in BOOLEAN : pc' = IF fits THEN "reset2" ELSE "exit"
  /\ UNCHANGED <<hostBaud, tgt, delivered>>
  /\ Keep

\* Bug variant: the port is left at the flash helper's rate after the
\* reset instead of being reopened at bootspeed.
SecondResetKeepsPort ==
  /\ pc = "reset2"
  /\ IF opt.reset = "dev"
     THEN pc' = "exit" /\ UNCHANGED <<tgt, hostBaud>>
     ELSE /\ pc' = "respeed" /\ tgt' = ResetTo(tgt)
          /\ UNCHANGED hostBaud
  /\ UNCHANGED delivered
  /\ Keep

\* reset(opt.reset) again, close, reopen raw at bootspeed.  The port is
\* not raw here, and its reset() still raises for "dev".
SecondReset ==
  /\ pc = "reset2"
  /\ IF opt.reset = "dev"
     THEN pc' = "exit" /\ UNCHANGED <<tgt, hostBaud>>
     ELSE /\ pc' = "respeed" /\ tgt' = ResetTo(tgt)
          /\ hostBaud' = DefaultSpeed * Factor(opt)
  /\ UNCHANGED delivered
  /\ Keep

\* if opt.speed: cmd_speed, close, reopen raw at opt.speed.
Respeed ==
  /\ MainStep("respeed", "write")
  /\ tgt' = SpeedTo(opt.speed) /\ hostBaud' = opt.speed
  /\ UNCHANGED delivered

\* if stream and opt.flash != 'all': write_stream_to_memory.  Without
\* --verify the bytes are only written; with it each RAM write is read
\* back, and a ROM that did not hear it makes the comparison raise
\* ValueError.  A ROM that hears an ENTRY leaves for the code it enters.
RamWrite == \E k \in DOMAIN stream : stream[k].op = "write" /\ IsRam(stream[k].addr)

WriteMemory ==
  /\ pc = "write"
  /\ IF stream # <<>> /\ opt.flash # "all"
     THEN IF RomHears
          THEN /\ delivered' = "ok" /\ pc' = "final"
               /\ tgt' = IF \E k \in DOMAIN stream : stream[k].op = "entry"
                         THEN [tgt EXCEPT !.prog = "app"] ELSE tgt
          ELSE IF opt.verify /\ RamWrite
          THEN pc' = "exit" /\ UNCHANGED <<tgt, delivered>>
          ELSE delivered' = "lost" /\ pc' = "final" /\ UNCHANGED tgt
     ELSE pc' = "final" /\ UNCHANGED <<tgt, delivered>>
  /\ UNCHANGED hostBaud /\ Keep

\* Without 'entry' in --seq: cmd_speed, close, reopen raw at opt.speed; then
\* dev.close() and main returns.
FinalSpeed ==
  /\ MainStep("final", "end")
  /\ IF "entry" \notin Range(seq)
     THEN tgt' = SpeedTo(opt.speed) /\ hostBaud' = opt.speed
     ELSE UNCHANGED <<tgt, hostBaud>>
  /\ UNCHANGED delivered

ParseStep ==
  \/ Nop \/ Cont \/ NextWord \/ Entry \/ Load \/ WriteWord \/ Ignore \/ Finish

MainAction ==
  \/ OutputWrite \/ FirstReset \/ ChangeSpeed \/ RomVersion \/ FlashChoice
  \/ StartHelper \/ WriteParts \/ SecondReset \/ Respeed \/ WriteMemory
  \/ FinalSpeed

Next == ParseStep \/ MainAction

Spec == Init /\ [][Next]_vars

-----------------------------------------------------------------------------
(* The boot ROM running the stream: WRITE commands into RAM until the      *)
(* first ENTRY; an entry into the trampoline first copies its table's      *)
(* source to bank 3.                                                       *)

Written(mem, c) ==
  [x \in DOMAIN mem |-> IF c.addr <= x /\ x < c.addr + Len(c.data)
                        THEN c.data[x - c.addr + 1] ELSE mem[x]]

RamImage(k) ==
  FoldLeft(LAMBDA m, c : IF c.op = "write" THEN Written(m, c) ELSE m,
           [x \in RamLo..(RamHi - 1) |-> Unset], SubSeq(stream, 1, k - 1))

Booted(k) ==
  LET img == RamImage(k)
      e == stream[k].addr
      ts == {j \in 1..(k - 1) : stream[j].op = "write" /\ stream[j].addr = e
                                /\ stream[j].table # NoTable}
      t == stream[Max(ts)].table
  IN IF IsRam(e) /\ img[e] = Tramp /\ ts # {}
     THEN [x \in DOMAIN img |->
             IF t.dst <= x /\ x < t.dst + t.size /\ IsRam(t.src + x - t.dst)
             THEN img[t.src + x - t.dst] ELSE img[x]]
     ELSE img

FirstEntry(k) ==
  stream[k].op = "entry" /\ \A j \in 1..(k - 1) : stream[j].op # "entry"

StreamAddrs ==
  UNION {c.addr..(c.addr + Len(c.data) - 1) : c \in {c \in Range(stream) : c.op = "write"}}

-----------------------------------------------------------------------------
(* Properties                                                              *)

\* Type invariant; bank3_data only holds bytes of 0x70000..0x80000.
TypeOK ==
  /\ status \in {"run", "done", "raised"}
  /\ \A b \in bank3 : b[1] \in Bank3Lo..(Bank3Hi - 1)
  /\ \A i \in DOMAIN ranges : Len(ranges[i]) \in {1, 2}
  /\ intended \subseteq Int
  /\ pc \in {"parse", "speed", "romver", "flash", "helper", "parts", "reset2",
            "respeed", "write", "final", "end", "exit"}
  /\ hostBaud \in Nat
  /\ tgt.prog \in {"rom", "gordon", "app"} /\ tgt.baud \in Nat
  /\ delivered \in {"none", "ok", "lost"}

\* Memory.ranges stays sorted, non-empty, disjoint and merged (adjacent
\* ranges joined), and covers exactly the addresses of the WRITE commands
\* in the stream: Memory implements a set of written addresses.
RangesNormalised ==
  status # "raised" =>
    /\ ~Poisoned(ranges)
    /\ \A i \in DOMAIN ranges : ranges[i][1] < ranges[i][2]
    /\ \A i \in 1..(Len(ranges) - 1) : ranges[i][2] < ranges[i + 1][1]
    /\ UNION {r[1]..(r[2] - 1) : r \in Range(ranges)} = StreamAddrs

\* When the ROM enters the loaded image, every address that load asked
\* cmd_write for before that entry holds its own content: the bank 3 part
\* has been copied back by the trampoline, and neither the relocated data,
\* the trampoline nor the argument blob overwrote part of the image.
BootImageComplete ==
  \A k \in DOMAIN stream :
    FirstEntry(k) /\ stream[k].addr \notin {ContAddr, NextAddr} =>
      \A x \in stream[k].want : IsRam(x) /\ Booted(k)[x] = x

\* parse_boot_seq returns for every --seq: Memory.add reports an overlap
\* as a warning and goes on, and a bad write word is reported by the
\* except ValueError.
SeqNeverRaises == status # "raised"

\* write_stream_to_memory only writes the boot stream where the boot ROM
\* hears it: at the baud rate the ROM runs at, and to the ROM rather than
\* the flash helper.  It relies on every reset, cmd_speed and reopen of
\* main() before it (and after the flash helper) leaving host and target
\* at the same rate, since nothing reads from the ROM after
\* read_rom_version and a lost stream goes unnoticed.
StreamReachesRom == delivered # "lost"

=============================================================================
