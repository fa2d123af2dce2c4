---------------------------- MODULE MCBootImage ----------------------------
(* Instances of BootImage for TLC.  One address unit is 0x8000 bytes:      *)
(* RAM 0x40000..0xc0000 is 8..23, bank 3 is 14..15, virtual memory starts  *)
(* at 0x100000 = 32.                                                       *)
EXTENDS BootImage

Seg(a, n) == [addr |-> a, len |-> n]

\* ELF images: one below bank 3; one across the start of bank 3 with a
\* virtual-memory segment; one ending in bank 3; one with a segment inside
\* bank 3 between two others.
SmallLayouts ==
  { <<Seg(10, 2)>>,
    <<Seg(12, 3), Seg(40, 1)>>,
    <<Seg(13, 2)>>,
    <<Seg(11, 1), Seg(14, 2), Seg(17, 1)>> }

\* The --seq values a user gives: the default, --gdb (''), nop and the
\* words parse_boot_seq only prints, entry before load, cont and next.
UsualSeqs ==
  { <<"load", "entry">>,
    <<"">>,
    <<"nop", "clken", "junk", "wr_bad", "load", "entry">>,
    <<"entry", "load">>,
    <<"load", "cont">>,
    <<"next">>,
    <<"load", "entry", "wr">> }

\* --seq values that reach an exception: the image loaded twice, and a
\* well-formed write word.
RaisingSeqs == { <<"load", "load", "entry">>, <<"load", "wr", "entry">> }

\* main()'s options.  Speeds are in units of 115200 baud: the default and
\* 921600.
AllOptions ==
  [output : BOOLEAN, verify : BOOLEAN, reset : {"none", "dev", "hw"},
   xtal : {40, 80}, speed : {1, 8}, flash : {"all", "vm", "nope"}]

\* A 40 MHz crystal, and a reset method whenever the flash helper runs.
UsualOptions ==
  {o \in AllOptions : o.xtal = 40 /\ (o.reset = "none" => o.flash = "nope")}

\* The defaults of --reset ('none') and --flash ('vm'), and an image with a
\* virtual-memory segment.
NoResetOptions ==
  {o \in AllOptions : o.xtal = 40 /\ o.reset = "none" /\ o.flash = "vm"
                      /\ ~o.output}
VmLayouts == { <<Seg(10, 2), Seg(40, 1)>> }
DefaultSeq == { <<"load", "entry">> }
=============================================================================
