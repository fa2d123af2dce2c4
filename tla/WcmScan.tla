------------------------------ MODULE WcmScan ------------------------------
(***************************************************************************)
(* The scan command of talaria_cli.py (StwCli.scan) with what it calls in *)
(* wcm.py: ScanUtils.scan, WCM.scan with its temporary if_scan handler,   *)
(* and the decoding of each scan indication's 802.11 information elements *)
(* (ScanUtils.decode, ie_locate, ie_authmode, ie_authmode_decode) into    *)
(* the class-level channels_db and the printed table.                     *)
(*                                                                         *)
(* Two host threads take part: the CLI thread runs the command and blocks *)
(* in dev.call(wcm.if_scan); the HIO reader thread hands each indication  *)
(* to the handler set for its class (HIO.run, ind_handler.get(key,        *)
(* print)) and wakes the caller on the response.  The device reports the  *)
(* access points it heard and then answers; the frames reach the host in  *)
(* the order they were sent.                                               *)
(***************************************************************************)
EXTENDS Integers, Sequences, SequencesExt, FiniteSets, Functions, Bitwise

CONSTANTS
  Aps,          \* the access points in range, as BSSIDs (model values)
  Ap,           \* Ap[b]: what access point b advertises (see Beacon)
  LateInds,     \* may the device answer before it has reported every AP?
  NetSsids,     \* values StwCli._ssid may hold (add_network's ssid, NoSsid)
  NoSsid,       \* _ssid = None
  MaxScans      \* bound on scan commands the user types

ASSUME MaxScans \in Nat /\ LateInds \in BOOLEAN

-----------------------------------------------------------------------------
(* 802.11 elements, as the access point lays them out in its beacon.  The *)
(* firmware copies them into the indication's ielist.                     *)

Wpa1Oui == <<0, 80, 242>>     \* 00:50:f2, wpa1_oui
Wpa2Oui == <<0, 15, 172>>     \* 00:0f:ac, wpa2_oui
TagSsid == 0
TagRates == 1
TagDs == 3
TagWpa2 == 48                 \* IE_TAG_WPA2 (RSN)
TagWpa1 == 221                \* IE_TAG_WPA1 (vendor specific)

Elem(tag, body) == <<tag, Len(body)>> \o body
Suites(oui, ts) == FlattenSeq([i \in 1..Len(ts) |-> oui \o <<ts[i]>>])
Count(n) == <<n % 256, n \div 256>>

\* RSN element: version 1, group cipher CCMP, np pairwise ciphers, the AKM
\* suites, the RSN capabilities.  The WPA element is the same behind the
\* Microsoft OUI and type 1, without capabilities.
RsnBody(a) ==
  <<1, 0>> \o Wpa2Oui \o <<4>> \o Count(a.np) \o Suites(Wpa2Oui, [i \in 1..a.np |-> 4])
    \o Count(Len(a.rsn)) \o Suites(Wpa2Oui, a.rsn) \o <<a.caps, 0>>
WpaBody(a) ==
  Wpa1Oui \o <<1>> \o <<1, 0>> \o Wpa1Oui \o <<2>> \o Count(1) \o Suites(Wpa1Oui, <<2>>)
    \o Count(Len(a.wpa)) \o Suites(Wpa1Oui, a.wpa)

\* The element list of access point a: SSID, rates, DS parameter set
\* (its channel), then the security elements it advertises.
Beacon(a) ==
  Elem(TagSsid, a.ssid) \o Elem(TagRates, <<130, 132>>) \o Elem(TagDs, <<a.chan>>)
    \o (IF a.rsn # <<>> THEN Elem(TagWpa2, RsnBody(a)) ELSE <<>>)
    \o (IF a.wpa # <<>> THEN Elem(TagWpa1, WpaBody(a)) ELSE <<>>)

-----------------------------------------------------------------------------
(* ScanUtils, byte by byte.  Offsets are 0-based as in the code; ie[k]   *)
(* of the code is At(ie, k).                                               *)

At(s, k) == s[k + 1]

\* Python's s[a:b]: the slice is cut short at the end of s.
PySlice(s, a, b) == SubSeq(s, a + 1, IF b > Len(s) THEN Len(s) ELSE b)

\* What a call returns: a value, or the exception it raises.
Val(v) == [raised |-> FALSE, found |-> TRUE, v |-> v]
Raised == [raised |-> TRUE, found |-> FALSE, v |-> <<>>]
NotFound == [raised |-> FALSE, found |-> FALSE, v |-> <<>>]

\* ie_locate(ie, tag): walk the elements from pos; ie[pos+1] past the end
\* raises IndexError; an element whose length reaches past the end is
\* "Malformed IE" and gives None.
\* Bug variant: the walk skips len + 1 bytes, one short of the element.
RECURSIVE LocateFromSkip1(_, _, _)
LocateFromSkip1(ie, tag, pos) ==
  IF pos >= Len(ie) THEN NotFound
  ELSE IF pos + 1 >= Len(ie) THEN Raised
  ELSE LET len == At(ie, pos + 1) IN
       IF len + pos > Len(ie) THEN NotFound
       ELSE IF At(ie, pos) = tag THEN Val(PySlice(ie, pos + 2, pos + 2 + len))
       ELSE LocateFromSkip1(ie, tag, pos + len + 1)

RECURSIVE LocateFrom(_, _, _)
LocateFrom(ie, tag, pos) ==
  IF pos >= Len(ie) THEN NotFound
  ELSE IF pos + 1 >= Len(ie) THEN Raised
  ELSE LET len == At(ie, pos + 1) IN
       IF len + pos > Len(ie) THEN NotFound
       ELSE IF At(ie, pos) = tag THEN Val(PySlice(ie, pos + 2, pos + 2 + len))
       ELSE LocateFrom(ie, tag, pos + len + 2)

ie_locate(ie, tag) == LocateFrom(ie, tag, 0)

\* ie_ssid: b'' when absent.  ie_channel: 0 when absent, else ds[0], which
\* raises on an empty element.
ie_ssid(ie) == LET r == ie_locate(ie, TagSsid) IN
               IF r.raised \/ r.found THEN r ELSE Val(<<>>)
ie_channel(ie) == LET r == ie_locate(ie, TagDs) IN
                  CASE r.raised     -> Raised
                    [] ~r.found     -> Val(0)
                    [] r.v = <<>>   -> Raised
                    [] OTHER        -> Val(r.v[1])

\* The auth bits of ScanUtils (IE_WPA_PERSONAL .. IE_PROTECT_BIT_CAP).
WPA_PERSONAL == 1
WPA2_PERSONAL == 2
WPA3_PERSONAL == 4
WPA_ENTERPRISE == 8
WPA2_ENTERPRISE == 16
WPA2_MGMT_FR_PR == 64
\* Bug variant: IE_PROTECT_BIT_CAP written 0x0100.
PROTECT_BIT_CAP_0x100 == 256
PROTECT_BIT_CAP == 128

\* The bits one AKM suite selector adds, by the element's wpa_type.
\* Bug variant: the SAE suite (AKM 8) adds no bit.
AkmBitNoSae(wpaType, akm) ==
  CASE wpaType = 1 /\ akm = 1 -> WPA_ENTERPRISE
    [] wpaType = 1 /\ akm = 2 -> WPA_PERSONAL
    [] wpaType = 2 /\ akm = 1 -> WPA2_ENTERPRISE
    [] wpaType = 2 /\ akm = 2 -> WPA2_PERSONAL
    [] OTHER                  -> 0

AkmBit(wpaType, akm) ==
  CASE wpaType = 1 /\ akm = 1 -> WPA_ENTERPRISE
    [] wpaType = 1 /\ akm = 2 -> WPA_PERSONAL
    [] wpaType = 2 /\ akm = 1 -> WPA2_ENTERPRISE
    [] wpaType = 2 /\ akm = 2 -> WPA2_PERSONAL
    [] wpaType = 2 /\ akm = 8 -> WPA3_PERSONAL
    [] OTHER                  -> 0

\* OR of the bits of a set of distinct flags.
OrAll(mask, flags) == mask | MapThenSumSet(LAMBDA f : f, flags \ {0})

\* ie_authmode_decode(buf, buflen, authmask) for the element at the head of
\* buf: its early returns keep the bits found so far.
AuthDecode(buf, buflen, mask) ==
  LET ielen == IF At(buf, 1) + 2 > buflen THEN buflen ELSE At(buf, 1) + 2
      wpa1 == At(buf, 0) = TagWpa1
      oui == IF wpa1 THEN Wpa1Oui ELSE Wpa2Oui
      wpaType == IF wpa1 THEN 1 ELSE 2
      Cnt(o) == At(buf, o) + 256 * At(buf, o + 1)
      o1 == IF wpa1 THEN 8 ELSE 4     \* past OUI and type, and the version
      o2 == o1 + 4                    \* past wpa_mcipher
      uc == Cnt(o2)
      o3 == o2 + 2 + 4 * uc           \* past the pairwise ciphers
      ac == Cnt(o3)
      o4 == o3 + 2                    \* the first AKM suite
      o5 == o4 + 4 * ac               \* the capabilities
      Suite(i) == o4 + 4 * i
      akms == {IF PySlice(buf, Suite(i), Suite(i) + 3) = oui
                 THEN AkmBit(wpaType, At(buf, Suite(i) + 3)) ELSE 0 : i \in 0..ac - 1}
      caps == At(buf, o5)
      capBits == {IF wpaType = 2 /\ caps & 8 # 0 THEN WPA2_MGMT_FR_PR ELSE 0,
                  IF caps & 4 # 0 THEN PROTECT_BIT_CAP ELSE 0}
  IN IF wpa1 /\ (ielen < 8 \/ PySlice(buf, 2, 5) # Wpa1Oui \/ At(buf, 5) # 1) THEN mask
     ELSE IF ~wpa1 /\ ielen < 4 THEN mask
     ELSE IF ielen < o1 + 4 \/ ielen < o2 + 2 \/ ielen < o3 THEN mask
     ELSE IF ielen < o3 + 2 \/ ielen < o5 THEN mask
     ELSE IF ielen < o5 + 2 THEN OrAll(mask, akms)
     ELSE OrAll(mask, akms \cup capBits)

\* ie_authmode: every WPA2 or WPA1 element while pos < buflen - 2.
RECURSIVE AuthFrom(_, _, _)
AuthFrom(ie, pos, mask) ==
  IF ~(pos < Len(ie) - 2) THEN mask
  ELSE LET rest == PySlice(ie, pos, Len(ie))
           m == IF At(ie, pos) \in {TagWpa2, TagWpa1}
                  THEN AuthDecode(rest, Len(rest), mask) ELSE mask
       IN AuthFrom(ie, pos + At(ie, pos + 1) + 2, m)

ie_authmode(ie) == AuthFrom(ie, 0, 0)

\* bytes.decode('utf-8'); the SSIDs of the instances are ASCII letters and
\* 0xff bytes, and a 0xff byte is never valid UTF-8.
Utf8Ok(bs) == \A i \in DOMAIN bs : bs[i] < 128

\* ScanUtils.decode: bssid, ssid, chan, rssi, authmode, in that order; the
\* first exception ends it.  (ie_bssid and ie_authmode_tostr format.)
Decode(ie) ==
  LET ssid == ie_ssid(ie)
      chan == ie_channel(ie)
  IN IF ssid.raised \/ ~Utf8Ok(ssid.v) \/ chan.raised THEN Raised
     ELSE Val([ssid |-> ssid.v, chan |-> chan.v, auth |-> ie_authmode(ie)])

-----------------------------------------------------------------------------
(* The scan command.                                                       *)

NoEntry == [ssid |-> <<>>, chan |-> -1]
NoAuth == -1

VARIABLES
  cli,        \* the CLI thread: "idle", "call" (blocked in dev.call),
              \* "ret" (woken with the response) or "decode"
  handler,    \* is scan_notify the if_scan indication handler?
  result,     \* WCM.scan_result: the indications scan_notify collected
  db,         \* ScanUtils.channels_db: bssid -> (ssid, chan), or NoEntry
  shown,      \* the authmask printed for each bssid since the last flush
  link,       \* frames on the link to the host, oldest first
  pend,       \* access points the device has heard and not yet reported
  answered,   \* has the device answered the current scan request?
  reported,   \* the access points it reported for the current request
  iface,      \* StwCli._handle is set (an interface was created)
  nscans,     \* scan commands typed
  apLine      \* the "|AP" line get_iface_info last printed: _ssid and its
              \* channel, or NoLine

vars == <<cli, handler, result, db, shown, link, pend, answered, reported, iface, nscans, apLine>>

NoCh == -1
NoLine == [ssid |-> NoSsid, ch |-> NoCh]

Init ==
  /\ cli = "idle" /\ handler = FALSE /\ result = <<>>
  /\ db = [b \in Aps |-> NoEntry] /\ shown = [b \in Aps |-> NoAuth]
  /\ link = <<>> /\ pend = {} /\ answered = TRUE /\ reported = {}
  /\ iface \in BOOLEAN /\ nscans = 0 /\ apLine = NoLine

\* WCM.scan: scan_result = set(), set_ind_handler(if_scan, scan_notify),
\* and dev.call(wcm.if_scan, ...) sends the request; the CLI thread
\* blocks until the response.
WcmScanCall ==
  /\ handler' = TRUE /\ result' = <<>> /\ cli' = "call"
  /\ answered' = FALSE /\ reported' = {}

\* StwCli.scan: without an interface, or with a parameter out of range,
\* it prints and returns.  Otherwise ScanUtils.scan -> scan_call_wcm ->
\* WCM.scan, and the device scans and hears some access points.
Scan(paramsOk) ==
  /\ cli = "idle" /\ nscans < MaxScans
  /\ nscans' = nscans + 1
  /\ IF iface /\ paramsOk
       THEN /\ WcmScanCall
            /\ \E heard \in SUBSET Aps : pend' = pend \cup heard
       ELSE UNCHANGED <<cli, handler, result, pend, answered, reported>>
  /\ UNCHANGED <<db, shown, link, iface, apLine>>

\* The device reports an access point it heard: one if_scan indication.
DeviceReport(b) ==
  /\ b \in pend
  /\ link' = Append(link, [ind |-> TRUE, bssid |-> b])
  /\ pend' = pend \ {b}
  /\ reported' = reported \cup {b}
  /\ UNCHANGED <<cli, handler, result, db, shown, answered, iface, nscans, apLine>>

\* The device answers the request, after its reports unless LateInds.
DeviceAnswer ==
  /\ ~answered /\ (pend = {} \/ LateInds)
  /\ link' = Append(link, [ind |-> FALSE, bssid |-> CHOOSE b \in Aps : TRUE])
  /\ answered' = TRUE
  /\ UNCHANGED <<cli, handler, result, db, shown, pend, reported, iface, nscans, apLine>>

\* WCM.scan_notify: scan_result.add(ind).
scan_notify(b) == Append(result, b)

\* HIO.run, an indication: ind_handler.get(key, print)(msg).
ReaderInd ==
  /\ link # <<>> /\ Head(link).ind
  /\ result' = IF handler THEN scan_notify(Head(link).bssid) ELSE result
  /\ link' = Tail(link)
  /\ UNCHANGED <<cli, handler, db, shown, pend, answered, reported, iface, nscans, apLine>>

\* HIO.run, the response: rsp_queue and rsp_sem wake the caller.
ReaderRsp ==
  /\ link # <<>> /\ ~Head(link).ind
  /\ cli = "call" /\ cli' = "ret"
  /\ link' = Tail(link)
  /\ UNCHANGED <<handler, result, db, shown, pend, answered, reported, iface, nscans, apLine>>

\* WCM.scan after the call: set_ind_handler(if_scan, None), return
\* scan_result.
WcmScanEnd == handler' = FALSE

\* WCM.scan returns; ScanUtils.scan prints the header and channels_flush().
ScanReturn ==
  /\ cli = "ret"
  /\ WcmScanEnd /\ cli' = "decode"
  /\ db' = [b \in Aps |-> NoEntry] /\ shown' = [b \in Aps |-> NoAuth]
  /\ UNCHANGED <<result, link, pend, answered, reported, iface, nscans, apLine>>

\* What decode() makes of each access point's beacon (a constant).
Decoded == [b \in Aps |-> Decode(Beacon(Ap[b]))]

\* ScanUtils.scan's loop: msg = resp.pop() (any element of the set),
\* decode, channels_update and print_scan; an exception is printed and
\* the loop goes on.
\* Bug variant: the loop reads an element without popping it when decode
\* raises, so the same message is decoded again.
DecodeOnePeek ==
  /\ cli = "decode"
  /\ \E i \in DOMAIN result :
       LET b == result[i]
           d == Decoded[b]
       IN IF d.raised THEN UNCHANGED <<result, db, shown>>
          ELSE /\ result' = RemoveAt(result, i)
               /\ db' = [db EXCEPT ![b] = [ssid |-> d.v.ssid, chan |-> d.v.chan]]
               /\ shown' = [shown EXCEPT ![b] = d.v.auth]
  /\ UNCHANGED <<cli, handler, link, pend, answered, reported, iface, nscans, apLine>>

DecodeOne ==
  /\ cli = "decode"
  /\ \E i \in DOMAIN result :
       LET b == result[i]
           d == Decoded[b]
       IN /\ result' = RemoveAt(result, i)
          /\ IF d.raised THEN UNCHANGED <<db, shown>>
             ELSE /\ db' = [db EXCEPT ![b] = [ssid |-> d.v.ssid, chan |-> d.v.chan]]
                  /\ shown' = [shown EXCEPT ![b] = d.v.auth]
  /\ UNCHANGED <<cli, handler, link, pend, answered, reported, iface, nscans, apLine>>

\* The loop ends with resp empty; the command returns.
DecodeDone ==
  /\ cli = "decode" /\ result = <<>>
  /\ cli' = "idle"
  /\ UNCHANGED <<handler, result, db, shown, link, pend, answered, reported, iface, nscans, apLine>>

\* Bug variant: lookup returns the first entry whatever its ssid.
lookupAnySsid(s) == {b \in Aps : db[b] # NoEntry}

\* ScanUtils.lookup(ssid): the first entry of channels_db whose ssid is
\* ssid.  The dict keeps the order decode added the entries in, which is
\* the arbitrary pop order of scan_result, so any matching entry may be
\* the first.
lookup(s) == {b \in Aps : db[b] # NoEntry /\ db[b].ssid = s}

\* ScanUtils.get_channel: None for a None ssid or no entry, else the
\* entry's channel.
get_channel(s) ==
  IF s = NoSsid \/ lookup(s) = {} THEN {NoCh} ELSE {db[b].chan : b \in lookup(s)}

\* StwCli.get_iface_info: without an interface it prints the state and
\* returns.  Otherwise get_ifconfig4 and get_ifconfig6 (two RPCs, which
\* may raise: the except clause prints and returns) and then
\* get_channel(self._ssid) for the "|AP" line.
GetIfaceInfo(rpcsOk) ==
  /\ cli = "idle"
  /\ IF iface /\ rpcsOk
       THEN \E s \in NetSsids : \E c \in get_channel(s) : apLine' = [ssid |-> s, ch |-> c]
       ELSE UNCHANGED apLine
  /\ UNCHANGED <<cli, handler, result, db, shown, link, pend, answered, reported, iface, nscans>>

Next ==
  \/ \E ok \in BOOLEAN : Scan(ok)
  \/ \E b \in Aps : DeviceReport(b)
  \/ DeviceAnswer \/ ReaderInd \/ ReaderRsp
  \/ ScanReturn \/ DecodeOne \/ DecodeDone
  \/ \E ok \in BOOLEAN : GetIfaceInfo(ok)

\* The reader thread and the CLI thread run; the firmware reports and
\* answers.  The user need not type another command.
Spec == Init /\ [][Next]_vars
        /\ WF_vars(ReaderInd) /\ WF_vars(ReaderRsp) /\ WF_vars(DeviceAnswer)
        /\ \A b \in Aps : WF_vars(DeviceReport(b))
        /\ WF_vars(ScanReturn) /\ WF_vars(DecodeOne) /\ WF_vars(DecodeDone)

-----------------------------------------------------------------------------
(* Properties                                                              *)

\* What the access point advertises, in ScanUtils' bit names: 802.1X is
\* AKM 1, PSK is AKM 2 and SAE is AKM 8, in the RSN or the WPA element.
AdvertisedAkms(a) ==
  {CASE k = 1 -> WPA2_ENTERPRISE [] k = 2 -> WPA2_PERSONAL [] k = 8 -> WPA3_PERSONAL
          [] OTHER -> 0 : k \in Range(a.rsn)}
  \cup {CASE k = 1 -> WPA_ENTERPRISE [] k = 2 -> WPA_PERSONAL [] OTHER -> 0
          : k \in Range(a.wpa)}
AkmBits == WPA_PERSONAL + WPA2_PERSONAL + WPA3_PERSONAL + WPA_ENTERPRISE + WPA2_ENTERPRISE

\* Type invariant.
TypeOK ==
  /\ cli \in {"idle", "call", "ret", "decode"} /\ handler \in BOOLEAN
  /\ result \in Seq(Aps) /\ pend \subseteq Aps /\ reported \subseteq Aps
  /\ \A b \in Aps : db[b] = NoEntry \/ db[b].chan \in 0..255
  /\ \A b \in Aps : shown[b] \in {NoAuth} \cup 0..255
  /\ answered \in BOOLEAN /\ iface \in BOOLEAN /\ nscans \in 0..MaxScans
  /\ apLine \in [ssid : NetSsids \cup {NoSsid}, ch : {NoCh} \cup 0..255]

\* After a scan command, channels_db holds exactly the access points the
\* device reported for the request, each with the SSID and channel of
\* its beacon, except those whose SSID is not UTF-8 text (decode raises
\* and the loop skips them).  This takes the handler installed before
\* the request, the reader dispatching in link order, the flush after
\* the call, and ie_locate walking the element list.
ScanRecordsAps ==
  cli = "idle" =>
    \A b \in Aps :
      IF b \in reported /\ Utf8Ok(Ap[b].ssid)
        THEN db[b] = [ssid |-> Ap[b].ssid, chan |-> Ap[b].chan]
        ELSE db[b] = NoEntry

\* The security printed for an access point (ie_authmode, through
\* ie_authmode_decode of each RSN and WPA element) has exactly the AKM
\* bits of the suites the access point advertises.
SecurityShown ==
  \A b \in Aps :
    shown[b] # NoAuth => shown[b] & AkmBits = OrAll(0, AdvertisedAkms(Ap[b]))

\* A scan command the user typed returns: the device's reports and answer
\* are read, the response wakes the CLI thread, and the decode loop
\* empties scan_result whatever the indications hold.
ScanCompletes == cli # "idle" ~> cli = "idle"

\* The "|AP" line get_iface_info prints gives _ssid the channel that an
\* access point advertising that SSID put in its beacon and the device
\* reported in the last scan, and gives no channel only when the device
\* reported none with that (UTF-8) SSID.  It takes channels_db being
\* flushed and refilled by the scan command (the handler, the decode
\* loop, ie_ssid and ie_channel) and ScanUtils.lookup matching the SSID.
ChannelShown ==
  [][\A ok \in BOOLEAN :
       (GetIfaceInfo(ok) /\ iface /\ ok) =>
         LET hits == {b \in reported : Ap[b].ssid = apLine'.ssid /\ Utf8Ok(Ap[b].ssid)}
         IN IF apLine'.ssid = NoSsid \/ hits = {} THEN apLine'.ch = NoCh
            ELSE apLine'.ch \in {Ap[b].chan : b \in hits}]_vars

\* 802.11 RSN capabilities: management frame protection is bit 7 (MFPC,
\* capable) or bit 6 (MFPR, required).  "+PMF" is shown exactly for an
\* RSN access point that sets one of them.
PmfShown ==
  \A b \in Aps :
    shown[b] # NoAuth =>
      ((shown[b] & WPA2_MGMT_FR_PR # 0) <=> (Ap[b].rsn # <<>> /\ Ap[b].caps & 192 # 0))

====
