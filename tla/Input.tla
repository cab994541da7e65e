-------------------------------- MODULE Input --------------------------------
(***************************************************************************)
(* Keyboards and mice: hid.c, keyboard.c and mouse.c of kernel/device, as  *)
(* devices come, are polled, are asked to light their LEDs, and go.        *)
(*                                                                         *)
(* All of it runs in the program's one loop, and a poll waits until the    *)
(* device reports: only an unplugging is not in step with it.  What the    *)
(* parse of a device's descriptors gives is the same at every attach, so   *)
(* it is a constant of the model of device.                                *)
(*                                                                         *)
(* Some steps use memory that nothing set, or a pointer to nowhere.  Where *)
(* that may do anything at all, wild is set and the model ends.            *)
(***************************************************************************)
EXTENDS HidReport, UsbConfig, FiniteSets

CONSTANTS
  Numbers,        \* the numbers devices are given, from 1
  Models,         \* the models of device, by name: their descriptors and reports
  LitBy(_, _),    \* the LEDs that a model lights when it is sent bytes
  MaxOfKind,      \* KeyboardMaxKeyboards and MouseMaxMice (4)
  MaxKeys,        \* KeyboardMaxKeys (6)
  LedChoices,     \* the LEDs that callers want lit
  Half            \* half of the range of an int16_t (32768)

VARIABLES
  device,         \* the devices attached, by number
  registry,       \* keyboards and mice: count, addresses and devices of each
  old_keys_down,
  polling,        \* the poll in progress
  wild

vars == <<device, registry, old_keys_down, polling, wild>>

Slots == 1 .. MaxOfKind
Kinds == {"keyboard", "mouse"}
Null  == 0
NULL  == [Index |-> 0]
Idle  == polling = << >> /\ ~wild

Init ==
  /\ device = << >>
  /\ registry = [kind \in Kinds |-> [count |-> 0, addresses |-> [i \in Slots |-> 0],
                                     devices |-> [i \in Slots |-> Null]]]
  /\ old_keys_down = [i \in 1 .. MaxKeys |-> 0]
  /\ polling = << >>
  /\ wild = FALSE

-----------------------------------------------------------------------------
InterfaceClassHid == 3

(* c is a device's configuration as UsbConfigure left it.                  *)
InterfaceAccepted(c) ==
  LET count == c.Interfaces[0].EndpointCount
  IN /\ c.Interfaces[0].Class = InterfaceClassHid
     /\ count >= 1 /\ c.Endpoints[<<0, 0>>].Direction = "In" /\ c.Endpoints[<<0, 0>>].Type = "Interrupt"
     /\ count >= 2 => c.Endpoints[<<0, 1>>].Direction = "Out" /\ c.Endpoints[<<0, 1>>].Type = "Interrupt"
     /\ \E k \in HidDescriptors(c, 0) : /\ \A l \in HidDescriptors(c, 0) : k <= l
                                        /\ c.FullConfiguration[k].HidVersion <= 273

ReportsOf(parse, type) == {i \in DOMAIN parse.Report : parse.Report[i].Type = type}
Least(S)    == CHOOSE i \in S \cup {0} : S # {} => i \in S /\ \A j \in S : i <= j
Greatest(S) == CHOOSE i \in S \cup {0} : S # {} => i \in S /\ \A j \in S : j <= i

FieldsOfReport(parse, i) == IF i = 0 THEN << >> ELSE parse.Report[i].Fields

(* KeyboardAttach takes fields without a usage for keys, too; the field of *)
(* modifier k is KeyFields[k], and that of the keys is KeyFields[8].       *)
KeyboardLeftControl == 224
KeyFieldsFound(fields) ==
  {<<IF Variable(fields[j].Attributes) THEN fields[j].Usage.Desktop - KeyboardLeftControl ELSE 8, j>> :
     j \in {i \in DOMAIN fields : fields[i].Usage.Page \in {7, 0}}}
KeyFieldsIn(found) == [k \in 0 .. 8 |-> Greatest({f[2] : f \in {g \in found : g[1] = k}})] @@ << >>

Leds == (1 .. 7) \cup {9}
LedFieldsIn(fields) ==
  [led \in Leds |-> Greatest({j \in DOMAIN fields : fields[j].Usage = Usage(8, led)})] @@ << >>
LedSupport(drv) == {led \in Leds : drv.LedFields[led] # 0}

HidUsageAttach(drv) ==
  CASE drv.Application = Usage(1, 6) -> "keyboard"
    [] drv.Application = Usage(1, 2) -> "mouse"
    [] OTHER -> "none"

(* What the drivers of usages find in a parsed descriptor.                 *)
FoundIn(parse) ==
  LET keyReport == Least(ReportsOf(parse, "Input"))
      ledReport == Least(ReportsOf(parse, "Output"))
      found     == KeyFieldsFound(FieldsOfReport(parse, keyReport))
  IN [Application |-> parse.Application, Report |-> parse.Report,
      KeyReport |-> keyReport, KeyFound |-> found, KeyFields |-> KeyFieldsIn(found),
      LedReport |-> ledReport, LedFields |-> LedFieldsIn(FieldsOfReport(parse, ledReport)),
      MouseReport |-> Greatest(ReportsOf(parse, "Input"))]

(* What a model's descriptors come to.  (As the result of @@ a table is    *)
(* evaluated once.)                                                        *)
Configured == [m \in DOMAIN Models |-> UsbConfigure(Models[m].configuration)] @@ << >>
Found      == [m \in DOMAIN Models |-> FoundIn(HidParseReportDescriptor(Models[m].items))] @@ << >>

HidAccepts(m) == InterfaceAccepted(Configured[m])

-----------------------------------------------------------------------------
(* Attaching.  A device is configured, and its interface 0 gets a driver;  *)
(* asked is what the LEDs were last set to, heard the last report taken.   *)
Plugged(m) ==
  [model |-> m, gone |-> FALSE, driver |-> FALSE, hooks |-> "NULL", data |-> NULL, buffered |-> FALSE,
   lit |-> {}, asked |-> << >>, heard |-> << >>]

Attach(n, d) == device' = [k \in DOMAIN device \cup {n} |-> IF k = n THEN d ELSE device[k]]

(* HidAttach refuses it, the device does, or no memory is left.            *)
AttachWithoutDriver(n, m) ==
  /\ Attach(n, Plugged(m))
  /\ UNCHANGED <<registry, old_keys_down, polling, wild>>

(* After a failure past that, HidDeallocate calls what was in the memory   *)
(* of the new HidDevice, and frees what it finds there.                    *)
HidAttachFails(n, m) ==
  /\ HidAccepts(m)
  /\ Attach(n, Plugged(m))
  /\ wild' \in BOOLEAN
  /\ UNCHANGED <<registry, old_keys_down, polling>>

(* The hooks of a HidDevice are set by the drivers of usages alone.        *)
Attached(m, hooks, data) == [Plugged(m) EXCEPT !.driver = TRUE, !.hooks = hooks, !.data = data]

Full(kind) == registry[kind].count = MaxOfKind

HidAttachAlone(n, m) ==
  /\ HidAccepts(m)
  /\ \/ HidUsageAttach(Found[m]) = "none"
     \/ \E kind \in Kinds : HidUsageAttach(Found[m]) = kind /\ (Full(kind) \/ Found[m].Report = << >>)
  /\ Attach(n, Attached(m, "unset", NULL))
  /\ UNCHANGED <<registry, old_keys_down, polling, wild>>

(* KeyCount is whatever the memory held.                                   *)
KeyboardData(slot, junk) ==
  [Index |-> slot, KeyCount |-> junk, Keys |-> [i \in 1 .. MaxKeys |-> 0], Modifiers |-> {}]
MouseData(slot) == [Index |-> slot, buttonState |-> 0, mouseX |-> 0, mouseY |-> 0, wheel |-> 0]

(* KeyboardAttach and MouseAttach.  A count that is too small would have   *)
(* them panic for want of a slot (keyboard.c:269, mouse.c:125), which no   *)
(* state does in which the count is the one of RegistryAgrees.             *)
UsageAttach(n, m, drv, kind) ==
  /\ HidAccepts(m) /\ HidUsageAttach(drv) = kind
  /\ ~Full(kind) /\ drv.Report # << >>
  /\ \/ /\ Attach(n, Attached(m, kind, NULL))
        /\ UNCHANGED <<registry, wild>>
     \/ \E slot \in {i \in Slots : registry[kind].addresses[i] = 0}, junk \in {0, MaxKeys} :
          /\ \A i \in 1 .. slot - 1 : registry[kind].addresses[i] # 0
          /\ registry' = [registry EXCEPT ![kind].count = @ + 1, ![kind].addresses[slot] = n,
                                          ![kind].devices[slot] = n]
          /\ Attach(n, Attached(m, kind, IF kind = "keyboard" THEN KeyboardData(slot, junk)
                                         ELSE MouseData(slot)))
          /\ wild' = (kind = "keyboard" /\ \E f \in drv.KeyFound : f[1] \notin 0 .. 8)
  /\ UNCHANGED <<old_keys_down, polling>>

UsbAttachDevice(n, m) ==
  /\ Idle /\ n \notin DOMAIN device
  /\ \/ AttachWithoutDriver(n, m)
     \/ HidAttachFails(n, m)
     \/ HidAttachAlone(n, m)
     \/ UsageAttach(n, m, Found[m], "keyboard")
     \/ UsageAttach(n, m, Found[m], "mouse")

Unplug(n) ==
  /\ ~wild /\ n \in DOMAIN device /\ ~device[n].gone
  /\ device' = [device EXCEPT ![n].gone = TRUE]
  /\ UNCHANGED <<registry, old_keys_down, polling, wild>>

(* KeyboardDetached and MouseDetached.                                     *)
(* Mutant of UsageDetached: mice and keyboards are not counted down.       *)
UsageDetached_StillCounted(n, kind) ==
  LET slot == device[n].data.Index
  IN registry' = IF slot # 0 /\ registry[kind].addresses[slot] = n
                 THEN [registry EXCEPT ![kind].addresses[slot] = 0, ![kind].devices[slot] = Null]
                 ELSE registry

UsageDetached(n, kind) ==
  LET slot == device[n].data.Index
  IN registry' = IF slot # 0 /\ registry[kind].addresses[slot] = n
                 THEN [registry EXCEPT ![kind].addresses[slot] = 0, ![kind].count = @ - 1,
                                       ![kind].devices[slot] = Null]
                 ELSE registry

(* HidDetached, then HidDeallocate with the hook that is KeyboardDeallocate *)
(* or MouseDeallocate: what a device had is gone, its data with it.        *)
UsbDeallocateDevice(n) ==
  /\ Idle /\ n \in DOMAIN device /\ device[n].gone
  /\ device' = [k \in DOMAIN device \ {n} |-> device[k]]
  /\ \/ device[n].hooks = "unset" /\ wild' \in BOOLEAN /\ UNCHANGED registry
     \/ device[n].hooks = "NULL" /\ UNCHANGED <<registry, wild>>
     \/ device[n].hooks \in Kinds /\ UsageDetached(n, device[n].hooks) /\ UNCHANGED wild
  /\ UNCHANGED <<old_keys_down, polling>>

-----------------------------------------------------------------------------
(* KeyboardIndex and MouseIndex, as a slot: 0 when there is none.          *)
Index(kind, address) ==
  Least({i \in 1 .. registry[kind].count : address # 0 /\ registry[kind].addresses[i] = address})

(* KeyboardGetAddress and MouseGetAddress.                                 *)
GetAddress(kind, index) ==
  LET used == {i \in Slots : registry[kind].addresses[i] # 0}
      nth  == {i \in used : Cardinality({j \in used : j < i}) = index}
  IN IF index > registry[kind].count \/ nth = {} THEN 0 ELSE registry[kind].addresses[Least(nth)]

DataOf(d, address) == d[registry["keyboard"].devices[Index("keyboard", address)]].data

KeyboardGetKeyDown(d, address, index) ==
  IF Index("keyboard", address) = 0 THEN 0
  ELSE LET data == DataOf(d, address) IN IF index >= data.KeyCount THEN 0 ELSE data.Keys[index + 1]

KeysDown(d, address) == [i \in 1 .. MaxKeys |-> KeyboardGetKeyDown(d, address, i - 1)]

KeyWasDown(scanCode) == \E i \in 1 .. MaxKeys : scanCode = old_keys_down[i]

(* The entry of the keymap that KeyboardGetChar returns: key and column.   *)
KeyboardGetChar(address) ==
  LET keys   == KeysDown(device, address)
      chosen == {i \in 1 .. MaxKeys : /\ \A j \in 1 .. i : keys[j] # 0
                                      /\ KeyWasDown(keys[i]) /\ keys[i] # 104}
  IN IF chosen = {} THEN << >>
     ELSE <<keys[Least(chosen)], DataOf(device, address).Modifiers \cap {1, 5} # {}>>

-----------------------------------------------------------------------------
(* Polls.  KeyboardUpdate remembers the keys after its poll, however that  *)
(* ends; one set of remembered keys serves all keyboards.                  *)
Remember(update, d, address) ==
  old_keys_down' = IF update THEN KeysDown(d, address) ELSE old_keys_down

ReportPolled(kind, drv) == IF kind = "keyboard" THEN drv.KeyReport ELSE drv.MouseReport

PollFails(kind, address, update) ==
  /\ Idle
  /\ \/ Index(kind, address) = 0
     \/ Index(kind, address) # 0 /\ ~device[registry[kind].devices[Index(kind, address)]].buffered
  /\ Remember(update, device, address)
  /\ UNCHANGED <<device, registry, polling, wild>>

Poll(kind, address, update) ==
  /\ Idle /\ Index(kind, address) # 0
  /\ LET n == registry[kind].devices[Index(kind, address)]
     IN /\ wild' = (ReportPolled(kind, Found[device[n].model]) = 0)
        /\ device' = [device EXCEPT ![n].buffered = TRUE]
        /\ polling' = [number |-> n, kind |-> kind, address |-> address, update |-> update]
  /\ UNCHANGED <<registry, old_keys_down>>

(* KeyboardPoll, once HidReadDevice is through.  A first element that      *)
(* means too many keys leaves the keys as they were.                       *)
KeyboardErrorRollOver == 1

KeyboardPolled(data, drv, values) ==
  LET fields == drv.Report[drv.KeyReport].Fields
      keys   == drv.KeyFields[8]
      element(i) == HidGetFieldValue(fields[keys], values[keys], i - 1)
      read   == 1 .. IF MaxKeys <= fields[keys].Count THEN MaxKeys ELSE fields[keys].Count
      held   == [data EXCEPT !.Modifiers = {k \in 0 .. 7 : IF drv.KeyFields[k] = 0 THEN k \in @
                                                          ELSE values[drv.KeyFields[k]] % 2 = 1}]
  IN IF keys = 0 THEN held
     ELSE IF element(1) = KeyboardErrorRollOver THEN held
     ELSE [held EXCEPT !.Keys = [i \in DOMAIN @ |-> IF i \in read THEN element(i) % 65536 ELSE @[i]],
                       !.KeyCount = Cardinality({i \in read :
                                      (element(i) % 65536) + fields[keys].Usage.Desktop # 0})]

(* MousePoll, on the bytes of the report: a fourth byte is used even when  *)
(* the report has three.                                                   *)
Signed8(byte) == IF byte >= 128 THEN byte - 256 ELSE byte
Signed16(v)   == ((v + Half) % (2 * Half)) - Half
NotBelow0(v)  == IF v < 0 THEN 0 ELSE v

MousePolled(data, bytes, beyond) ==
  [data EXCEPT !.buttonState = bytes[0],
               !.mouseX = NotBelow0(Signed16(@ + Signed8(bytes[1]))),
               !.mouseY = NotBelow0(Signed16(@ + Signed8(bytes[2]))),
               !.wheel = Signed16(@ + Signed8(IF 3 \in DOMAIN bytes THEN bytes[3] ELSE beyond))]

Polled(kind, data, drv, bytes, beyond) ==
  IF kind = "keyboard" THEN KeyboardPolled(data, drv, HidReadDevice(drv.Report[drv.KeyReport], bytes))
  ELSE MousePolled(data, bytes, beyond)

(* A device with no news lets HidGetReport go round its loop.              *)
ReportArrives ==
  /\ polling # << >> /\ ~wild
  /\ ~device[polling.number].gone
  /\ LET d == device[polling.number]
     IN \E r \in Models[d.model].reports, beyond \in {0, 255} :
          /\ device' = [device EXCEPT
                          ![polling.number].data = Polled(polling.kind, @, Found[d.model], r.bytes, beyond),
                          ![polling.number].heard = Append(SelectSeq(@, LAMBDA s : r.rollover /\ ~s.rollover), r)]
          /\ Remember(polling.update, device', polling.address)
  /\ polling' = << >>
  /\ UNCHANGED <<registry, wild>>

-----------------------------------------------------------------------------
(* KeyboardSetLeds.  What the report holds besides LEDs, and the bits that *)
(* its fields leave over, are whatever the memory held.                    *)
SentFor(drv, leds, junk) ==
  LET report == drv.Report[drv.LedReport]
      value(k) ==
        CASE ~Variable(report.Fields[k].Attributes) -> junk
          [] \E led \in leds \cap LedSupport(drv) : drv.LedFields[led] = k -> 1
          [] OTHER -> 0
      values == [k \in DOMAIN report.Fields |-> Bytes(report.Fields[k].Count, value(k))]
  IN HidWriteDevice(report, values, Bytes(ReportBytes(report), junk))

KeyboardSetLeds(address, leds) ==
  /\ Idle /\ Index("keyboard", address) # 0
  /\ LET n == registry["keyboard"].devices[Index("keyboard", address)]
         m == device[n].model
         drv == Found[m]
     IN \/ drv.LedReport = 0 /\ wild' = TRUE /\ UNCHANGED device
        \/ /\ drv.LedReport # 0 /\ ~device[n].gone
           /\ \E junk \in {0, 255} :
                device' = [device EXCEPT ![n].lit = LitBy(m, SentFor(drv, leds, junk)), ![n].asked = <<leds>>]
           /\ UNCHANGED wild
        \/ /\ drv.LedReport # 0
           /\ device' = [device EXCEPT ![n].asked = << >>]
           /\ UNCHANGED wild
  /\ UNCHANGED <<registry, old_keys_down, polling>>

Next ==
  \/ \E n \in Numbers, m \in DOMAIN Models : UsbAttachDevice(n, m)
  \/ \E n \in Numbers : Unplug(n)
  \/ \E n \in Numbers : UsbDeallocateDevice(n)
  \/ \E kind \in Kinds, a \in Numbers, u \in BOOLEAN : (u => kind = "keyboard") /\ PollFails(kind, a, u)
  \/ \E kind \in Kinds, a \in Numbers, u \in BOOLEAN : (u => kind = "keyboard") /\ Poll(kind, a, u)
  \/ ReportArrives
  \/ \E a \in Numbers, leds \in LedChoices : KeyboardSetLeds(a, leds)

Spec == Init /\ [][Next]_vars

-----------------------------------------------------------------------------
(* The tables of keyboards and mice name exactly the devices that are      *)
(* attached as such and have their data, at the slots these name, and the  *)
(* counts count them, through any order of coming, failing, being refused  *)
(* at the limit and going.                                                 *)
RegistryAgrees ==
  ~wild => \A kind \in Kinds :
    LET r == registry[kind] IN
    /\ r.count = Cardinality({i \in Slots : r.addresses[i] # 0})
    /\ \A i \in Slots : r.addresses[i] # 0 =>
         /\ r.addresses[i] \in DOMAIN device /\ r.devices[i] = r.addresses[i]
         /\ device[r.addresses[i]].hooks = kind /\ device[r.addresses[i]].data.Index = i
    /\ \A n \in DOMAIN device : device[n].hooks = kind /\ device[n].data # NULL
         => r.addresses[device[n].data.Index] = n

(* What the keyboard's getters tell is what its last reports said: its     *)
(* modifiers the last one, its keys the last one that could name them all, *)
(* through the fields found in its descriptor and twice through the bits   *)
(* of a buffer; and a character comes from a key that is down.             *)
KeysAsReported ==
  ~wild => \A n \in DOMAIN device :
    /\ device[n].hooks = "keyboard" /\ Index("keyboard", n) # 0 /\ device[n].heard # << >>
    => LET said == device[n].heard
           last == said[Len(said)]
           keys == KeysDown(device, n)
           char == KeyboardGetChar(n)
       IN /\ device[n].data.Modifiers = last.modifiers
          /\ ~said[1].rollover => keys = said[1].keys
          /\ char # << >> => /\ \E i \in 1 .. MaxKeys : keys[i] = char[1]
                             /\ char[2] = (last.modifiers \cap {1, 5} # {})

(* After KeyboardSetLeds returned OK, the LEDs that are lit are those it   *)
(* was called with that the keyboard has, whatever the buffer held.        *)
LedsAsAsked ==
  \A n \in DOMAIN device : device[n].asked # << >> =>
    device[n].lit = device[n].asked[1] \cap LedSupport(Found[device[n].model])
=============================================================================
