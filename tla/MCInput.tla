------------------------------- MODULE MCInput -------------------------------
(***************************************************************************)
(* Models of devices, each written down as its layout, the fields it means *)
(* to describe; the items of the descriptor and the bytes of a report are  *)
(* made from the layout here, as the HID definition has it, and not by     *)
(* anything of the program.                                                *)
(*                                                                         *)
(* An entry of a layout describes count elements of size bits, in the      *)
(* report with its type and id; its usages are none, one or a range.       *)
(***************************************************************************)
EXTENDS Input, FiniteSetsExt

Entry(type, attr, page, usages, min, size, count) ==
  [type |-> type, id |-> 0, attr |-> attr, page |-> page, usages |-> usages, min |-> min,
   size |-> size, count |-> count]

I(tag, size, raw) == [tag |-> tag, size |-> size, raw |-> raw]
Byte(v) == IF v < 0 THEN v + 256 ELSE v

UsageItems(e) ==
  CASE Len(e.usages) = 0 -> << >>
    [] Len(e.usages) = 1 -> <<I("Usage", 1, e.usages[1])>>
    [] OTHER -> <<I("UsageMinimum", 1, e.usages[1]), I("UsageMaximum", 1, e.usages[2])>>

EntryItems(e, id) ==
  (IF e.id = id THEN << >> ELSE <<I("ReportId", 1, e.id)>>)
    \o <<I("UsagePage", 1, e.page)>> \o UsageItems(e)
    \o <<I("LogicalMinimum", 1, Byte(e.min)), I("ReportSize", 1, e.size), I("ReportCount", 1, e.count),
         I(e.type, 1, e.attr)>>

Items(usage, layout) ==
  <<I("UsagePage", 1, 1), I("Usage", 1, usage), I("Collection", 1, Application)>>
    \o FlattenSeq([k \in DOMAIN layout |-> EntryItems(layout[k], IF k = 1 THEN 0 ELSE layout[k - 1].id)]) \o <<I("EndCollection", 0, 0)>>

(* What a layout means: the entries of a report one after another, each    *)
(* element of a variable one a field, its usage the next of the range, or  *)
(* the last.                                                               *)
Before(layout, k) == {i \in 1 .. k - 1 : layout[i].type = layout[k].type /\ layout[i].id = layout[k].id}
Start(layout, k)  == Walk(LAMBDA sum, i : sum + IF i \in Before(layout, k) THEN layout[i].size * layout[i].count ELSE 0,
                          0, [i \in 1 .. k - 1 |-> i])

MeantUsage(e, j) ==
  CASE Len(e.usages) = 0 -> NoUsage
    [] Len(e.usages) = 1 -> Usage(e.page, e.usages[1])
    [] OTHER -> Usage(e.page, Min({e.usages[1] + j - 1, e.usages[2]}))

MeantField(layout, k, j) ==
  LET e == layout[k]
      n == IF Variable(e.attr) THEN 1 ELSE e.count
  IN [Attributes |-> e.attr, Usage |-> MeantUsage(e, j), Size |-> e.size, Count |-> n,
      Offset |-> Start(layout, k) + (j - 1) * e.size, LogicalMinimum |-> e.min]

MeantFields(layout, type, id) ==
  UNION {{MeantField(layout, k, j) : j \in 1 .. IF Variable(layout[k].attr) THEN layout[k].count ELSE 1} :
           k \in {i \in DOMAIN layout : layout[i].type = type /\ layout[i].id = id}}

MeantReports(layout) ==
  {[Type |-> layout[k].type, Id |-> layout[k].id,
    Fields |-> MeantFields(layout, layout[k].type, layout[k].id)] : k \in DOMAIN layout}

-----------------------------------------------------------------------------
(* A report as the device fills it: bits, the least significant first.     *)
(* elements(k, j) is the value of element j of entry k.                    *)
Bits(layout, type, elements(_, _)) ==
  FlattenSeq([k \in DOMAIN layout |->
    IF layout[k].type # type THEN << >>
    ELSE FlattenSeq([j \in 1 .. layout[k].count |->
           [b \in 1 .. layout[k].size |-> (elements(k, j) \div 2 ^ (b - 1)) % 2]])])

Filled(layout, type, elements(_, _)) ==
  LET bits == Bits(layout, type, elements)
  IN [i \in 0 .. (Len(bits) \div 8) - 1 |->
        Walk(LAMBDA byte, b : byte + bits[8 * i + b] * 2 ^ (b - 1), 0, [b \in 1 .. 8 |-> b])] @@ << >>

Data == 0  Const == 1  DataVar == 2  ConstVar == 3
Modifiers == Entry("Input", DataVar, 7, <<224, 231>>, 0, 1, 8)
Keys8     == Entry("Input", Data, 7, <<0, 101>>, 0, 8, 2)
Keys16    == Entry("Input", Data, 7, <<0, 101>>, 0, 16, 2)
OnePad    == Entry("Input", Const, 7, << >>, 0, 8, 1)
LedBits   == Entry("Output", DataVar, 8, <<1, 3>>, 0, 1, 3)
LedPad    == Entry("Output", Const, 8, << >>, 0, 5, 1)
Buttons   == Entry("Input", DataVar, 9, <<1, 3>>, 0, 1, 3)
ButtonPad == Entry("Input", ConstVar, 9, << >>, 0, 5, 1)
AxisX     == Entry("Input", DataVar, 1, <<48>>, -127, 8, 1)
AxisY     == Entry("Input", DataVar, 1, <<49>>, -127, 8, 1)
Vendor    == Entry("Feature", DataVar, 6, <<32>>, 0, 8, 2)

BootLayout  == <<Modifiers, OnePad, LedBits, LedPad, Keys8>>
WideLayout  == <<Keys16, Modifiers>>
MouseLayout == <<Buttons, ButtonPad, AxisX, AxisY>>

Typed(layout, mods, keys) ==
  LET element(k, j) == CASE layout[k] = Modifiers -> IF j - 1 \in mods THEN 1 ELSE 0
                         [] layout[k] \in {Keys8, Keys16} -> keys[j]
                         [] OTHER -> 0
  IN [bytes |-> Filled(layout, "Input", element), modifiers |-> mods, keys |-> keys,
      rollover |-> keys = <<1, 1>>]

Moved(buttons, x, y) ==
  LET element(k, j) == CASE k = 1 -> (buttons \div 2 ^ (j - 1)) % 2 [] k = 3 -> x [] k = 4 -> y [] OTHER -> 0
  IN [bytes |-> Filled(MouseLayout, "Input", element), rollover |-> FALSE]

MCLitBy(m, bytes) ==
  IF m # "boot" THEN {} ELSE {led \in 1 .. 3 : (bytes[0] \div 2 ^ (led - 1)) % 2 = 1}

-----------------------------------------------------------------------------
Interface(n, class, endpoints) ==
  [DescriptorType |-> "Interface", Number |-> n, Class |-> class, SubClass |-> 1, EndpointCount |-> endpoints]
HidHeader(version) == [DescriptorType |-> "Hid", HidVersion |-> version]
Endpoint(direction, type) == [DescriptorType |-> "Endpoint", Direction |-> direction, Type |-> type]

OneInterface == <<Interface(0, 3, 1), HidHeader(257), Endpoint("In", "Interrupt")>>

(* An alternate setting and an endpoint more than the interface announces. *)
Several == <<Interface(0, 3, 1), HidHeader(272), Endpoint("In", "Interrupt"), Endpoint("Out", "Bulk"),
             Interface(0, 3, 2), Endpoint("In", "Bulk"), Endpoint("In", "Bulk"),
             Interface(1, 3, 2), HidHeader(272), Endpoint("In", "Interrupt"), Endpoint("Out", "Interrupt")>>

DeviceModels ==
  [boot  |-> [configuration |-> OneInterface, items |-> Items(6, BootLayout),
              reports |-> {Typed(BootLayout, {}, <<4, 5>>), Typed(BootLayout, {}, <<0, 0>>),
                           Typed(BootLayout, {1}, <<1, 1>>)}],
   wide  |-> [configuration |-> Several, items |-> Items(6, WideLayout),
              reports |-> {Typed(WideLayout, {5}, <<132, 4>>)}],
   mouse |-> [configuration |-> OneInterface, items |-> Items(2, MouseLayout),
              reports |-> {Moved(5, 1, 255)}],
   pad   |-> [configuration |-> OneInterface, items |-> Items(6, <<ButtonPad, Keys8>>), reports |-> {}],
   stick |-> [configuration |-> OneInterface, items |-> Items(4, <<Buttons>>), reports |-> {}],
   other |-> [configuration |-> <<Interface(0, 3, 2), HidHeader(257), Endpoint("In", "Interrupt"),
                                  Endpoint("In", "Interrupt")>>,
              items |-> << >>, reports |-> {}]]

(* By a name of their own they are evaluated once.                         *)
MCModels == DeviceModels

-----------------------------------------------------------------------------
(* The layouts of up to three entries.  Entries without an id come first,  *)
(* and no id comes back after another one: the first pass would count its  *)
(* reports once more.  The first entry has usages: without any it would    *)
(* be given the one of the collection.                                     *)
Menu == {Modifiers, OnePad, LedBits, ButtonPad, Keys16, AxisX, [Vendor EXCEPT !.id = 1],
         [Keys8 EXCEPT !.id = 1], [AxisY EXCEPT !.id = 2]}
Layouts == {l \in UNION {[1 .. n -> Menu] : n \in 1 .. 3} :
              /\ l[1].usages # << >>
              /\ \A i, j \in DOMAIN l : i < j => /\ l[j].id = 0 => l[i].id = 0
                                                 /\ l[i].id = l[j].id => \A k \in i .. j : l[k].id = l[i].id}

(* A layout that is looked at by itself, or none; and whether there is a   *)
(* device more of a kind than slots, so that the tables are at their limit *)
(* and one is refused.  Such a crowd is not polled and not sent LEDs.      *)
VARIABLES sample, crowd

MCInit == Init /\ sample \in Layouts \cup {<< >>} /\ crowd \in BOOLEAN /\ (crowd => sample = << >>)
MCNext ==
  /\ sample = << >> /\ Next /\ UNCHANGED <<sample, crowd>>
  /\ ~crowd => DOMAIN device' \subseteq Slots
  /\ crowd => polling' = << >> /\ \A n \in DOMAIN device' : /\ device'[n].model \in {"boot", "mouse"}
                                                           /\ device'[n].asked = << >>
MCSpec == MCInit /\ [][MCNext]_<<vars, sample, crowd>>

(* The parse of a report descriptor gives the reports and the fields that  *)
(* were meant: usages, sizes and places in the report; and a configuration *)
(* gives each interface with the endpoints of its first setting.           *)
DescribedAsMeant ==
  /\ sample # << >> =>
       LET parse     == HidParseReportDescriptor(Items(6, sample))
           Fields(i) == {parse.Report[i].Fields[k] : k \in DOMAIN parse.Report[i].Fields}
       IN /\ parse.Application = Usage(1, 6)
          /\ MeantReports(sample) = {[Type |-> parse.Report[i].Type, Id |-> parse.Report[i].Id,
                                      Fields |-> Fields(i)] : i \in DOMAIN parse.Report}
          /\ \A i \in DOMAIN parse.Report : Cardinality(Fields(i)) = Len(parse.Report[i].Fields)
  /\ sample = << >> /\ device = << >> =>
       \A m \in DOMAIN Models :
         LET headers   == Models[m].configuration
             made      == Configured[m]
             starts    == {k \in DOMAIN headers : headers[k].DescriptorType = "Interface"}
             firsts    == {k \in starts : \A i \in starts : headers[i].Number = headers[k].Number => k <= i}
             ending(k) == Min({i \in starts : i > k} \cup {Len(headers) + 1})
             endpoints(k) == SelectSeq(SubSeq(headers, k, ending(k) - 1), LAMBDA h : h.DescriptorType = "Endpoint")
         IN \A k \in firsts :
              /\ made.Interfaces[headers[k].Number] = headers[k]
              /\ \A e \in 1 .. headers[k].EndpointCount :
                   made.Endpoints[<<headers[k].Number, e - 1>>] = endpoints(k)[e]

(* The third pass fills no more fields than the second counted, also when  *)
(* a Report Count is left standing for another item, and every report it   *)
(* looks for is there.                                                     *)
FieldsFit ==
  sample # << >> =>
    \A more \in {<< >>} \cup {<<I(type, 1, attr)>> : type \in DataItems, attr \in {0, 2}} :
      LET items   == Items(6, sample) \o more
          counted == CountedReports(items)
          filled  == HidParseReportDescriptor(items).Report
      IN Len(counted) = NumberOfReports(items)
           /\ \A i \in DOMAIN counted : Len(filled[i].Fields) <= counted[i].fieldCount
=============================================================================
