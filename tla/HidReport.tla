------------------------------ MODULE HidReport ------------------------------
(***************************************************************************)
(* The report descriptors of HID devices, kernel/device/hid.c: the three   *)
(* passes over the items of a descriptor that make the reports and their   *)
(* fields, and the moving of values between fields and bytes of a report.  *)
(*                                                                         *)
(* A descriptor is a sequence of items [tag, size, raw], raw being what    *)
(* its size bytes hold.  Of a field, what the drivers never look at is     *)
(* left out: its physical limits, its unit and its maximum.                *)
(***************************************************************************)
EXTENDS Integers, SequencesExt, Bitwise, Walk

DataItems   == {"Input", "Output", "Feature"}
GlobalItems == {"UsagePage", "LogicalMinimum", "ReportSize", "ReportId", "ReportCount"}

Constant(value) == value % 2 = 1
Variable(value) == (value \div 2) % 2 = 1

Application == 1
Physical    == 0

Usage(page, id) == [Page |-> page, Desktop |-> id]

(* Also what an item finds in a slot of the stack that nothing was put in: *)
(* the program sets only the first of the sixteen.  No layout of the run   *)
(* has an item that comes to look there.                                   *)
NoUsage  == Usage(0, 0)
Bottom   == Usage(65535, 65535)      \* what is in the first slot of the stack

-----------------------------------------------------------------------------
(* Global values of one or two bytes are signed.                           *)
Value(item) ==
  IF item.tag \in GlobalItems /\ item.size \in {1, 2} /\ item.raw >= 2 ^ (8 * item.size - 1)
  THEN item.raw - 2 ^ (8 * item.size)
  ELSE item.raw

(* What is handed to the action of a pass, item by item.                   *)
HidEnumerateReport(descriptor) ==
  [k \in DOMAIN descriptor |-> [tag |-> descriptor[k].tag, value |-> Value(descriptor[k])]]

(* First pass: how many reports.  A report has an id and a type.           *)
HidEnumerateActionCountReport(d, item) ==
  CASE item.tag \in DataItems \ d.seen ->
         [reportCount |-> (d.reportCount + 1) % 256, seen |-> d.seen \cup {item.tag}]
    [] item.tag = "ReportId" -> [d EXCEPT !.seen = {}]
    [] OTHER -> d

(* Second pass: how many fields in each.                                   *)
(* Mutant of FieldsOf: every item makes one field.                         *)
FieldsOf_One(value, count) == 1

FieldsOf(value, count) == IF Variable(value) THEN count ELSE 1

HidEnumerateActionCountField(d, item) ==
  CASE item.tag \in DataItems ->
         LET at    == SelectInSeq(d.reports, LAMBDA r : r.reportId = d.report /\ r.type = item.tag)
             inner == IF at = 0 THEN [reportId |-> d.report, type |-> item.tag, fieldCount |-> 0]
                      ELSE d.reports[at]
             more  == [inner EXCEPT !.fieldCount = (@ + FieldsOf(item.value, d.count)) % 256]
         IN [d EXCEPT !.reports = IF at = 0 THEN Append(@, more) ELSE [@ EXCEPT ![at] = more]]
    [] item.tag = "ReportCount" -> [d EXCEPT !.count = item.value]
    [] item.tag = "ReportId" -> [d EXCEPT !.report = item.value % 256]
    [] OTHER -> d

(* Third pass: the fields.  One round of its loop takes a usage off the    *)
(* stack, where a range lies as two entries and loses its first usage.     *)
AddOneField(d, r, value) ==
  LET slot  == IF d.stack[d.usage] = Bottom THEN d.usage + 1 ELSE d.usage
      range == d.stack[slot].Page = 65535
      usage == d.stack[IF range THEN slot - 1 ELSE slot]
      last  == usage.Desktop = d.stack[slot].Desktop \/ ~Variable(value)
      field == [Attributes |-> value, Usage |-> usage, Size |-> d.size % 256,
                Count |-> IF Variable(value) THEN 1 ELSE d.count % 256,
                Offset |-> d.result.Report[r].ReportLength, LogicalMinimum |-> d.logicalMinimum]
  IN [d EXCEPT !.usage = IF ~range THEN slot - 1 ELSE IF last THEN slot - 2 ELSE slot,
               !.stack[slot - 1].Desktop = IF range /\ ~last THEN @ + 1 ELSE @,
               !.count = IF Variable(value) THEN @ - 1 ELSE 0,
               !.result.Report[r].Fields = Append(@, field),
               !.result.Report[r].ReportLength = (@ + field.Size * field.Count) % 256]

DropUsage(d) == [d EXCEPT !.stack[d.usage + 1] = NoUsage]

(* The loop runs while a count is left, and leaves none for the next item. *)
AddFields(d, tag, value) ==
  LET r      == SelectInSeq(d.result.Report, LAMBDA p : p.Id = d.report /\ p.Type = tag)
      rounds == IF Variable(value) \/ d.count = 0 THEN d.count ELSE 1
  IN DropUsage(Walk(LAMBDA e, k : AddOneField(e, r, value), d, [k \in 1 .. rounds |-> k]))

PushUsage(d, usage) == [d EXCEPT !.usage = @ + 1, !.stack[d.usage + 1] = usage]

(* Mutant of BeginCollection: its usage stays on the stack.                *)
BeginCollection_KeepsUsage(d, value) ==
  LET slot == IF d.stack[d.usage] = Bottom THEN d.usage + 1 ELSE d.usage
  IN [d EXCEPT !.usage = slot,
               !.result.Application = IF value = Application THEN d.stack[slot] ELSE @]

BeginCollection(d, value) ==
  LET slot == IF d.stack[d.usage] = Bottom THEN d.usage + 1 ELSE d.usage
  IN [d EXCEPT !.usage = slot - 1,
               !.result.Application = IF value = Application THEN d.stack[slot] ELSE @]

HidEnumerateActionAddField(d, item) ==
  LET tag   == item.tag
      value == item.value
  IN
  CASE tag \in DataItems       -> AddFields(d, tag, value)
    [] tag = "Collection"      -> BeginCollection(d, value)
    [] tag = "UsagePage"       -> [d EXCEPT !.page = value]
    [] tag = "LogicalMinimum"  -> [d EXCEPT !.logicalMinimum = value]
    [] tag = "ReportSize"      -> [d EXCEPT !.size = value]
    [] tag = "ReportId"        -> [d EXCEPT !.report = value % 256]
    [] tag = "ReportCount"     -> [d EXCEPT !.count = value]
    [] tag \in {"Usage", "UsageMinimum"} -> PushUsage(d, Usage(d.page, value))
    [] tag = "UsageMaximum"    -> PushUsage(d, Usage(65535, value))
    [] OTHER -> d

-----------------------------------------------------------------------------
NumberOfReports(items) ==
  Walk(HidEnumerateActionCountReport, [reportCount |-> 0, seen |-> {}], HidEnumerateReport(items)).reportCount

CountedReports(items) ==
  Walk(HidEnumerateActionCountField, [count |-> 0, report |-> 0, reports |-> << >>],
       HidEnumerateReport(items)).reports

(* The outcome of the three passes when there is memory for them, for a    *)
(* descriptor whose first two passes agree on the number of reports.       *)
HidParseReportDescriptor(items) ==
  LET counted == CountedReports(items)
      parse   == [Application |-> NoUsage,
                  Report |-> [i \in 1 .. NumberOfReports(items) |->
                                [Id |-> counted[i].reportId, Type |-> counted[i].type,
                                 ReportLength |-> 0, Fields |-> << >>]]]
      start   == [count |-> 0, size |-> 0, logicalMinimum |-> 0, page |-> 0, report |-> 0, result |-> parse,
                  usage |-> 0, stack |-> (0 :> Bottom) @@ [s \in 1 .. 15 |-> NoUsage]]
  IN Walk(HidEnumerateActionAddField, start, HidEnumerateReport(items)).result

-----------------------------------------------------------------------------
(* Bits of a buffer of bytes, a function on 0 .. n - 1.  A value in more   *)
(* than one byte is read with its most significant byte first, and written *)
(* with its least significant byte first.                                  *)
BitGetUnsigned(buffer, offset, length) ==
  LET first == offset \div 8
      last  == (offset + length - 1) \div 8
      head  == 8 - (offset % 8)
      part(i) == CASE i = first -> (buffer[i] \div 2 ^ (offset % 8)) * 2 ^ (length - head)
                   [] i = last  -> buffer[i]
                   [] OTHER     -> buffer[i] * 2 ^ (length - head - 8 * (i - first))
  IN IF first = last THEN (buffer[first] \div 2 ^ (offset % 8)) % 2 ^ length
     ELSE Walk(LAMBDA v, i : v | part(first + i - 1), 0, [i \in 1 .. last - first + 1 |-> i])

BitGetSigned(buffer, offset, length) ==
  LET result == BitGetUnsigned(buffer, offset, length)
  IN IF (result \div 2 ^ (length - 1)) % 2 = 1 THEN result - 2 ^ length ELSE result

(* A byte with its bits from .. from + n - 1 replaced.                     *)
WithBits(byte, from, n, value) ==
  (byte % 2 ^ from) + (value % 2 ^ n) * 2 ^ from + (byte \div 2 ^ (from + n)) * 2 ^ (from + n)

(* Mutant of BitSet: the bits that were there are not masked out.          *)
BitSet_Unmasked(buffer, offset, length, value) ==
  LET first == offset \div 8
      last  == (offset + length - 1) \div 8
      head  == 8 - (offset % 8)
  IN [i \in DOMAIN buffer |->
        CASE i < first \/ i > last -> buffer[i]
          [] i = first -> buffer[i] | ((value % 2 ^ (IF first = last THEN length ELSE head)) * 2 ^ (offset % 8))
          [] OTHER -> (value \div 2 ^ (head + 8 * (i - first - 1))) % 256]

BitSet(buffer, offset, length, value) ==
  LET first == offset \div 8
      last  == (offset + length - 1) \div 8
      head  == 8 - (offset % 8)
  IN [i \in DOMAIN buffer |->
        CASE i < first \/ i > last -> buffer[i]
          [] i = first -> WithBits(buffer[i], offset % 8, IF first = last THEN length ELSE head, value)
          [] OTHER -> (value \div 2 ^ (head + 8 * (i - first - 1))) % 256]

-----------------------------------------------------------------------------
ReportBytes(report) == (report.ReportLength + 7) \div 8
Bytes(n, value) == [i \in 0 .. n - 1 |-> value]

(* What HidReadDevice makes of the bytes: a value for a field, or, for an  *)
(* array, the bytes at Value.Pointer, of which there are whole ones only.  *)
BitGet(field, buffer, offset) ==
  IF field.LogicalMinimum < 0 THEN BitGetSigned(buffer, offset, field.Size)
  ELSE BitGetUnsigned(buffer, offset, field.Size)

FieldRead(field, buffer) ==
  IF Variable(field.Attributes) THEN BitGet(field, buffer, field.Offset)
  ELSE Walk(LAMBDA bytes, j : BitSet(bytes, j * field.Size, field.Size,
                                         BitGet(field, buffer, field.Offset + j * field.Size)),
                Bytes((field.Size * field.Count) \div 8, 0), [k \in 1 .. field.Count |-> k - 1])

HidReadDevice(report, buffer) == [k \in DOMAIN report.Fields |-> FieldRead(report.Fields[k], buffer)]

(* Mutant of HidGetFieldValue: an element further on.                      *)
HidGetFieldValue_Next(field, bytes, index) == BitGetSigned(bytes, ((index + 1) % field.Count) * field.Size, field.Size)

HidGetFieldValue(field, bytes, index) == BitGetSigned(bytes, index * field.Size, field.Size)

(* What HidWriteDevice sends: values[k][j] is element j of field k, the    *)
(* buffer is used as it is found.                                          *)
HidWriteDevice(report, values, buffer) ==
  LET fields == report.Fields
      put(bytes, k) ==
        Walk(LAMBDA b, j : BitSet(b, fields[k].Offset + j * fields[k].Size, fields[k].Size, values[k][j]),
                 bytes, [n \in 1 .. fields[k].Count |-> n - 1])
  IN Walk(put, buffer, [k \in DOMAIN fields |-> k])
=============================================================================
