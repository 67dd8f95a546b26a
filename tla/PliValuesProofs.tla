--------------------------- MODULE PliValuesProofs ---------------------------
(***************************************************************************)
(* Proofs about PliValues, for any sheet, name map and number of labels.   *)
(***************************************************************************)
EXTENDS PliValues, TLAPS

\* While labels are being read, the last value read under a name is held there, as
\* the field or as metadata: nothing has been promoted or replaced yet.
HeldUnderName ==
  pc = "reading" =>
    \A n \in Names : cells[n] # None =>
      IF TakenAsField(n, sheet[cells[n]])
      THEN fields[n] = Coerced(n, sheet[cells[n]])
      ELSE meta[n] = sheet[cells[n]]

\* Only filled cells are recorded; only PLI fields hold fields, int fields hold
\* integers, and only what no label fills is the readers' own.
OnlyFilledCells == \A n \in Names : cells[n] # None => sheet[cells[n]] \in Values
FieldsFit ==
  \A n \in Names : fields[n] # None =>
    /\ n \in PliFields
    /\ n \in IntFields => fields[n] \in Integers
    /\ fields[n] = Own => n \in Overwritten

\* Metadata is what no field took, and without a field it is the value last read.
MetaFits ==
  \A n \in Names : meta[n] # None =>
    /\ meta[n] \in Values /\ ~TakenAsField(n, meta[n])
    /\ cells[n] # None /\ fields[n] = None => meta[n] = sheet[cells[n]]

ValuesInv ==
  /\ TypeOK /\ HeldUnderName /\ OnlyFilledCells /\ FieldsFit /\ MetaFits
  /\ LossesAreKnown /\ ConfidenceFollowsAddress /\ OnlyDatesAreRejected
  /\ VerifierErrsOnZerosAndDates

\* The promotion is about names every PLI has, and the kinds of fields differ.
LEMMA NamedFields ==
  /\ {"io_number", "buyer_po_no", "delivery_date", "source", "stages"} \subseteq Names
  /\ "io_number" \in StringFields
  /\ StringFields \cap IntFields = {} /\ StringFields \cap DateFields = {}
  /\ IntFields \cap DateFields = {} /\ "buyer_po_no" \notin PliFields
  /\ Overwritten \cap (StringFields \cup IntFields \cup DateFields) = {}
  /\ Overwritten = {"source", "stages"}
BY DEF Names, Containers, StringFields, IntFields, DateFields, PliFields, Overwritten

\* What _coerce makes of a value is a value, for an int field an integer.
LEMMA CoercedType ==
  ASSUME NEW n \in Names, NEW v \in Values, TakenAsField(n, v)
  PROVE  /\ Coerced(n, v) \in Values /\ Coerced(n, v) # None /\ Coerced(n, v) # Own
         /\ n \in IntFields => Coerced(n, v) \in Integers
         /\ n \notin Overwritten /\ ~Loses(n, v) => Coerced(n, v) \in SameValue(v)
<1>1. v \in Rounded => Whole[v] \in Integers
  BY ValuesAssumption
<1>2. Integers \subseteq Values /\ None \notin Values /\ Own \notin Values
  BY ValuesAssumption DEF Values
<1>3. Coerced(n, v) \in Values /\ (n \in IntFields => Coerced(n, v) \in Integers)
  BY <1>1, <1>2, NamedFields DEF Coerced, Truncates, TakenAsField, Coerces, Rounded
<1>4. ASSUME ~Loses(n, v) PROVE Coerced(n, v) \in SameValue(v)
  <2>1. Truncates(n, v) => v \in Floats \cup Grouped
    BY <1>4, NamedFields DEF Truncates, Loses, Rounded
  <2>2. v \in Floats \cup Grouped => Whole[v] \in SameValue(v)
    BY DEF SameValue
  <2>3. QED
    BY <2>1, <2>2 DEF Coerced, SameValue
<1>5. QED
  BY <1>2, <1>3, <1>4

\* A value that is lost is one a field took, and it stands for itself alone.
LEMMA LostValues ==
  ASSUME NEW n \in Names, NEW v \in Values, Loses(n, v)
  PROVE  /\ n # "buyer_po_no" /\ n # "io_number"
         /\ n \notin Overwritten => SameValue(v) = {v}
         /\ TakenAsField(n, v)
         /\ n \notin IntFields => \A w \in Values : TakenAsField(n, w)
<1>1. n \notin Overwritten => v \notin Floats \cup Grouped
  BY ValuesAssumption, NamedFields DEF Loses, Rounded
<1>2. n \in PliFields
  BY DEF Loses, PliFields
<1>3. QED
  BY <1>1, <1>2, NamedFields DEF Loses, SameValue, TakenAsField, Coerces, Rounded

\* Whatever the confidence comes from, it is one of the known ones.
LEMMA ConfidenceType ==
  ASSUME NEW n \in Names, NEW source \in Channels \cup {"metadata_fallback"}
  PROVE  /\ Confidence(n, source) \in Confidences
         /\ Confidence(n, source) # None
         /\ Confidence(n, source) = IF n \in Rated THEN "rated" ELSE source
BY ValuesAssumption DEF Confidence, Confidences

\* The initial state satisfies the invariant.
LEMMA ValuesInit == Init => ValuesInv
BY ValuesAssumption
   DEF Init, ValuesInv, TypeOK, HeldUnderName, OnlyFilledCells, FieldsFit,
       MetaFits, LossesAreKnown, ConfidenceFollowsAddress, OnlyDatesAreRejected,
       VerifierErrsOnZerosAndDates, Nowhere, Channels

\* Reading a value as a field keeps the invariant.
LEMMA ReadFieldKeepsInv ==
  ASSUME ValuesInv, NEW n \in Targets \cap Names, NEW c \in Cells, ReadField(n, c)
  PROVE  ValuesInv'
<1> USE DEF ValuesInv
<1>1. /\ pc = "reading" /\ pc' = "reading" /\ channel' \in Channels
      /\ sheet' = sheet /\ meta' = meta /\ flagged' = flagged
      /\ read' \in 0..MaxLabels
  BY ValuesAssumption DEF ReadField, NextLabel, TypeOK
<1>2. /\ sheet[c] \in Values /\ sheet[c] # None /\ TakenAsField(n, sheet[c])
      /\ fields' = [fields EXCEPT ![n] = Coerced(n, sheet[c])]
      /\ cells' = [cells EXCEPT ![n] = c]
      /\ conf' = [conf EXCEPT ![n] = Confidence(n, channel')]
      /\ c # None
  BY ValuesAssumption DEF ReadField, Trace, TypeOK
<1>3. /\ Confidence(n, channel') \in Confidences
      /\ Confidence(n, channel') # None
      /\ Confidence(n, channel') = IF n \in Rated THEN "rated" ELSE channel'
  BY <1>1, ConfidenceType
<1>0. /\ Coerced(n, sheet[c]) \in Values /\ Coerced(n, sheet[c]) \notin {None, Own}
      /\ n \in IntFields => Coerced(n, sheet[c]) \in Integers
  BY <1>2, CoercedType
<1>4. TypeOK'
  BY <1>0, <1>1, <1>2, <1>3 DEF TypeOK
<1>5. /\ \A m \in Names : m # n => /\ fields'[m] = fields[m]
                                   /\ cells'[m] = cells[m] /\ conf'[m] = conf[m]
      /\ fields'[n] = Coerced(n, sheet[c]) /\ cells'[n] = c
      /\ conf'[n] = Confidence(n, channel')
  BY <1>2 DEF TypeOK
<1>6. HeldUnderName' /\ OnlyFilledCells'
  BY <1>1, <1>2, <1>5 DEF HeldUnderName, OnlyFilledCells
<1>7. FieldsFit' /\ MetaFits'
  BY <1>0, <1>1, <1>2, <1>5 DEF FieldsFit, MetaFits, TakenAsField
<1>8. ConfidenceFollowsAddress'
  <2>1. TakenAsField(n, sheet'[cells'[n]])
    BY <1>1, <1>2, <1>5
  <2>2. channel' # "metadata_fallback"
    BY <1>1 DEF Channels
  <2>3. QED
    BY <1>1, <1>2, <1>3, <1>5, <2>1, <2>2 DEF ConfidenceFollowsAddress
<1>9. LossesAreKnown' /\ OnlyDatesAreRejected' /\ VerifierErrsOnZerosAndDates'
  BY <1>1 DEF LossesAreKnown, OnlyDatesAreRejected, VerifierErrsOnZerosAndDates
<1>10. QED
  BY <1>4, <1>6, <1>7, <1>8, <1>9

\* Reading a value into the metadata keeps the invariant.
LEMMA ReadMetadataKeepsInv ==
  ASSUME ValuesInv, NEW n \in Targets \cap Names, NEW c \in Cells, ReadMetadata(n, c)
  PROVE  ValuesInv'
<1> USE DEF ValuesInv
<1>1. /\ pc = "reading" /\ pc' = "reading" /\ channel' \in Channels
      /\ sheet' = sheet /\ fields' = fields /\ flagged' = flagged
      /\ read' \in 0..MaxLabels
  BY ValuesAssumption DEF ReadMetadata, NextLabel, TypeOK
<1>2. /\ sheet[c] \in Values /\ sheet[c] # None /\ ~TakenAsField(n, sheet[c])
      /\ meta' = [meta EXCEPT ![n] = sheet[c]]
      /\ cells' = [cells EXCEPT ![n] = c]
      /\ conf' = [conf EXCEPT ![n] = Confidence(n, "metadata_fallback")]
      /\ c # None
  BY ValuesAssumption DEF ReadMetadata, WithMeta, Trace, TypeOK
<1>3. /\ Confidence(n, "metadata_fallback") \in Confidences
      /\ Confidence(n, "metadata_fallback") # None
      /\ Confidence(n, "metadata_fallback") =
           IF n \in Rated THEN "rated" ELSE "metadata_fallback"
  BY ConfidenceType
<1>4. TypeOK'
  BY <1>1, <1>2, <1>3 DEF TypeOK
<1>5. /\ \A m \in Names : m # n => /\ meta'[m] = meta[m]
                                   /\ cells'[m] = cells[m] /\ conf'[m] = conf[m]
      /\ meta'[n] = sheet[c] /\ cells'[n] = c
      /\ conf'[n] = Confidence(n, "metadata_fallback")
  BY <1>2 DEF TypeOK
<1>6. HeldUnderName' /\ OnlyFilledCells'
  BY <1>1, <1>2, <1>5 DEF HeldUnderName, OnlyFilledCells
<1>7. FieldsFit' /\ MetaFits'
  BY <1>1, <1>2, <1>5 DEF FieldsFit, MetaFits
<1>8. ConfidenceFollowsAddress'
  <2>1. ~TakenAsField(n, sheet'[cells'[n]])
    BY <1>1, <1>2, <1>5
  <2>2. QED
    BY <1>1, <1>2, <1>3, <1>5, <2>1 DEF ConfidenceFollowsAddress
<1>9. LossesAreKnown' /\ OnlyDatesAreRejected' /\ VerifierErrsOnZerosAndDates'
  BY <1>1 DEF LossesAreKnown, OnlyDatesAreRejected, VerifierErrsOnZerosAndDates
<1>10. QED
  BY <1>4, <1>6, <1>7, <1>8, <1>9

\* Skipping a label, or naming a container, disturbs no value.
LEMMA OtherLabelsKeepInv ==
  ASSUME ValuesInv, SkipLabel \/ \E n \in Containers, c \in Cells : ReadContainer(n, c)
  PROVE  ValuesInv'
<1>1. /\ pc = "reading" /\ pc' \in {"reading", "misnamed"} /\ channel' \in Channels
      /\ read' \in 0..MaxLabels
      /\ UNCHANGED <<sheet, fields, meta, cells, conf, flagged>>
  BY ValuesAssumption DEF ValuesInv, TypeOK, SkipLabel, ReadContainer, NextLabel
<1>2. TypeOK'
  BY <1>1 DEF ValuesInv, TypeOK
<1>3. HeldUnderName' /\ OnlyFilledCells' /\ FieldsFit' /\ MetaFits'
  BY <1>1 DEF ValuesInv, HeldUnderName, OnlyFilledCells, FieldsFit, MetaFits
<1>4. ConfidenceFollowsAddress'
  BY <1>1 DEF ValuesInv, ConfidenceFollowsAddress
<1>5. LossesAreKnown' /\ OnlyDatesAreRejected' /\ VerifierErrsOnZerosAndDates'
  BY <1>1 DEF LossesAreKnown, OnlyDatesAreRejected, VerifierErrsOnZerosAndDates
<1>6. QED
  BY <1>2, <1>3, <1>4, <1>5 DEF ValuesInv

\* Emitting the PLI keeps the invariant: a buyer PO, which has no field of its own,
\* becomes the io_number, and only what is lost leaves its field.
LEMMA EmitKeepsInv ==
  ASSUME ValuesInv, Emit
  PROVE  ValuesInv'
<1> USE DEF ValuesInv
<1>1. /\ pc = "reading" /\ pc' \in {"built", "rejected"}
      /\ UNCHANGED <<sheet, read, channel, cells, conf, flagged>>
  BY DEF Emit
<1>2. PICK hasStages \in BOOLEAN : fields' = [n \in Names |-> FieldOfPli(n, hasStages)]
  BY DEF Emit
<1>3. /\ \A n \in Names : n \notin Overwritten \cup DateFields \cup {"io_number"} => fields'[n] = fields[n]
      /\ \A n \in Names \cap DateFields : fields'[n] = IF fields[n] \in Blanks THEN None ELSE fields[n]
      /\ \A n \in Overwritten : fields'[n] \in {Own, None}
      /\ fields'["io_number"] = IF Promotes THEN meta["buyer_po_no"] ELSE fields["io_number"]
  <2>1. \A n \in Names : fields'[n] = FieldOfPli(n, hasStages)
    BY <1>2
  <2>2. QED
    BY <2>1, NamedFields DEF FieldOfPli
<1>4. /\ meta' \in [Names -> Values \cup {None}]
      /\ \A n \in Names : n # "buyer_po_no" => meta'[n] = meta[n]
      /\ meta'["buyer_po_no"] = IF Promotes THEN None ELSE meta["buyer_po_no"]
  BY NamedFields DEF Emit, TypeOK
<1>5. \A n \in Names : n \notin Overwritten => fields'[n] \in Values \cup {None}
  <2>1. \A n \in Names : n \notin Overwritten => fields[n] \in Values \cup {None}
    BY DEF FieldsFit, TypeOK
  <2>2. meta["buyer_po_no"] \in Values \cup {None}
    BY NamedFields DEF TypeOK
  <2>3. QED
    BY <1>3, <2>1, <2>2, NamedFields
<1>6. TypeOK'
  <2>1. fields' \in [Names -> Values \cup {Own, None}]
    BY <1>2, <1>3, <1>5
  <2>2. QED
    BY <1>1, <1>4, <2>1 DEF TypeOK
<1>7. HeldUnderName' /\ OnlyFilledCells'
  BY <1>1 DEF HeldUnderName, OnlyFilledCells
<1>8. FieldsFit'
  <2> SUFFICES ASSUME NEW n \in Names, fields'[n] # None
               PROVE  /\ n \in PliFields
                      /\ n \in IntFields => fields'[n] \in Integers
                      /\ fields'[n] = Own => n \in Overwritten
    BY DEF FieldsFit
  <2>1. CASE n \in Overwritten \cup DateFields \cup {"io_number"}
    BY <1>5, <2>1, NamedFields, ValuesAssumption DEF PliFields
  <2>2. CASE n \notin Overwritten \cup DateFields \cup {"io_number"}
    BY <1>3, <2>2 DEF FieldsFit
  <2>3. QED
    BY <2>1, <2>2
<1>9. MetaFits'
  <2> SUFFICES ASSUME NEW n \in Names, meta'[n] # None
               PROVE  /\ meta'[n] \in Values /\ ~TakenAsField(n, meta'[n])
                      /\ cells[n] # None /\ fields'[n] = None => meta'[n] = sheet[cells[n]]
    BY <1>1 DEF MetaFits
  <2>1. meta'[n] = meta[n]
    BY <1>4
  <2>2. meta[n] \in Values /\ ~TakenAsField(n, meta[n])
    BY <2>1 DEF MetaFits
  <2>3. n \notin Overwritten \cup DateFields
    BY <2>2, NamedFields DEF TakenAsField, Coerces, PliFields
  <2>4. fields'[n] = None => fields[n] = None
    BY <1>3, <2>3 DEF Promotes
  <2>5. QED
    BY <2>1, <2>2, <2>4 DEF MetaFits
<1>10. LossesAreKnown'
  <2> SUFFICES ASSUME NEW n \in Names, cells[n] # None, NEW v \in Values, v = sheet[cells[n]]
               PROVE  (HoldsValue(n, v))' <=> ~Loses(n, v)
    BY <1>1 DEF LossesAreKnown, OnlyFilledCells
  <2>1. IF TakenAsField(n, v) THEN fields[n] = Coerced(n, v) ELSE meta[n] = v
    BY <1>1 DEF HeldUnderName
  <2>2. None \notin Values /\ Own \notin Values /\ None # Own
    BY ValuesAssumption
  <2>3. SameValue(v) \subseteq Values /\ v \in SameValue(v)
    BY ValuesAssumption DEF SameValue, Values, Rounded
  <2>4. ASSUME Loses(n, v) PROVE ~(HoldsValue(n, v))'
    <3>1. /\ n # "buyer_po_no" /\ n # "io_number" /\ TakenAsField(n, v)
          /\ n \notin Overwritten => SameValue(v) = {v}
          /\ n \notin IntFields => \A w \in Values : TakenAsField(n, w)
      BY <2>4, LostValues
    <3>2. meta'[n] \notin SameValue(v)
      <4>1. meta'[n] = meta[n] /\ (meta[n] # None => meta[n] \in Values /\ ~TakenAsField(n, meta[n]))
        BY <1>4, <3>1 DEF MetaFits
      <4>2. n \in Overwritten => n \notin IntFields
        BY NamedFields
      <4>3. QED
        BY <2>2, <2>3, <3>1, <4>1, <4>2
    <3>3. fields'[n] \notin SameValue(v)
      <4>1. CASE n \in Overwritten
        BY <1>3, <2>2, <2>3, <4>1
      <4>2. CASE n \in IntFields /\ v \in Fractions
        <5>1. fields'[n] = Coerced(n, v)
          BY <1>3, <2>1, <3>1, <4>2, NamedFields
        <5>2. Coerced(n, v) \in Integers /\ v \notin Integers
          BY <3>1, <4>2, CoercedType, ValuesAssumption DEF Rounded
        <5>3. n \notin Overwritten
          BY <4>2, NamedFields
        <5>4. QED
          BY <3>1, <5>1, <5>2, <5>3
      <4>3. CASE n \in DateFields /\ v \in Blanks
        <5>1. Coerced(n, v) = v
          BY <4>3, NamedFields DEF Coerced, Truncates
        <5>2. fields'[n] = None
          BY <1>3, <2>1, <3>1, <4>3, <5>1
        <5>3. QED
          BY <2>2, <2>3, <5>2
      <4>4. QED
        BY <2>4, <4>1, <4>2, <4>3 DEF Loses
    <3>4. QED
      BY <3>1, <3>2, <3>3 DEF HoldsValue, SameValue
  <2>5. ASSUME ~Loses(n, v) PROVE (HoldsValue(n, v))'
    <3>1. n \notin Overwritten
      BY <2>5 DEF Loses
    <3>2. CASE TakenAsField(n, v)
      <4>1. fields[n] = Coerced(n, v) /\ Coerced(n, v) \in SameValue(v) /\ fields[n] # None
        BY <2>1, <2>5, <3>1, <3>2, CoercedType
      <4>2. n \in DateFields => fields[n] \notin Blanks
        BY <2>5, <4>1, NamedFields DEF Coerced, Truncates, Loses
      <4>3. fields'[n] = fields[n]
        BY <1>3, <3>1, <4>1, <4>2 DEF Promotes
      <4>4. QED
        BY <4>1, <4>3 DEF HoldsValue, SameValue
    <3>3. CASE ~TakenAsField(n, v)
      <4>1. meta[n] = v
        BY <2>1, <3>3
      <4>2. meta'[n] = v \/ (n = "buyer_po_no" /\ fields'["io_number"] = v)
        BY <1>3, <1>4, <4>1
      <4>3. QED
        BY <2>3, <4>2 DEF HoldsValue, SameValue
    <3>4. QED
      BY <3>2, <3>3
  <2>6. QED
    BY <2>4, <2>5
<1>11. ConfidenceFollowsAddress'
  BY <1>1 DEF ConfidenceFollowsAddress
<1>12. OnlyDatesAreRejected'
  <2> SUFFICES ASSUME pc' = "rejected"
               PROVE  \E n \in DateFields : fields'[n] \in Values \ (Dates \cup Zeros \cup Blanks)
    BY DEF OnlyDatesAreRejected
  <2>1. PICK n \in Names : fields'[n] # None /\ ~Valid(n, fields'[n])
    BY DEF Emit
  <2>2. n \in IntFields => fields'[n] \in Integers
    BY <1>8, <2>1 DEF FieldsFit
  <2>3. n \in DateFields /\ fields'[n] \notin Dates \cup Zeros
    BY <2>1, <2>2 DEF Valid
  <2>4. fields'[n] \in Values /\ fields'[n] \notin Blanks
    BY <1>3, <1>5, <2>1, <2>3, NamedFields
  <2>5. QED
    BY <2>3, <2>4
<1>13. VerifierErrsOnZerosAndDates'
  BY <1>1 DEF VerifierErrsOnZerosAndDates
<1>14. QED
  BY <1>6, <1>7, <1>8, <1>9, <1>10, <1>11, <1>12, <1>13

\* Verifying changes no value; it compares the field unless that is 0 or missing,
\* and then metadata, which is the value at the address if there is no field.
LEMMA VerifyKeepsInv ==
  ASSUME ValuesInv, Verify
  PROVE  ValuesInv'
<1>1. /\ pc = "built" /\ pc' = "verified" /\ flagged' = {n \in Names : Differs(n)}
      /\ UNCHANGED <<sheet, read, channel, fields, meta, cells, conf>>
  BY DEF Verify
<1>2. TypeOK'
  BY <1>1 DEF ValuesInv, TypeOK
<1>3. HeldUnderName' /\ OnlyFilledCells' /\ FieldsFit' /\ MetaFits'
  BY <1>1 DEF ValuesInv, HeldUnderName, OnlyFilledCells, FieldsFit, MetaFits
<1>4. ConfidenceFollowsAddress' /\ OnlyDatesAreRejected'
  BY <1>1 DEF ValuesInv, ConfidenceFollowsAddress, OnlyDatesAreRejected
<1>5. LossesAreKnown'
  BY <1>1 DEF ValuesInv, LossesAreKnown, HoldsValue, SameValue
<1>6. VerifierErrsOnZerosAndDates'
  <2> SUFFICES ASSUME NEW n \in Names
               PROVE  /\ Drifts(n) /\ ~Differs(n) => n \in IntFields /\ fields[n] \in Zeros
                      /\ Differs(n) /\ ~Drifts(n) => n \in DateFields \/ fields[n] \in Zeros
    BY <1>1 DEF VerifierErrsOnZerosAndDates, Drifts
  <2>1. CASE FieldCounts(n)
    BY <2>1 DEF Drifts, Differs, Extracted, Restated, FieldCounts
  <2>2. CASE ~FieldCounts(n) /\ fields[n] # None
    BY <2>2 DEF FieldCounts
  <2>3. CASE fields[n] = None
    BY <2>3 DEF Drifts, Differs, Extracted, Restated, FieldCounts, ValuesInv, MetaFits
  <2>4. QED
    BY <2>1, <2>2, <2>3
<1>7. QED
  BY <1>2, <1>3, <1>4, <1>5, <1>6 DEF ValuesInv

LEMMA ValuesStep == ValuesInv /\ [Next]_vars => ValuesInv'
<1> SUFFICES ASSUME ValuesInv, [Next]_vars PROVE ValuesInv'
  OBVIOUS
<1>1. CASE SkipLabel
  BY <1>1, OtherLabelsKeepInv
<1>2. ASSUME NEW n \in Targets \cap Names, NEW c \in Cells, ReadField(n, c)
      PROVE  ValuesInv'
  BY <1>2, ReadFieldKeepsInv
<1>3. ASSUME NEW n \in Targets \cap Names, NEW c \in Cells, ReadMetadata(n, c)
      PROVE  ValuesInv'
  BY <1>3, ReadMetadataKeepsInv
<1>4. ASSUME NEW n \in Containers, NEW c \in Cells, ReadContainer(n, c)
      PROVE  ValuesInv'
  BY <1>4, OtherLabelsKeepInv
<1>5. CASE Emit
  BY <1>5, EmitKeepsInv
<1>6. CASE Verify
  BY <1>6, VerifyKeepsInv
<1>7. CASE UNCHANGED vars
  BY <1>7
     DEF vars, ValuesInv, TypeOK, HeldUnderName, OnlyFilledCells, FieldsFit, MetaFits,
         LossesAreKnown, HoldsValue, ConfidenceFollowsAddress, OnlyDatesAreRejected,
         VerifierErrsOnZerosAndDates, Drifts
<1>8. QED
  BY <1>1, <1>2, <1>3, <1>4, <1>5, <1>6, <1>7 DEF Next, ReadLabel

LEMMA ValuesInvariant == Spec => []ValuesInv
BY ValuesInit, ValuesStep, PTL DEF Spec

-----------------------------------------------------------------------------
\* The variables have their types.
THEOREM ValuesTypes == Spec => []TypeOK
<1>1. ValuesInv => TypeOK
  BY DEF ValuesInv
<1>2. QED
  BY <1>1, ValuesInvariant, PTL

\* The value at a recorded address is missing from the PLI in the three known cases
\* and in no other, whatever names labels share and whatever is coerced or promoted.
THEOREM OnlyKnownLosses == Spec => []LossesAreKnown
<1>1. ValuesInv => LossesAreKnown
  BY DEF ValuesInv
<1>2. QED
  BY <1>1, ValuesInvariant, PTL

\* Confidences belong to the read the recorded address belongs to.
THEOREM ConfidenceOfLastRead == Spec => []ConfidenceFollowsAddress
<1>1. ValuesInv => ConfidenceFollowsAddress
  BY DEF ValuesInv
<1>2. QED
  BY <1>1, ValuesInvariant, PTL

\* Coercion leaves PLI validation nothing to reject but a delivery date that is no date.
THEOREM CoercionProtectsValidation == Spec => []OnlyDatesAreRejected
<1>1. ValuesInv => OnlyDatesAreRejected
  BY DEF ValuesInv
<1>2. QED
  BY <1>1, ValuesInvariant, PTL

\* The verifier reports the fields whose address holds another value and no others,
\* zeros and dates aside.
THEOREM VerifierErrors == Spec => []VerifierErrsOnZerosAndDates
<1>1. ValuesInv => VerifierErrsOnZerosAndDates
  BY DEF ValuesInv
<1>2. QED
  BY <1>1, ValuesInvariant, PTL
=============================================================================
