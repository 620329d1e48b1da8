--------------------------- MODULE PollRecordProofs ---------------------------
(***************************************************************************)
(* What a poll leaves on record, for any configurations and answers: the   *)
(* constructors throw no poll away but for the clock, a bad tag does not   *)
(* take its neighbours with it, the execution row and the reading rows say *)
(* the same, and no override of the environment is without effect.         *)
(***************************************************************************)
EXTENDS ReadingPathProofs, FiniteSetTheorems

-----------------------------------------------------------------------------
(* Lists.  Induction over the naturals comes from FiniteSetTheorems: the   *)
(* strict subsets of a finite set are well founded.                        *)

(* A set of naturals has a least element: the least interval from 0 to one *)
(* of its elements.                                                        *)
LEMMA LeastNatural ==
    ASSUME NEW T \in SUBSET Nat, T # {}
    PROVE  \E x \in T : \A y \in T : x <= y
<1>1. PICK top \in T : TRUE
  OBVIOUS
<1> DEFINE U == 0 .. top
           C == {0 .. x : x \in {y \in T : y <= top}}
<1>2. C \subseteq FiniteSubsetsOf(U) /\ 0 .. top \in C
  <2>1. \A x \in Nat : x <= top => IsFiniteSet(0 .. x) /\ 0 .. x \subseteq U
    BY FS_Interval
  <2> QED
    BY <2>1 DEF FiniteSubsetsOf
<1>3. PICK A \in C : \A B \in C : ~(<<B, A>> \in StrictSubsetOrdering(U))
  <2>1. IsWellFoundedOn(StrictSubsetOrdering(U), FiniteSubsetsOf(U))
    BY FS_StrictSubsetOrderingWellFounded
  <2> HIDE DEF C, U
  <2> QED
    BY <1>2, <2>1, WFMin
<1>4. PICK x \in T : x <= top /\ A = 0 .. x
  BY <1>3
<1>5. ASSUME NEW y \in T, y < x PROVE FALSE
  <2>1. 0 .. y \in C /\ 0 .. y \subseteq 0 .. x /\ 0 .. y # 0 .. x /\ 0 .. x \subseteq U
    BY <1>4, <1>5
  <2> QED
    BY <1>3, <1>4, <2>1 DEF StrictSubsetOrdering
<1> QED
  BY <1>4, <1>5

LEMMA NaturalInduction ==
    ASSUME NEW P \in SUBSET Nat, 0 \in P, \A n \in P : n + 1 \in P
    PROVE  P = Nat
<1> SUFFICES ASSUME Nat \ P # {} PROVE FALSE
  OBVIOUS
<1>1. PICK x \in Nat \ P : \A y \in Nat \ P : x <= y
  BY LeastNatural
<1>2. x # 0 /\ x - 1 \in Nat /\ x - 1 \in P
  BY <1>1
<1>3. x - 1 + 1 = x
  BY <1>1
<1> QED
  BY <1>1, <1>2, <1>3

LEMMA SelectedIsSeq ==
    ASSUME NEW R, NEW T, NEW s \in Seq(R), NEW S,
           \A i \in S \cap DOMAIN s : s[i] \in T
    PROVE  /\ Selected(s, S) \in Seq(T)
           /\ Selected(s, S) = <<>> <=> S \cap DOMAIN s = {}
<1> DEFINE Body(f, n) == [k \in 0 .. n |->
                             IF k = 0 THEN <<>>
                             ELSE IF k \in S THEN Append(f[k - 1], s[k]) ELSE f[k - 1]]
           Upto(f, n) == f = Body(f, n)
           P == {n \in Nat : \E f : Upto(f, n)}
<1>1. P = Nat
  <2>1. 0 \in P
    <3>1. Upto([k \in 0 .. 0 |-> <<>>], 0)
      OBVIOUS
    <3> QED
      BY <3>1
  <2>2. ASSUME NEW n \in P PROVE n + 1 \in P
    <3>1. PICK f : Upto(f, n)
      OBVIOUS
    <3> DEFINE next == IF n + 1 \in S THEN Append(f[n], s[n + 1]) ELSE f[n]
               g == [k \in 0 .. (n + 1) |-> IF k = n + 1 THEN next ELSE f[k]]
    <3>2. g[0] = <<>>
      BY <3>1
    <3>3. ASSUME NEW k \in 1 .. (n + 1)
          PROVE  g[k] = IF k \in S THEN Append(g[k - 1], s[k]) ELSE g[k - 1]
      <4>1. CASE k = n + 1
        BY <4>1
      <4>2. CASE k # n + 1
        <5>1. g[k] = f[k] /\ g[k - 1] = f[k - 1] /\ k \in 0 .. n /\ k # 0
          BY <4>2
        <5>2. f[k] = IF k \in S THEN Append(f[k - 1], s[k]) ELSE f[k - 1]
          BY <3>1, <5>1
        <5> QED
          BY <5>1, <5>2
      <4> QED
        BY <4>1, <4>2
    <3>4. Upto(g, n + 1)
      <4>1. g = [k \in 0 .. (n + 1) |-> g[k]]
        OBVIOUS
      <4>2. \A k \in 0 .. (n + 1) : k = 0 \/ k \in 1 .. (n + 1)
        OBVIOUS
      <4> HIDE DEF g
      <4> QED
        BY <3>2, <3>3, <4>1, <4>2
    <3> QED
      BY <3>4
  <2> HIDE DEF P
  <2>3. P \in SUBSET Nat
    BY DEF P
  <2> QED
    BY <2>1, <2>2, <2>3, NaturalInduction
<1> DEFINE upto == CHOOSE f : Upto(f, Len(s))
<1>2. Upto(upto, Len(s)) /\ Selected(s, S) = upto[Len(s)]
  <2>1. Len(s) \in Nat
    OBVIOUS
  <2>2. \E f : Upto(f, Len(s))
    <3> HIDE DEF Upto
    <3> QED
      BY <1>1, <2>1
  <2>3. Selected(s, S) = upto[Len(s)]
    BY DEF Selected
  <2> QED
    BY <2>2, <2>3
<1> HIDE DEF upto
<1>3. /\ upto[0] = <<>>
      /\ \A k \in 1 .. Len(s) :
            upto[k] = IF k \in S THEN Append(upto[k - 1], s[k]) ELSE upto[k - 1]
  <2>1. Len(s) \in Nat
    OBVIOUS
  <2>2. upto = Body(upto, Len(s))
    BY <1>2
  <2>3. 0 \in 0 .. Len(s) /\ \A k \in 1 .. Len(s) : k \in 0 .. Len(s) /\ k # 0
    BY <2>1
  <2> QED
    BY <2>2, <2>3
<1> DEFINE Good(n) == n <= Len(s) =>
                /\ upto[n] \in Seq(T)
                /\ upto[n] = <<>> <=> S \cap (1 .. n) = {}
           Q == {n \in Nat : Good(n)}
<1>4. Q = Nat
  <2>1. 0 \in Q
    <3>1. <<>> \in Seq(T) /\ 1 .. 0 = {}
      OBVIOUS
    <3> QED
      BY <1>3, <3>1
  <2>2. ASSUME NEW n \in Q PROVE n + 1 \in Q
    <3> SUFFICES ASSUME n + 1 <= Len(s) PROVE Good(n + 1)
      OBVIOUS
    <3>1. /\ n \in Nat /\ upto[n] \in Seq(T) /\ n + 1 \in DOMAIN s
          /\ n + 1 \in S => s[n + 1] \in T
          /\ upto[n] = <<>> <=> S \cap (1 .. n) = {}
      OBVIOUS
    <3>2. upto[n + 1] = IF n + 1 \in S THEN Append(upto[n], s[n + 1]) ELSE upto[n]
      BY <1>3, <3>1
    <3>3. 1 .. (n + 1) = (1 .. n) \cup {n + 1}
      BY <3>1
    <3>4. n + 1 \in S =>
             Append(upto[n], s[n + 1]) # <<>> /\ Append(upto[n], s[n + 1]) \in Seq(T)
      BY <3>1
    <3> QED
      BY <3>1, <3>2, <3>3, <3>4
  <2> HIDE DEF Q
  <2>3. Q \in SUBSET Nat
    BY DEF Q
  <2> QED
    BY <2>1, <2>2, <2>3, NaturalInduction
<1> QED
  <2>1. Len(s) \in Q /\ DOMAIN s = 1 .. Len(s)
    BY <1>4
  <2> QED
    BY <1>2, <2>1
-----------------------------------------------------------------------------
(* The results of a read.                                                  *)

LEMMA FailureIsResult ==
    ASSUME NEW tag \in Ids, NEW error \in Errors, NEW received \in Times,
           NEW sourced \in Times \cup {None}
    PROVE  /\ Failure(tag, error, received, sourced) \in TagResults
           /\ Failure(tag, error, received, sourced) # Raised
           /\ ~IsSuccess(Failure(tag, error, received, sourced))
<1>1. error # None
  BY RaisedIsNoResult
<1>2. Failure(tag, error, received, sourced) =
          [tag_id |-> tag, quality |-> "bad", received_at |-> received,
           source_timestamp |-> sourced, value |-> None, error |-> error]
  BY <1>1 DEF Failure, TagResult
<1>3. Failure(tag, error, received, sourced) \in TagResults
  BY <1>2 DEF TagResults, Qualities
<1> QED
  BY <1>2, <1>3, RaisedIsNoResult DEF IsSuccess

(* The classes accepted for a type are those TagValue accepts. *)
LEMMA VariantIsValue ==
    ASSUME NEW t \in ValueTypes, NEW raw \in Values
    PROVE  /\ raw[1] \notin VariantClass[t] => TagValueFromVariant(t, raw) = Raised
           /\ raw[1] \in VariantClass[t] =>
                 /\ TagValueFromVariant(t, raw) \in TagValues
                 /\ TagValueFromVariant(t, raw) # Raised
                 /\ TagValueFromVariant(t, raw) # None
<1>1. raw[1] \notin VariantClass[t] => TagValueFromVariant(t, raw) = Raised
  BY DEF TagValueFromVariant
<1>2. ASSUME raw[1] \in VariantClass[t]
      PROVE  TagValueFromVariant(t, raw) \in TagValues
  <2> DEFINE kept == IF t = "binary" THEN <<"bytes", raw[2]>> ELSE raw
             column == [c \in ValueTypes |-> IF c = t THEN kept ELSE None]
  <2>1. PICK class \in Classes, n \in Int : raw = <<class, n>>
    BY DEF Values
  <2>2. kept \in Values /\ kept # None /\ kept[1] \in PayloadClass[t]
    <3>1. CASE t = "binary"
      BY <2>1, <3>1, PairIsValue DEF Classes, PayloadClass
    <3>2. CASE t # "binary"
      <4>1. VariantClass[t] = PayloadClass[t]
        BY <3>2 DEF VariantClass, PayloadClass, ValueTypes
      <4> QED
        BY <1>2, <3>2, <4>1, NoneIsNoValue
    <3> QED
      BY <3>1, <3>2
  <2>3. TagValueFromVariant(t, raw) = TagValue(t, column)
    BY <1>2 DEF TagValueFromVariant, ValueOf
  <2> HIDE DEF kept
  <2>4. TagValue(t, column) =
            [value_type |-> t, column |-> [column EXCEPT ![t] = Normalised(t, @)]]
    BY <2>2 DEF TagValue
  <2>5. Normalised(t, kept) \in Values
    <3>1. PICK kind \in Classes, m \in Int : kept = <<kind, m>>
      BY <2>2 DEF Values
    <3>2. Normalised(t, kept) = <<"float", m>> \/ Normalised(t, kept) = kept
      BY <3>1 DEF Normalised, Float
    <3> QED
      BY <2>2, <3>2, PairIsValue DEF Classes
  <2>6. [column EXCEPT ![t] = Normalised(t, @)] \in [ValueTypes -> Values \cup {None}]
    BY <2>2, <2>5
  <2> QED
    BY <2>3, <2>4, <2>6 DEF TagValues
<1> QED
  BY <1>1, <1>2, NoneIsNoValue, RaisedIsNoResult

(* What becomes of one answer: a reading if the answer delivers a value,   *)
(* and otherwise a failure; only the reserved severity raises.             *)
LEMMA ReadTagDelivers ==
    ASSUME NEW tag \in TagModels, NEW a, IsAnswer(a), NEW received \in Times
    PROVE  LET r == ReadTag(tag.id, tag.value_type, a, received)
           IN  /\ r = Raised => a.exception = None /\ a.status = "reserved"
               /\ r # Raised => r \in TagResults
               /\ Delivers(tag, a) => IsSuccess(r) /\ r.quality = a.status
               /\ r # Raised /\ IsSuccess(r) => Delivers(tag, a)
<1> DEFINE t == tag.value_type
           r == ReadTag(tag.id, t, a, received)
           v == TagValueFromVariant(t, a.variant)
           at == IF a.source = None THEN received ELSE a.source
<1>1. tag.id \in Ids /\ t \in ValueTypes
  BY DEF TagModels, ValueTypes
<1>2. CASE a.exception # None
  <2>1. a.exception \in Errors /\ None \in Times \cup {None}
    BY <1>2, FaultsAreErrors DEF IsAnswer
  <2>2. r = Failure(tag.id, a.exception, received, None)
    BY <1>2 DEF ReadTag
  <2> HIDE DEF r
  <2>3. r \in TagResults /\ r # Raised /\ ~IsSuccess(r)
    BY <1>1, <2>1, <2>2, FailureIsResult
  <2> QED
    BY <1>2, <2>3 DEF Delivers, r
<1>3. CASE a.exception = None
  <2>1. /\ a.status \in {"good", "uncertain", "bad", "reserved"}
        /\ a.variant \in Values \cup {NoVariant}
        /\ a.source \in Times \cup {None} /\ at \in Times \cup {None}
    BY <1>3, FaultsAreErrors DEF IsAnswer
  <2>2. r = TagResultFromDataValue(tag.id, t, a, received)
    BY <1>3 DEF ReadTag
  <2>3. ASSUME NEW error \in Errors, r = Failure(tag.id, error, received, a.source)
        PROVE  r \in TagResults /\ r # Raised /\ ~IsSuccess(r)
    BY <1>1, <2>1, <2>3, FailureIsResult
  <2>4. CASE a.status = "bad"
    <3>1. r = Failure(tag.id, "opcua_bad_status", received, a.source)
      BY <2>2, <2>4 DEF TagResultFromDataValue
    <3>2. r \in TagResults /\ r # Raised /\ ~IsSuccess(r)
      BY <2>3, <3>1 DEF Errors
    <3> QED
      BY <2>4, <3>2 DEF Delivers
  <2>5. CASE a.status # "bad" /\ a.variant = NoVariant
    <3>1. r = Failure(tag.id, "opcua_empty_value", received, a.source)
      BY <2>2, <2>5 DEF TagResultFromDataValue
    <3>2. r \in TagResults /\ r # Raised /\ ~IsSuccess(r)
      BY <2>3, <3>1 DEF Errors
    <3> QED
      BY <2>5, <3>2 DEF Delivers
  <2>6. CASE a.status # "bad" /\ a.variant # NoVariant
    <3>1. CASE a.variant[1] \notin VariantClass[t]
      <4>1. v = Raised
        BY <1>1, <2>1, <2>6, <3>1, VariantIsValue
      <4>2. r = Failure(tag.id, "opcua_value_type_mismatch", received, a.source)
        BY <2>2, <2>6, <4>1 DEF TagResultFromDataValue, ValueMismatch
      <4>3. r \in TagResults /\ r # Raised /\ ~IsSuccess(r)
        BY <2>3, <4>2 DEF Errors
      <4> QED
        BY <3>1, <4>3 DEF Delivers
    <3>2. CASE a.variant[1] \in VariantClass[t]
      <4>1. v \in TagValues /\ v # Raised /\ v # None
        BY <1>1, <2>1, <2>6, <3>2, VariantIsValue
      <4>2. r = TagResult(tag.id, QualityOf(a.status), received, at, v, None)
        BY <2>2, <2>6, <4>1 DEF TagResultFromDataValue, Success
      <4> HIDE DEF v, at, r
      <4>3. CASE a.status = "reserved"
        BY <1>3, <4>1, <4>2, <4>3 DEF QualityOf, TagResult, Delivers, r
      <4>4. CASE a.status # "reserved"
        <5>1. a.status \in {"good", "uncertain"} /\ QualityOf(a.status) = a.status
          BY <2>1, <2>6, <4>4 DEF QualityOf
        <5>2. r = [tag_id |-> tag.id, quality |-> a.status, received_at |-> received,
                   source_timestamp |-> at, value |-> v, error |-> None]
          BY <4>1, <4>2, <5>1 DEF TagResult
        <5>3. r \in TagResults
          BY <1>1, <2>1, <4>1, <5>1, <5>2 DEF TagResults, Qualities
        <5>4. r # Raised /\ IsSuccess(r) /\ r.quality = a.status
          BY <4>1, <5>2, <5>3, RaisedIsNoResult DEF IsSuccess
        <5>5. Delivers(tag, a)
          BY <1>3, <2>6, <3>2, <5>1 DEF Delivers
        <5> QED
          BY <5>3, <5>4, <5>5 DEF r
      <4> QED
        BY <4>3, <4>4
    <3> QED
      BY <3>1, <3>2
  <2> QED
    BY <2>4, <2>5, <2>6
<1> QED
  BY <1>2, <1>3

LEMMA FailedBatchIsTyped ==
    ASSUME NEW requests \in Seq(TagModels), NEW error \in Errors, NEW received \in Times
    PROVE  LET batch == FailedBatch(requests, error, received)
           IN  /\ batch \in Seq(TagResults) /\ DOMAIN batch = DOMAIN requests
               /\ \A i \in DOMAIN batch : ~IsSuccess(batch[i])
<1> DEFINE F(i) == Failure(requests[i].id, error, received, None)
           all == [i \in DOMAIN requests |-> F(i)]
<1>1. \A i \in DOMAIN requests : requests[i].id \in Ids
  <2>1. \A i \in DOMAIN requests : requests[i] \in TagModels
    BY ElementOfSeq
  <2> QED
    BY <2>1 DEF TagModels
<1>2. \A i \in DOMAIN requests : F(i) \in TagResults /\ F(i) # Raised /\ ~IsSuccess(F(i))
  BY <1>1, FailureIsResult
<1>3. FailedBatch(requests, error, received) = Gathered(all)
  BY DEF FailedBatch
<1> HIDE DEF F
<1>4. all \in Seq(TagResults) /\ Gathered(all) = all
  BY <1>2 DEF Gathered
<1> QED
  BY <1>2, <1>3, <1>4

(* A batch that is answered: the reserved severity makes all of it fail,   *)
(* otherwise each tag has what its own answer gives it.                    *)
Reserved(answers) ==
    \E i \in DOMAIN answers : answers[i].exception = None /\ answers[i].status = "reserved"

LEMMA ReadBatchIsTyped ==
    ASSUME NEW requests \in Seq(TagModels), NEW received \in Times,
           NEW answers \in [DOMAIN requests -> Answers]
    PROVE  LET batch == ReadBatch(requests, answers, received)
           IN  /\ batch = Raised => Reserved(answers)
               /\ batch # Raised =>
                     /\ batch \in Seq(TagResults) /\ DOMAIN batch = DOMAIN requests
                     /\ \A i \in DOMAIN requests :
                           /\ Delivers(requests[i], answers[i]) =>
                                 /\ IsSuccess(batch[i])
                                 /\ batch[i].quality = answers[i].status
                           /\ IsSuccess(batch[i]) => Delivers(requests[i], answers[i])
<1> DEFINE F(i) == ReadTag(requests[i].id, requests[i].value_type, answers[i], received)
           all == [i \in DOMAIN requests |-> F(i)]
<1>1. \A i \in DOMAIN requests :
          /\ F(i) = Raised => answers[i].exception = None /\ answers[i].status = "reserved"
          /\ F(i) # Raised => F(i) \in TagResults
          /\ Delivers(requests[i], answers[i]) =>
                IsSuccess(F(i)) /\ F(i).quality = answers[i].status
          /\ F(i) # Raised /\ IsSuccess(F(i)) => Delivers(requests[i], answers[i])
  <2> SUFFICES ASSUME NEW i \in DOMAIN requests
               PROVE  /\ F(i) = Raised =>
                            answers[i].exception = None /\ answers[i].status = "reserved"
                      /\ F(i) # Raised => F(i) \in TagResults
                      /\ Delivers(requests[i], answers[i]) =>
                            IsSuccess(F(i)) /\ F(i).quality = answers[i].status
                      /\ F(i) # Raised /\ IsSuccess(F(i)) =>
                            Delivers(requests[i], answers[i])
    OBVIOUS
  <2>1. requests[i] \in TagModels /\ IsAnswer(answers[i])
    BY ElementOfSeq, InputsAreWellFormed
  <2> QED
    BY <2>1, ReadTagDelivers
<1>2. ReadBatch(requests, answers, received) = Gathered(all)
  BY DEF ReadBatch
<1> HIDE DEF F
<1>3. CASE \E i \in DOMAIN requests : F(i) = Raised
  <2>1. Gathered(all) = Raised
    BY <1>3 DEF Gathered
  <2> QED
    BY <1>1, <1>2, <1>3, <2>1 DEF Reserved
<1>4. CASE \A i \in DOMAIN requests : F(i) # Raised
  <2>1. all \in Seq(TagResults) /\ Gathered(all) = all
    BY <1>1, <1>4 DEF Gathered
  <2>2. all # Raised
    BY <2>1, RaisedIsNoResult
  <2> QED
    BY <1>1, <1>2, <1>4, <2>1, <2>2
<1> QED
  BY <1>3, <1>4

LEMMA ResultsAreTyped ==
    ASSUME NEW requests \in Seq(TagModels), NEW received \in Times,
           NEW answers \in [DOMAIN requests -> Answers] \cup {None}
    PROVE  LET results == Results(requests, answers, received)
           IN  results \in Seq(TagResults) /\ DOMAIN results = DOMAIN requests
<1>1. "opcua_not_connected" \in Errors /\ "ConfigurationError" \in Errors
  BY DEF Errors
<1>2. CASE answers = None
  BY <1>1, <1>2, FailedBatchIsTyped DEF Results
<1>3. CASE answers # None
  <2> DEFINE read == ReadBatch(requests, answers, received)
  <2>1. read # Raised => read \in Seq(TagResults) /\ DOMAIN read = DOMAIN requests
    BY <1>3, ReadBatchIsTyped
  <2>2. Results(requests, answers, received) =
            IF read = Raised THEN FailedBatch(requests, "ConfigurationError", received)
            ELSE read
    BY <1>3 DEF Results
  <2> HIDE DEF read
  <2> QED
    BY <1>1, <2>1, <2>2, FailedBatchIsTyped
<1> QED
  BY <1>2, <1>3

LEMMA DeliveredSurvives ==
    ASSUME NEW requests \in Seq(TagModels), NEW received \in Times,
           NEW answers \in [DOMAIN requests -> Answers] \cup {None}, answers # None,
           NEW i \in DOMAIN requests
    PROVE  LET results == Results(requests, answers, received)
           IN  /\ Delivers(requests[i], answers[i]) /\ ~Reserved(answers) =>
                     IsSuccess(results[i]) /\ results[i].quality = answers[i].status
               /\ IsSuccess(results[i]) => Delivers(requests[i], answers[i])
<1> DEFINE read == ReadBatch(requests, answers, received)
           failed == FailedBatch(requests, "ConfigurationError", received)
<1>1. answers \in [DOMAIN requests -> Answers]
  OBVIOUS
<1>2. /\ read = Raised => Reserved(answers)
      /\ read # Raised =>
            /\ Delivers(requests[i], answers[i]) =>
                  IsSuccess(read[i]) /\ read[i].quality = answers[i].status
            /\ IsSuccess(read[i]) => Delivers(requests[i], answers[i])
  BY <1>1, ReadBatchIsTyped
<1>3. "ConfigurationError" \in Errors
  BY DEF Errors
<1>4. ~IsSuccess(failed[i])
  BY <1>3, FailedBatchIsTyped
<1>5. Results(requests, answers, received) = IF read = Raised THEN failed ELSE read
  BY DEF Results
<1> HIDE DEF read, failed
<1> QED
  BY <1>2, <1>4, <1>5

-----------------------------------------------------------------------------
(* The poll result.                                                        *)

LEMMA CountsAddUp ==
    ASSUME NEW results \in Seq(TagResults)
    PROVE  /\ IsFiniteSet(DOMAIN results) /\ Cardinality(DOMAIN results) = Len(results)
           /\ Cardinality(Succeeded(results)) \in Nat
           /\ Cardinality(FailedOf(results)) \in Nat
           /\ Cardinality(Succeeded(results)) = Len(results) - Cardinality(FailedOf(results))
<1>1. IsFiniteSet(DOMAIN results) /\ Cardinality(DOMAIN results) = Len(results)
  <2>1. Len(results) \in Nat /\ DOMAIN results = 1 .. Len(results)
    OBVIOUS
  <2> QED
    BY <2>1, FS_Interval
<1>2. /\ Succeeded(results) \subseteq DOMAIN results
      /\ FailedOf(results) \subseteq DOMAIN results
      /\ Succeeded(results) = DOMAIN results \ FailedOf(results)
      /\ DOMAIN results \cap FailedOf(results) = FailedOf(results)
  BY DEF Succeeded, FailedOf
<1>3. /\ IsFiniteSet(Succeeded(results)) /\ IsFiniteSet(FailedOf(results))
  BY <1>1, <1>2, FS_Subset
<1>4. Cardinality(Succeeded(results)) \in Nat /\ Cardinality(FailedOf(results)) \in Nat
  BY <1>3, FS_CardinalityType
<1>5. Cardinality(DOMAIN results \ FailedOf(results)) =
          Cardinality(DOMAIN results) - Cardinality(DOMAIN results \cap FailedOf(results))
  BY <1>1, FS_Difference
<1> QED
  BY <1>1, <1>2, <1>4, <1>5

(* There is a message exactly when a tag has failed. *)
LEMMA PollErrorsAreTyped ==
    ASSUME NEW results \in Seq(TagResults)
    PROVE  /\ PollErrors(results) \in Seq(Errors) \cup {None}
           /\ PollErrors(results) = None <=>
                 \A i \in DOMAIN results : results[i].error = None
<1> DEFINE messages == [i \in DOMAIN results |-> results[i].error]
           failed == {i \in DOMAIN results : results[i].error # None}
<1>1. \A i \in DOMAIN results : results[i].error \in Errors \cup {None}
  <2>1. \A i \in DOMAIN results : results[i] \in TagResults
    BY ElementOfSeq
  <2> QED
    BY <2>1 DEF TagResults
<1>2. messages \in Seq(Errors \cup {None}) /\ DOMAIN messages = DOMAIN results
  BY <1>1
<1>3. \A i \in failed \cap DOMAIN messages : messages[i] \in Errors
  BY <1>1
<1>4. PollErrors(results) = IF Selected(messages, failed) = <<>> THEN None
                            ELSE Selected(messages, failed)
  BY DEF PollErrors
<1>5. failed \cap DOMAIN messages = {} <=> \A i \in DOMAIN results : results[i].error = None
  OBVIOUS
<1> HIDE DEF messages, failed
<1>6. /\ Selected(messages, failed) \in Seq(Errors)
      /\ Selected(messages, failed) = <<>> <=> failed \cap DOMAIN messages = {}
  BY <1>2, <1>3, SelectedIsSeq
<1> QED
  BY <1>4, <1>5, <1>6, RaisedIsNoResult

LEMMA PollOfIsTyped ==
    ASSUME NEW p \in Polls, NEW group, group.id \in Ids, group.connection_id \in Ids,
           NEW requests \in Seq(TagModels), NEW times \in PollTimes,
           NEW answers \in [DOMAIN requests -> Answers] \cup {None}
    PROVE  LET poll == PollOf(p, group, requests, answers, times)
               results == Results(requests, answers, times[2])
           IN  /\ poll = Raised => times[3][2] < times[1][2]
               /\ poll # Raised =>
                     /\ poll.results = results
                     /\ results \in Seq(TagResults) /\ DOMAIN results = DOMAIN requests
                     /\ poll.execution.status = PollStatus(results)
                     /\ poll.execution.requested_tags = Len(results)
                     /\ poll.execution.successful_tags = Cardinality(Succeeded(results))
                     /\ poll.execution.failed_tags = Cardinality(FailedOf(results))
                     /\ poll.execution.error_message = PollErrors(results)
<1> DEFINE results == Results(requests, answers, times[2])
           status == PollStatus(results)
           ok == Cardinality(Succeeded(results))
           failed == Cardinality(FailedOf(results))
           errors == PollErrors(results)
           built == [execution_id |-> p, connection_id |-> group.connection_id,
                     tag_group_id |-> group.id, status |-> status,
                     started_at |-> times[1], finished_at |-> times[3],
                     requested_tags |-> Len(requests), successful_tags |-> ok,
                     failed_tags |-> failed, error_message |-> errors]
           execution == PollExecution(p, group.connection_id, group.id, status, times[1],
                                      times[3], Len(requests), ok, failed, errors)
           poll == PollOf(p, group, requests, answers, times)
<1>1. times[1] \in Times /\ times[2] \in Times /\ times[3] \in Times
      /\ times[1][2] \in Int /\ times[3][2] \in Int
  BY InputsAreWellFormed DEF Times
<1>2. results \in Seq(TagResults) /\ DOMAIN results = DOMAIN requests
  BY <1>1, ResultsAreTyped
<1>3. Len(results) = Len(requests) /\ Len(requests) \in Nat
  BY <1>2
<1>4. results # Raised
  BY <1>2, RaisedIsNoResult
<1>5. status \in {"success", "failed", "partial_failure"}
  BY DEF PollStatus
<1>6. poll = IF execution = Raised THEN Raised
             ELSE [execution |-> execution, results |-> results]
  BY <1>4 DEF PollOf, WorkerPollResult
<1>7. errors \in Seq(Errors) \cup {None}
  BY <1>2, PollErrorsAreTyped
<1> HIDE DEF results
<1>8. ok \in Nat /\ failed \in Nat /\ ok = Len(results) - failed
  BY <1>2, CountsAddUp
<1> HIDE DEF status, ok, failed, errors
<1>9. ~(ok + failed > Len(requests))
  BY <1>3, <1>8
<1>10. execution = IF times[3][2] < times[1][2] THEN Raised ELSE built
  BY <1>9 DEF PollExecution
<1>11. built \in PollExecutions
  BY <1>1, <1>3, <1>5, <1>7, <1>8 DEF PollExecutions
<1>12. built # Raised
  BY <1>11, RaisedIsNoResult
<1> HIDE DEF execution, poll
<1>13. CASE times[3][2] < times[1][2]
  BY <1>6, <1>10, <1>13 DEF poll, results
<1>14. CASE ~(times[3][2] < times[1][2])
  <2>1. poll = [execution |-> built, results |-> results]
    BY <1>6, <1>10, <1>12, <1>14
  <2>2. poll \in WorkerPollResults
    BY <1>2, <1>11, <2>1 DEF WorkerPollResults
  <2>3. poll # Raised
    BY <2>2, RaisedIsNoResult
  <2> QED
    BY <1>2, <1>3, <2>1, <2>3 DEF poll, results, status, ok, failed, errors
<1> QED
  BY <1>13, <1>14

-----------------------------------------------------------------------------
(* The configuration a poll is made under, and what is on record of it.    *)

LEMMA StripKeepsIds == ASSUME NEW id \in Ids PROVE Strip(id) \in Ids
BY DEF Strip, Ids

LEMMA LoadedIsTyped ==
    ASSUME NEW s \in Sources, LoadGatewayConfig(s.file, s.env) # Rejected
    PROVE  LET c == LoadGatewayConfig(s.file, s.env)
           IN  c.tags \in Seq(TagModels) /\ c.tag_groups \in Seq(TagGroupModels)
<1> DEFINE file == s.file
           model == ApplyEnvironmentOverrides(file, s.env)
           c == ToDomain(model)
<1>1. file \in Files /\ LoadGatewayConfig(s.file, s.env) = c
  BY InputsAreWellFormed DEF LoadGatewayConfig
<1>2. model.tag_groups \in Seq(TagGroupModels) /\ model.tags \in Seq(TagModels)
  BY <1>1, OverridesKeepIds DEF Files
<1> HIDE DEF model
<1> DEFINE group(i) == [model.tag_groups[i] EXCEPT !.id = Strip(@), !.connection_id = Strip(@)]
           tag(i) == [model.tags[i] EXCEPT !.id = Strip(@), !.tag_group_id = Strip(@)]
<1>3. c.tag_groups = [i \in DOMAIN model.tag_groups |-> group(i)]
      /\ c.tags = [i \in DOMAIN model.tags |-> tag(i)]
  BY DEF ToDomain
<1>4. \A i \in DOMAIN model.tag_groups : group(i) \in TagGroupModels
  <2>1. \A i \in DOMAIN model.tag_groups : model.tag_groups[i] \in TagGroupModels
    BY <1>2, ElementOfSeq
  <2> QED
    BY <2>1, StripKeepsIds DEF TagGroupModels
<1>5. \A i \in DOMAIN model.tags : tag(i) \in TagModels
  <2>1. \A i \in DOMAIN model.tags : model.tags[i] \in TagModels
    BY <1>2, ElementOfSeq
  <2> QED
    BY <2>1, StripKeepsIds DEF TagModels
<1> HIDE DEF group, tag, c
<1>6. [i \in DOMAIN model.tag_groups |-> group(i)] \in Seq(TagGroupModels)
  BY <1>2, <1>4
<1>7. [i \in DOMAIN model.tags |-> tag(i)] \in Seq(TagModels)
  BY <1>2, <1>5
<1> QED
  BY <1>1, <1>3, <1>6, <1>7

(* The process runs with what it has loaded from its source. *)
ConfigInv ==
    config # None =>
        /\ source \in Sources
        /\ config = LoadGatewayConfig(source.file, source.env)
        /\ config # Rejected

(* A poll is on record with what it asked, was answered, and when. *)
IsOnRecord(p) ==
    \E group \in TagGroupModels, requests \in Seq(TagModels), times \in PollTimes :
        \E answers \in [DOMAIN requests -> Answers] \cup {None} :
            /\ asked[p] = [requests |-> requests, answers |-> answers, times |-> times]
            /\ polled[p] = PollOf(p, group, requests, answers, times)

RecordInv ==
    /\ ConfigInv
    /\ asked = [p \in Polls |-> asked[p]]
    /\ DOMAIN polled \subseteq Polls
    /\ \A p \in DOMAIN polled : IsOnRecord(p)

LEMMA RecordInit == Init => RecordInv
BY DEF Init, RecordInv, ConfigInv

LEMMA RecordPoll ==
    ASSUME RecordInv, NEW p \in Polls, Poll(p)
    PROVE  RecordInv'
<1>1. PICK group \in RowsOf(config.tag_groups), times \in PollTimes :
          \E answers \in [DOMAIN EnabledTags(group) -> Answers] \cup {None} :
              PollGroup(p, group, answers, times)
  BY DEF Poll
<1>2. PICK answers \in [DOMAIN EnabledTags(group) -> Answers] \cup {None} :
          PollGroup(p, group, answers, times)
  BY <1>1
<1> DEFINE requests == EnabledTags(group)
           result == PollOf(p, group, requests, answers, times)
           record == [requests |-> requests, answers |-> answers, times |-> times]
<1>3. /\ p \notin DOMAIN polled
      /\ polled' = [d \in DOMAIN polled \cup {p} |->
                       IF d = p THEN result ELSE polled[d]]
      /\ asked' = [asked EXCEPT ![p] = record]
      /\ UNCHANGED <<source, config>>
      /\ answers \in [DOMAIN requests -> Answers] \cup {None}
  BY <1>2 DEF PollGroup, Poll, processVars
<1>4. config.tags \in Seq(TagModels) /\ config.tag_groups \in Seq(TagGroupModels)
  BY LoadedIsTyped DEF Poll, RecordInv, ConfigInv
<1>5. group \in TagGroupModels
  BY <1>4, ElementOfSeq DEF RowsOf
<1>6. requests \in Seq(TagModels)
  <2> DEFINE S == {i \in DOMAIN config.tags :
                      /\ config.tags[i].enabled
                      /\ config.tags[i].tag_group_id = group.id}
  <2>1. \A i \in S \cap DOMAIN config.tags : config.tags[i] \in TagModels
    BY <1>4, ElementOfSeq
  <2>2. requests = Selected(config.tags, S)
    BY DEF EnabledTags
  <2> HIDE DEF S, requests
  <2> QED
    BY <1>4, <2>1, <2>2, SelectedIsSeq
<1> HIDE DEF requests, result
<1>7. asked'[p] = record /\ polled'[p] = result
  BY <1>3 DEF RecordInv
<1>8. IsOnRecord(p)'
  BY <1>3, <1>5, <1>6, <1>7 DEF IsOnRecord, result
<1>9. ASSUME NEW d \in DOMAIN polled PROVE IsOnRecord(d)'
  <2>1. asked'[d] = asked[d] /\ polled'[d] = polled[d] /\ IsOnRecord(d)
    BY <1>3 DEF RecordInv
  <2> QED
    BY <2>1 DEF IsOnRecord
<1>10. DOMAIN polled' = DOMAIN polled \cup {p} /\ asked' = [d \in Polls |-> asked'[d]]
  BY <1>3 DEF RecordInv
<1> QED
  BY <1>3, <1>8, <1>9, <1>10 DEF RecordInv, ConfigInv

LEMMA RecordStep ==
    ASSUME RecordInv, [Next]_vars
    PROVE  RecordInv'
<1>1. ASSUME UNCHANGED <<asked, polled>>, ConfigInv' PROVE RecordInv'
  BY <1>1 DEF RecordInv, IsOnRecord
<1>2. ASSUME UNCHANGED <<source, config>> PROVE ConfigInv'
  BY <1>2 DEF RecordInv, ConfigInv
<1>3. ASSUME NEW s \in Sources, Start(s) PROVE RecordInv'
  BY <1>1, <1>3 DEF Start, history, ConfigInv
<1>4. CASE Stop
  BY <1>1, <1>4 DEF Stop, history, ConfigInv
<1>5. CASE Seed
  BY <1>1, <1>2, <1>5 DEF Seed
<1>6. ASSUME NEW p \in Polls, Poll(p) PROVE RecordInv'
  BY <1>6, RecordPoll
<1>7. ASSUME NEW batch \in SUBSET memory, Save(batch) \/ SpoolBatch(batch) PROVE RecordInv'
  BY <1>1, <1>2, <1>7 DEF Save, SpoolBatch, processVars, history
<1>8. ASSUME NEW entries \in SUBSET spool, Replay(entries) PROVE RecordInv'
  BY <1>1, <1>2, <1>8 DEF Replay, processVars, history
<1>9. CASE UNCHANGED vars
  BY <1>1, <1>2, <1>9 DEF vars, processVars, history
<1> QED
  BY <1>3, <1>4, <1>5, <1>6, <1>7, <1>8, <1>9 DEF Next

LEMMA RecordInvariant == Spec => []RecordInv
BY RecordInit, RecordStep, PTL DEF Spec

(* The constructors of domain/models.py throw away no poll, whichever tags  *)
(* it asks for and whatever the PLC answers, but for one: an execution may  *)
(* not end before it starts, as it does when the wall clock is set back     *)
(* while the group is read.                                                 *)
THEOREM PollsAreLostToTheClockOnly == Spec => []OnlyClockLosesPolls
<1>1. RecordInv => OnlyClockLosesPolls
  <2> SUFFICES ASSUME RecordInv, NEW p \in DOMAIN polled, polled[p] = Raised
               PROVE  asked[p].times[3][2] < asked[p].times[1][2]
    BY DEF OnlyClockLosesPolls
  <2>1. p \in Polls /\ IsOnRecord(p)
    BY DEF RecordInv
  <2>2. PICK group \in TagGroupModels, requests \in Seq(TagModels), times \in PollTimes :
            \E answers \in [DOMAIN requests -> Answers] \cup {None} :
                /\ asked[p] = [requests |-> requests, answers |-> answers, times |-> times]
                /\ polled[p] = PollOf(p, group, requests, answers, times)
    BY <2>1 DEF IsOnRecord
  <2>3. PICK answers \in [DOMAIN requests -> Answers] \cup {None} :
                /\ asked[p] = [requests |-> requests, answers |-> answers, times |-> times]
                /\ polled[p] = PollOf(p, group, requests, answers, times)
    BY <2>2
  <2>4. group.id \in Ids /\ group.connection_id \in Ids
    BY DEF TagGroupModels
  <2>5. PollOf(p, group, requests, answers, times) = Raised => times[3][2] < times[1][2]
    BY <2>1, <2>4, PollOfIsTyped
  <2> QED
    BY <2>3, <2>5
<1> QED
  BY <1>1, RecordInvariant, PTL

(* One bad tag does not take its neighbours with it: in a poll that reads,  *)
(* a tag has a reading exactly when the PLC answers it with a good or       *)
(* uncertain value of its type, unless an answer has the reserved severity, *)
(* which makes read() raise for all of them.                                *)
THEOREM NeighboursDoSurvive == Spec => []NeighboursSurvive
<1>1. RecordInv => NeighboursSurvive
  <2> SUFFICES ASSUME RecordInv, NEW p \in Polls, HasResult(p), asked[p].answers # None,
                      NEW i \in DOMAIN asked[p].answers
               PROVE  /\ Delivers(asked[p].requests[i], asked[p].answers[i])
                            /\ ~Reserved(asked[p].answers) =>
                            /\ IsSuccess(polled[p].results[i])
                            /\ polled[p].results[i].quality = asked[p].answers[i].status
                      /\ IsSuccess(polled[p].results[i]) =>
                            Delivers(asked[p].requests[i], asked[p].answers[i])
    BY DEF NeighboursSurvive, Reserved
  <2>1. IsOnRecord(p) /\ polled[p] # Raised
    BY DEF RecordInv, HasResult
  <2>2. PICK group \in TagGroupModels, requests \in Seq(TagModels), times \in PollTimes :
            \E answers \in [DOMAIN requests -> Answers] \cup {None} :
                /\ asked[p] = [requests |-> requests, answers |-> answers, times |-> times]
                /\ polled[p] = PollOf(p, group, requests, answers, times)
    BY <2>1 DEF IsOnRecord
  <2>3. PICK answers \in [DOMAIN requests -> Answers] \cup {None} :
                /\ asked[p] = [requests |-> requests, answers |-> answers, times |-> times]
                /\ polled[p] = PollOf(p, group, requests, answers, times)
    BY <2>2
  <2>4. answers # None /\ answers \in [DOMAIN requests -> Answers] /\ i \in DOMAIN requests
        /\ times[2] \in Times
    BY <2>3, InputsAreWellFormed
  <2>5. group.id \in Ids /\ group.connection_id \in Ids
    BY DEF TagGroupModels
  <2>6. polled[p].results = Results(requests, answers, times[2])
    BY <2>1, <2>3, <2>5, PollOfIsTyped
  <2>7. /\ Delivers(requests[i], answers[i]) /\ ~Reserved(answers) =>
              /\ IsSuccess(polled[p].results[i])
              /\ polled[p].results[i].quality = answers[i].status
        /\ IsSuccess(polled[p].results[i]) => Delivers(requests[i], answers[i])
    BY <2>4, <2>6, DeliveredSurvives
  <2>8. asked[p].requests = requests /\ asked[p].answers = answers
    BY <2>3
  <2> QED
    BY <2>7, <2>8
<1> QED
  BY <1>1, RecordInvariant, PTL

-----------------------------------------------------------------------------
(* The overrides of the environment.                                       *)

LEMMA GreatestOfList ==
    ASSUME NEW T, NEW s \in Seq(T), NEW S \in SUBSET DOMAIN s, S # {}
    PROVE  \E x \in S : \A y \in S : y <= x
<1> DEFINE n == Len(s)
           Left == {n - y : y \in S}
<1>1. n \in Nat /\ \A y \in S : y \in Nat /\ y <= n
  OBVIOUS
<1> HIDE DEF n
<1>2. Left \in SUBSET Nat /\ Left # {}
  BY <1>1
<1>3. PICK least \in Left : \A other \in Left : least <= other
  BY <1>2, LeastNatural
<1>4. PICK x \in S : least = n - x
  BY <1>3
<1>5. ASSUME NEW y \in S PROVE y <= x
  <2>1. n - x <= n - y
    BY <1>3, <1>4
  <2> QED
    BY <1>1, <2>1
<1> QED
  BY <1>5

(* The connection an override addresses is the last of those whose id is   *)
(* its own in upper case.                                                  *)
LEMMA AddressedIsLast ==
    ASSUME NEW file \in Files, NEW o, Matching(file, o) # {}
    PROVE  /\ Addressed(file, o) \in Matching(file, o)
           /\ \A i \in Matching(file, o) : i <= Addressed(file, o)
<1>1. file.connections \in Seq(ConnectionModels)
  BY DEF Files
<1>2. Matching(file, o) \in SUBSET DOMAIN file.connections
  BY DEF Matching
<1>3. \E j \in Matching(file, o) : \A i \in Matching(file, o) : i <= j
  BY <1>1, <1>2, GreatestOfList
<1> QED
  BY <1>3 DEF Addressed

LEMMA FieldsOverridden ==
    ASSUME NEW file \in Files, NEW env, NEW j \in DOMAIN file.connections, NEW field \in Fields
    PROVE  LET model == ApplyEnvironmentOverrides(file, env)
           IN  /\ DOMAIN ToDomain(model).connections = DOMAIN file.connections
               /\ ToDomain(model).connections[j][field] =
                     Override(file, env, j, field, file.connections[j][field])
<1> DEFINE model == ApplyEnvironmentOverrides(file, env)
           old == file.connections[j]
<1>1. file \in [connections : Seq(ConnectionModels), tag_groups : Seq(TagGroupModels),
                tags : Seq(TagModels)]
  BY DEF Files
<1>2. old \in ConnectionModels
  BY <1>1, ElementOfSeq
<1>3. /\ DOMAIN model.connections = DOMAIN file.connections
      /\ model.connections[j] =
            [old EXCEPT !.endpoint = Override(file, env, j, "endpoint", @),
                        !.enabled = Override(file, env, j, "enabled", @),
                        !.timeout_ms = Override(file, env, j, "timeout_ms", @)]
  BY <1>1 DEF ApplyEnvironmentOverrides
<1> HIDE DEF model
<1>4. /\ DOMAIN ToDomain(model).connections = DOMAIN file.connections
      /\ ToDomain(model).connections[j] = [model.connections[j] EXCEPT !.id = Strip(@)]
  BY <1>3 DEF ToDomain
<1>5. old = [id |-> old.id, endpoint |-> old.endpoint, enabled |-> old.enabled,
             timeout_ms |-> old.timeout_ms]
  BY <1>2 DEF ConnectionModels
<1> HIDE DEF old
<1>6. ToDomain(model).connections[j][field] = model.connections[j][field]
  BY <1>3, <1>4, <1>5 DEF Fields
<1>7. model.connections[j][field] = Override(file, env, j, field, old[field])
  BY <1>3, <1>5 DEF Fields
<1> QED
  BY <1>4, <1>6, <1>7 DEF model, old

(* No override of the environment is without effect: each is what its      *)
(* connection runs with, unless a later one is for the same field of the   *)
(* same id, in upper case; one that cannot be applied refuses to load.     *)
THEOREM OverridesHaveEffect == Spec => []OverridesTakeEffect
<1>1. RecordInv => OverridesTakeEffect
  <2> DEFINE file == source.file
             env == source.env
             loaded == config.connections
             SameId(j, o) == Upper(file.connections[j].id) = Upper(o.id)
  <2> SUFFICES ASSUME RecordInv, config # None, NEW k \in DOMAIN env,
                      \A l \in DOMAIN env :
                          ~ /\ l > k /\ env[l].field = env[k].field
                            /\ Upper(env[l].id) = Upper(env[k].id)
               PROVE  \E j \in DOMAIN loaded :
                          /\ SameId(j, env[k])
                          /\ \A i \in DOMAIN loaded : i > j => ~SameId(i, env[k])
                          /\ loaded[j][env[k].field] = Coerced(env[k])
    BY DEF OverridesTakeEffect
  <2> DEFINE o == env[k]
             j == Addressed(file, o)
             ks == Overriding(file, env, j, o.field)
  <2>1. /\ file \in Files /\ env \in Seq(Overrides)
        /\ \A l \in DOMAIN env : IsOverride(file, env[l])
        /\ config = ToDomain(ApplyEnvironmentOverrides(file, env))
    BY InputsAreWellFormed DEF RecordInv, ConfigInv, LoadGatewayConfig
  <2>2. /\ Matching(file, o) # {} /\ o.field \in Fields
        /\ \A l \in DOMAIN env : Matching(file, env[l]) # {}
    BY <2>1 DEF IsOverride
  <2> HIDE DEF file, env
  <2>3. \A l \in DOMAIN env :
            /\ Addressed(file, env[l]) \in DOMAIN file.connections
            /\ SameId(Addressed(file, env[l]), env[l])
            /\ \A i \in DOMAIN file.connections : SameId(i, env[l]) => i <= Addressed(file, env[l])
    BY <2>1, <2>2, AddressedIsLast DEF Matching
  <2>4. j \in DOMAIN file.connections /\ SameId(j, o)
        /\ \A i \in DOMAIN file.connections : SameId(i, o) => i <= j
    BY <2>3
  <2>5. DOMAIN loaded = DOMAIN file.connections
        /\ loaded[j][o.field] = Override(file, env, j, o.field, file.connections[j][o.field])
    BY <2>1, <2>2, <2>4, FieldsOverridden
  <2>6. k \in ks /\ \A l \in ks : l <= k
    <3>1. k \in ks
      BY DEF Overriding
    <3>2. ASSUME NEW l \in ks PROVE l <= k
      <4>1. l \in DOMAIN env /\ env[l].field = o.field /\ Addressed(file, env[l]) = j
        BY DEF Overriding
      <4>2. Upper(env[l].id) = Upper(o.id)
        BY <2>3, <2>4, <4>1
      <4>3. ~(l > k) /\ l \in Int /\ k \in Int
        BY <2>1, <4>1, <4>2
      <4> QED
        BY <4>3
    <3> QED
      BY <3>1, <3>2
  <2>7. (CHOOSE x \in ks : \A l \in ks : l <= x) = k
    <3> DEFINE last == CHOOSE x \in ks : \A l \in ks : l <= x
    <3>1. last \in ks /\ \A l \in ks : l <= last
      BY <2>6
    <3>2. last <= k /\ k <= last
      BY <2>6, <3>1
    <3>3. ks \subseteq DOMAIN env /\ DOMAIN env \subseteq Int
      BY <2>1 DEF Overriding
    <3> HIDE DEF last, ks
    <3>4. last \in Int /\ k \in Int
      BY <2>6, <3>1, <3>3
    <3>5. last = k
      BY <3>2, <3>4
    <3> QED
      BY <3>5 DEF last
  <2>8. loaded[j][o.field] = Coerced(o)
    BY <2>5, <2>6, <2>7 DEF Override
  <2>9. \A i \in DOMAIN loaded : i > j => ~SameId(i, o)
    <3>1. file.connections \in Seq(ConnectionModels)
      BY <2>1 DEF Files
    <3>2. \A i \in DOMAIN file.connections : i \in Int
      BY <3>1
    <3> HIDE DEF SameId, j
    <3> QED
      BY <2>4, <2>5, <3>2
  <2> QED
    BY <2>4, <2>5, <2>8, <2>9
<1> QED
  BY <1>1, RecordInvariant, PTL

-----------------------------------------------------------------------------
(* The execution rows and the reading rows.                                *)

(* The execution row is that of a poll, of which every result has its row, *)
(* and there is one row of an event.                                       *)
IsStored(p) ==
    \A i \in DOMAIN polled[p].results : \E row \in tag_readings : row.event_id = <<p, i>>

StoreInv ==
    /\ \A e \in poll_executions :
          \E p \in Polls : HasResult(p) /\ e = ExecutionRow(polled[p]) /\ IsStored(p)
    /\ \A row, other \in tag_readings : row.event_id = other.event_id => row = other

(* A batch of results of polls updates the executions of its polls to what *)
(* they were, and adds those that are new.                                 *)
LEMMA SaveAddsExecutions ==
    ASSUME PathInv, StoreInv, NEW batch, \A poll \in batch : OfAPoll(poll),
           SavePollResults(batch)
    PROVE  poll_executions' = poll_executions \cup {ExecutionRow(poll) : poll \in batch}
<1> DEFINE rows == {ExecutionRow(poll) : poll \in batch}
<1>1. poll_executions' = UpsertedExecutions(rows)
  BY DEF SavePollResults
<1>2. ASSUME NEW p \in Polls, HasResult(p)
      PROVE  LET row == ExecutionRow(polled[p])
             IN  row.execution_id = p /\ Updated(row, row) = row
  <2>1. GoodExecution(polled[p].execution) /\ polled[p].execution.execution_id = p
    BY <1>2 DEF PathInv, PolledInv, GoodPoll
  <2> QED
    BY <2>1 DEF ExecutionRow, GoodExecution, Updated
<1>3. \A e \in rows \cup poll_executions : \E p \in Polls :
          HasResult(p) /\ e = ExecutionRow(polled[p])
  BY DEF StoreInv, OfAPoll
<1> HIDE DEF rows
<1>4. \A e, other \in rows \cup poll_executions :
          SameExecution(e, other) => e = other /\ Updated(e, e) = e
  BY <1>2, <1>3 DEF SameExecution
<1>5. {Updated(c[1], c[2]) : c \in {c \in poll_executions \X rows : SameExecution(c[1], c[2])}}
          = poll_executions \cap rows
  <2>1. \A e \in poll_executions \cap rows : SameExecution(e, e) /\ Updated(e, e) = e
    BY <1>4 DEF SameExecution
  <2>2. \A c \in poll_executions \X rows : SameExecution(c[1], c[2]) =>
            c[1] \in rows /\ Updated(c[1], c[2]) = c[1]
    BY <1>4
  <2> DEFINE conflicts == {c \in poll_executions \X rows : SameExecution(c[1], c[2])}
  <2>3. ASSUME NEW e \in poll_executions \cap rows
        PROVE  e \in {Updated(c[1], c[2]) : c \in conflicts}
    <3>1. <<e, e>> \in conflicts /\ Updated(<<e, e>>[1], <<e, e>>[2]) = e
      BY <2>1
    <3> QED
      BY <3>1
  <2>4. ASSUME NEW c \in conflicts PROVE Updated(c[1], c[2]) \in poll_executions \cap rows
    BY <2>2
  <2> QED
    BY <2>3, <2>4
<1>6. /\ {old \in poll_executions : \A e \in rows : ~SameExecution(e, old)}
             = poll_executions \ rows
      /\ {e \in rows : \A old \in poll_executions : ~SameExecution(e, old)}
             = rows \ poll_executions
  BY <1>4 DEF SameExecution
<1> QED
  BY <1>1, <1>5, <1>6 DEF UpsertedExecutions, rows

(* Saved once or again, a poll result leaves one row for each of its tags. *)
LEMMA SaveKeepsStore ==
    ASSUME PathInv, StoreInv, NEW batch, \A poll \in batch : OfAPoll(poll),
           SavePollResults(batch), UNCHANGED polled
    PROVE  StoreInv'
<1>1. /\ tag_readings' = tag_readings \cup
            {row \in UNION {ReadingRows(poll) : poll \in batch} :
                \A old \in tag_readings : old.event_id # row.event_id}
      /\ poll_executions' = poll_executions \cup {ExecutionRow(poll) : poll \in batch}
  BY SaveAddsExecutions DEF SavePollResults
<1>2. ASSUME NEW poll \in batch
      PROVE  \E p \in Polls : HasResult(p) /\ poll = polled[p]
                /\ poll.execution.execution_id = p
  BY DEF OfAPoll, PathInv, PolledInv
<1>3. ASSUME NEW p \in Polls, IsStored(p) PROVE IsStored(p)'
  BY <1>1, <1>3 DEF IsStored
<1>4. ASSUME NEW e \in poll_executions'
      PROVE  \E p \in Polls : (HasResult(p) /\ e = ExecutionRow(polled[p]) /\ IsStored(p))'
  <2>1. CASE e \in poll_executions
    BY <1>3, <2>1 DEF StoreInv, HasResult
  <2>2. CASE e \notin poll_executions
    <3>1. PICK poll \in batch : e = ExecutionRow(poll)
      BY <1>1, <2>2
    <3>2. PICK p \in Polls : HasResult(p) /\ poll = polled[p]
             /\ poll.execution.execution_id = p
      BY <1>2
    <3>3. ASSUME NEW i \in DOMAIN poll.results
          PROVE  \E row \in tag_readings' : row.event_id = <<p, i>>
      <4>1. ReadingRow(poll, i).event_id = <<p, i>>
        BY <3>2 DEF ReadingRow
      <4>2. ReadingRow(poll, i) \in UNION {ReadingRows(x) : x \in batch}
        BY DEF ReadingRows
      <4> QED
        BY <1>1, <4>1, <4>2
    <3> QED
      BY <3>1, <3>2, <3>3 DEF IsStored, HasResult
  <2> QED
    BY <2>1, <2>2
<1>5. ASSUME NEW row \in tag_readings', NEW other \in tag_readings',
             row.event_id = other.event_id
      PROVE  row = other
  <2>1. CASE row \in tag_readings \/ other \in tag_readings
    BY <1>1, <1>5, <2>1 DEF StoreInv
  <2>2. CASE row \notin tag_readings /\ other \notin tag_readings
    <3>1. PICK poll \in batch : row \in ReadingRows(poll)
      BY <1>1, <2>2
    <3>2. PICK another \in batch : other \in ReadingRows(another)
      BY <1>1, <2>2
    <3>3. PICK i \in DOMAIN poll.results : row = ReadingRow(poll, i)
      BY <3>1 DEF ReadingRows
    <3>4. PICK j \in DOMAIN another.results : other = ReadingRow(another, j)
      BY <3>2 DEF ReadingRows
    <3>5. /\ row.event_id = <<poll.execution.execution_id, i>>
          /\ other.event_id = <<another.execution.execution_id, j>>
      BY <3>3, <3>4 DEF ReadingRow
    <3>6. poll.execution.execution_id = another.execution.execution_id /\ i = j
      <4>1. <<poll.execution.execution_id, i>> = <<another.execution.execution_id, j>>
        BY <1>5, <3>5
      <4> QED
        BY <4>1
    <3>7. poll = another
      BY <1>2, <3>6
    <3> QED
      BY <3>3, <3>4, <3>6, <3>7
  <2> QED
    BY <2>1, <2>2
<1> QED
  BY <1>4, <1>5 DEF StoreInv

(* What is read back from the spool are results of polls. *)
LEMMA ReplayedAreOfPolls ==
    ASSUME PathInv, NEW entries \in SUBSET spool
    PROVE  \A json \in entries : OfAPoll(PollResultFromJson(json))
<1> SUFFICES ASSUME NEW json \in entries PROVE OfAPoll(PollResultFromJson(json))
  OBVIOUS
<1>1. PICK p \in Polls : HasResult(p) /\ json = PollResultToJson(polled[p])
  BY DEF PathInv, JsonOfAPoll
<1> QED
  BY <1>1, PollRoundTrip DEF PathInv, PolledInv, OfAPoll

LEMMA StoreStep ==
    ASSUME PathInv, StoreInv, [Next]_vars
    PROVE  StoreInv'
<1>1. ASSUME UNCHANGED <<polled, poll_executions, tag_readings>> PROVE StoreInv'
  BY <1>1 DEF StoreInv, IsStored, HasResult
<1>2. ASSUME NEW s \in Sources, Start(s) PROVE StoreInv'
  BY <1>1, <1>2 DEF Start, history, tableVars, readingTables
<1>3. CASE Stop
  BY <1>1, <1>3 DEF Stop, history, tableVars, readingTables
<1>4. CASE Seed
  BY <1>1, <1>4 DEF Seed, UpsertConnections, UpsertTagGroups, UpsertTags, readingTables
<1>5. ASSUME NEW p \in Polls, Poll(p) PROVE StoreInv'
  <2>1. UNCHANGED <<poll_executions, tag_readings>>
    BY <1>5 DEF Poll, PollGroup, tableVars, readingTables
  <2>2. p \notin DOMAIN polled
        /\ \A d \in DOMAIN polled : d \in DOMAIN polled' /\ polled'[d] = polled[d]
    BY <1>5 DEF Poll, PollGroup
  <2>3. \A d \in Polls : HasResult(d) => HasResult(d)' /\ polled'[d] = polled[d]
    BY <2>2 DEF HasResult
  <2>4. ASSUME NEW d \in Polls, HasResult(d), IsStored(d) PROVE IsStored(d)'
    BY <2>1, <2>3, <2>4 DEF IsStored
  <2> QED
    BY <2>1, <2>3, <2>4 DEF StoreInv
<1>6. ASSUME NEW batch \in SUBSET memory, Save(batch) PROVE StoreInv'
  <2>1. \A poll \in batch : OfAPoll(poll)
    BY DEF PathInv
  <2>2. SavePollResults(batch) /\ UNCHANGED polled
    BY <1>6 DEF Save, history
  <2> QED
    BY <2>1, <2>2, SaveKeepsStore
<1>7. ASSUME NEW batch \in SUBSET memory, SpoolBatch(batch) PROVE StoreInv'
  BY <1>1, <1>7 DEF SpoolBatch, history, tableVars, readingTables
<1>8. ASSUME NEW entries \in SUBSET spool, Replay(entries) PROVE StoreInv'
  <2> DEFINE batch == {PollResultFromJson(json) : json \in entries}
  <2>1. \A poll \in batch : OfAPoll(poll)
    BY ReplayedAreOfPolls
  <2>2. SavePollResults(batch) /\ UNCHANGED polled
    BY <1>8 DEF Replay, history
  <2> HIDE DEF batch
  <2> QED
    BY <2>1, <2>2, SaveKeepsStore
<1>9. CASE UNCHANGED vars
  BY <1>1, <1>9 DEF vars, history, tableVars, readingTables
<1> QED
  BY <1>2, <1>3, <1>4, <1>5, <1>6, <1>7, <1>8, <1>9 DEF Next

(* What the poll result of a poll on record says of its tags. *)
LEMMA RecordSays ==
    ASSUME PathInv, RecordInv, NEW p \in Polls, HasResult(p)
    PROVE  LET results == polled[p].results
               row == ExecutionRow(polled[p])
           IN  /\ results \in Seq(TagResults)
               /\ \A i \in DOMAIN results : results[i].error # None <=> ~IsSuccess(results[i])
               /\ row.execution_id = p
               /\ row.status = PollStatus(results)
               /\ row.requested_tags = Len(results)
               /\ row.successful_tags = Cardinality(Succeeded(results))
               /\ row.failed_tags = Cardinality(FailedOf(results))
               /\ row.error_message = PollErrors(results)
<1> DEFINE poll == polled[p]
           e == poll.execution
           row == ExecutionRow(poll)
<1>1. IsOnRecord(p) /\ poll # Raised
  BY DEF RecordInv, HasResult
<1>2. PICK group \in TagGroupModels, requests \in Seq(TagModels), times \in PollTimes :
          \E answers \in [DOMAIN requests -> Answers] \cup {None} :
              poll = PollOf(p, group, requests, answers, times)
  BY <1>1 DEF IsOnRecord
<1>3. PICK answers \in [DOMAIN requests -> Answers] \cup {None} :
          poll = PollOf(p, group, requests, answers, times)
  BY <1>2
<1>4. group.id \in Ids /\ group.connection_id \in Ids
  BY DEF TagGroupModels
<1>5. GoodPoll(poll) /\ e.execution_id = p
  BY DEF PathInv, PolledInv
<1>6. /\ poll.results \in Seq(TagResults)
      /\ e.status = PollStatus(poll.results)
      /\ e.requested_tags = Len(poll.results)
      /\ e.successful_tags = Cardinality(Succeeded(poll.results))
      /\ e.failed_tags = Cardinality(FailedOf(poll.results))
      /\ e.error_message = PollErrors(poll.results)
  BY <1>1, <1>3, <1>4, PollOfIsTyped
<1>7. /\ row.execution_id = e.execution_id /\ row.status = e.status
      /\ row.requested_tags = e.requested_tags /\ row.successful_tags = e.successful_tags
      /\ row.failed_tags = e.failed_tags /\ row.error_message = e.error_message
  <2>1. GoodExecution(e)
    BY <1>5 DEF GoodPoll
  <2> HIDE DEF e
  <2>2. row = [e EXCEPT !.started_at = ToIso(@), !.finished_at = ToIso(@)]
    BY DEF ExecutionRow, e
  <2> QED
    BY <2>1, <2>2 DEF GoodExecution
<1>8. ASSUME NEW i \in DOMAIN poll.results
      PROVE  poll.results[i].error # None <=> ~IsSuccess(poll.results[i])
  <2>1. GoodResult(poll.results[i])
    BY <1>5 DEF GoodPoll, GoodResults
  <2> QED
    BY <2>1 DEF GoodResult, TagResult, IsSuccess
<1> QED
  BY <1>5, <1>6, <1>7, <1>8

(* A poll that is stored has as many rows as it has results: what numbers  *)
(* the events of its rows is one-to-one.                                   *)
LEMMA RowsOfResults ==
    ASSUME RowsInv, StoreInv, NEW p \in Polls, IsStored(p),
           NEW S \in SUBSET DOMAIN polled[p].results, IsFiniteSet(S)
    PROVE  Cardinality({row \in tag_readings : row.event_id[1] = p /\ row.event_id[2] \in S})
               = Cardinality(S)
<1> DEFINE R == {row \in tag_readings : row.event_id[1] = p /\ row.event_id[2] \in S}
           g == [i \in S |-> CHOOSE row \in tag_readings : row.event_id = <<p, i>>]
<1>1. \A i \in S : g[i] \in tag_readings /\ g[i].event_id = <<p, i>>
  BY DEF IsStored
<1>2. \A row \in R : row.event_id = <<p, row.event_id[2]>>
  <2> SUFFICES ASSUME NEW row \in R PROVE row.event_id = <<p, row.event_id[2]>>
    OBVIOUS
  <2>1. PICK q \in Polls : \E i \in DOMAIN polled[q].results : row.event_id = <<q, i>>
    BY DEF RowsInv, RowIsOfAPoll
  <2>2. PICK i \in DOMAIN polled[q].results : row.event_id = <<q, i>>
    BY <2>1
  <2> QED
    BY <2>2
<1>3. DOMAIN g = S /\ g = [i \in S |-> g[i]]
  OBVIOUS
<1> HIDE DEF g
<1>4. g \in [S -> R]
  BY <1>1, <1>3
<1>5. \A i, j \in S : g[i] = g[j] => i = j
  <2> SUFFICES ASSUME NEW i \in S, NEW j \in S, g[i] = g[j] PROVE i = j
    OBVIOUS
  <2>1. <<p, i>> = <<p, j>>
    BY <1>1
  <2> QED
    BY <2>1
<1>6. \A row \in R : \E i \in S : g[i] = row
  <2> SUFFICES ASSUME NEW row \in R PROVE g[row.event_id[2]] = row /\ row.event_id[2] \in S
    OBVIOUS
  <2>1. row.event_id[2] \in S /\ row \in tag_readings
    OBVIOUS
  <2>2. g[row.event_id[2]] \in tag_readings /\ g[row.event_id[2]].event_id = row.event_id
    BY <1>1, <1>2, <2>1
  <2> QED
    BY <2>1, <2>2 DEF StoreInv
<1> HIDE DEF R
<1>7. g \in Bijection(S, R)
  BY <1>3, <1>4, <1>5, <1>6 DEF Bijection, Injection, Surjection, IsInjective
<1>8. Cardinality(R) = Cardinality(S)
  BY <1>7, FS_Bijection DEF ExistsBijection
<1> QED
  BY <1>8 DEF R

(* The execution row and the reading rows of a poll say the same: one row  *)
(* for each requested tag, as many of them failed as the execution says,   *)
(* its status what they say, and messages exactly when one has failed;     *)
(* saved once, saved and replayed, or replayed again after the entries     *)
(* could not be deleted, and under whichever configuration.                *)
THEOREM ExecutionsMatchReadings == Spec => []ExecutionMatchesReadings
<1>1. PathInv /\ RowsInv /\ RecordInv /\ StoreInv => ExecutionMatchesReadings
  <2> SUFFICES ASSUME PathInv, RowsInv, RecordInv, StoreInv, NEW e \in poll_executions
               PROVE  LET failures == {row \in ReadingsOf(e) : row.error # None}
                      IN  /\ \A other \in poll_executions :
                                other.execution_id = e.execution_id => other = e
                          /\ Cardinality(ReadingsOf(e)) = e.requested_tags
                          /\ Cardinality(failures) = e.failed_tags
                          /\ e.successful_tags = e.requested_tags - e.failed_tags
                          /\ e.status = IF failures = {} THEN "success"
                                        ELSE IF failures = ReadingsOf(e) THEN "failed"
                                        ELSE "partial_failure"
                          /\ e.error_message # None <=> failures # {}
    BY DEF ExecutionMatchesReadings
  <2>1. PICK p \in Polls : HasResult(p) /\ e = ExecutionRow(polled[p]) /\ IsStored(p)
    BY DEF StoreInv
  <2> DEFINE results == polled[p].results
             rows == ReadingsOf(e)
             failures == {row \in rows : row.error # None}
             failed == FailedOf(results)
  <2>2. /\ results \in Seq(TagResults)
        /\ \A i \in DOMAIN results : results[i].error # None <=> ~IsSuccess(results[i])
        /\ e.execution_id = p
        /\ e.status = PollStatus(results)
        /\ e.requested_tags = Len(results)
        /\ e.successful_tags = Cardinality(Succeeded(results))
        /\ e.failed_tags = Cardinality(failed)
        /\ e.error_message = PollErrors(results)
    BY <2>1, RecordSays
  <2>3. \A other \in poll_executions : other.execution_id = e.execution_id => other = e
    <3> SUFFICES ASSUME NEW other \in poll_executions, other.execution_id = p
                 PROVE  other = e
      BY <2>2
    <3>1. PICK q \in Polls : HasResult(q) /\ other = ExecutionRow(polled[q])
      BY DEF StoreInv
    <3>2. other.execution_id = q
      BY <3>1, RecordSays
    <3> QED
      BY <2>1, <3>1, <3>2
  <2>4. \A i \in DOMAIN results : results[i].error # None <=> i \in failed
    BY <2>2 DEF FailedOf, Succeeded
  <2>5. \A row \in rows :
            row.event_id[2] \in DOMAIN results /\ row.error = results[row.event_id[2]].error
    <3> SUFFICES ASSUME NEW row \in tag_readings, row.event_id[1] = p
                 PROVE  /\ row.event_id[2] \in DOMAIN results
                        /\ row.error = results[row.event_id[2]].error
      BY <2>2 DEF ReadingsOf
    <3>1. PICK q \in Polls : \E i \in DOMAIN polled[q].results :
              row.event_id = <<q, i>> /\ RowMatches(row, polled[q].results[i])
      BY DEF RowsInv, RowIsOfAPoll
    <3>2. PICK i \in DOMAIN polled[q].results :
              row.event_id = <<q, i>> /\ RowMatches(row, polled[q].results[i])
      BY <3>1
    <3> QED
      BY <3>2 DEF RowMatches
  <2>6. rows = {row \in tag_readings :
                   row.event_id[1] = p /\ row.event_id[2] \in DOMAIN results}
    BY <2>2, <2>5 DEF ReadingsOf
  <2>7. failures = {row \in tag_readings :
                       row.event_id[1] = p /\ row.event_id[2] \in failed}
    <3>1. failed \subseteq DOMAIN results
      BY DEF FailedOf
    <3> HIDE DEF failed, results
    <3> QED
      BY <2>4, <2>5, <2>6, <3>1
  <2> HIDE DEF rows, failures
  <2>8. /\ IsFiniteSet(DOMAIN results) /\ Cardinality(DOMAIN results) = Len(results)
        /\ Cardinality(Succeeded(results)) = Len(results) - Cardinality(failed)
    BY <2>2, CountsAddUp
  <2>9. failed \subseteq DOMAIN results /\ IsFiniteSet(failed)
    BY <2>8, FS_Subset DEF FailedOf
  <2> HIDE DEF failed
  <2>10. Cardinality(rows) = Len(results) /\ Cardinality(failures) = Cardinality(failed)
    BY <2>1, <2>6, <2>7, <2>8, <2>9, RowsOfResults
  <2>11. failures = {} <=> failed = {}
    <3>1. ASSUME NEW i \in failed PROVE failures # {}
      <4>1. PICK row \in tag_readings : row.event_id = <<p, i>>
        BY <2>1, <2>9 DEF IsStored
      <4> QED
        BY <2>7, <4>1
    <3> QED
      BY <2>7, <3>1
  <2>12. failures = rows <=> Succeeded(results) = {}
    <3>1. Succeeded(results) = DOMAIN results \ failed
      BY DEF Succeeded, FailedOf, failed
    <3>2. ASSUME failures = rows, NEW i \in DOMAIN results PROVE i \in failed
      <4>1. PICK row \in tag_readings : row.event_id = <<p, i>>
        BY <2>1, <3>2 DEF IsStored
      <4>2. row \in failures /\ row.event_id[2] = i
        BY <2>6, <3>2, <4>1
      <4> QED
        BY <2>7, <4>2
    <3>3. ASSUME DOMAIN results \subseteq failed PROVE failures = rows
      BY <2>6, <2>7, <2>9, <3>3
    <3> QED
      BY <3>1, <3>2, <3>3
  <2>13. e.status = IF failures = {} THEN "success"
                    ELSE IF failures = rows THEN "failed" ELSE "partial_failure"
    BY <2>2, <2>11, <2>12 DEF PollStatus, failed
  <2>14. e.error_message # None <=> failures # {}
    <3>1. PollErrors(results) = None <=> \A i \in DOMAIN results : results[i].error = None
      BY <2>2, PollErrorsAreTyped
    <3> HIDE DEF results
    <3> QED
      BY <2>2, <2>4, <2>9, <2>11, <3>1
  <2> QED
    BY <2>2, <2>3, <2>8, <2>10, <2>13, <2>14 DEF rows, failures
<1>2. Init => PathInv /\ RowsInv /\ RecordInv /\ StoreInv
  BY PathInit, RecordInit DEF Init, TablesInit, RowsInv, TagsInv, StoreInv
<1>3. PathInv /\ RowsInv /\ RecordInv /\ StoreInv /\ [Next]_vars
          => (PathInv /\ RowsInv /\ RecordInv /\ StoreInv)'
  BY PathStep, RowsStep, RecordStep, StoreStep
<1> QED
  BY <1>1, <1>2, <1>3, PTL DEF Spec

(* A batch of results of polls, saved again, changes nothing of what is    *)
(* stored: the execution is the same, and each of its readings has a row.  *)
LEMMA SaveIsFinal ==
    ASSUME PathInv, StoreInv, NEW batch, \A poll \in batch : OfAPoll(poll),
           SavePollResults(batch)
    PROVE  /\ poll_executions \subseteq poll_executions'
           /\ tag_readings \subseteq tag_readings'
           /\ \A row \in tag_readings' \ tag_readings :
                 \A e \in poll_executions : e.execution_id # row.event_id[1]
<1>1. /\ poll_executions \subseteq poll_executions'
      /\ tag_readings' = tag_readings \cup
            {row \in UNION {ReadingRows(poll) : poll \in batch} :
                \A old \in tag_readings : old.event_id # row.event_id}
  BY SaveAddsExecutions DEF SavePollResults
<1>2. ASSUME NEW p \in Polls, HasResult(p)
      PROVE  ExecutionRow(polled[p]).execution_id = p /\ polled[p].execution.execution_id = p
  <2>1. GoodExecution(polled[p].execution) /\ polled[p].execution.execution_id = p
    BY <1>2 DEF PathInv, PolledInv, GoodPoll
  <2> QED
    BY <2>1 DEF ExecutionRow, GoodExecution
<1>3. ASSUME NEW poll \in batch
      PROVE  \E p \in Polls : HasResult(p) /\ poll = polled[p]
                /\ ExecutionRow(poll).execution_id = p /\ poll.execution.execution_id = p
  BY <1>2 DEF OfAPoll
<1>4. ASSUME NEW row \in tag_readings' \ tag_readings, NEW e \in poll_executions,
             e.execution_id = row.event_id[1]
      PROVE  FALSE
  <2>1. PICK poll \in batch :
            row \in ReadingRows(poll) /\ \A old \in tag_readings : old.event_id # row.event_id
    BY <1>1
  <2>2. PICK i \in DOMAIN poll.results : row = ReadingRow(poll, i)
    BY <2>1 DEF ReadingRows
  <2>3. PICK p \in Polls : HasResult(p) /\ poll = polled[p] /\ poll.execution.execution_id = p
    BY <1>3
  <2>4. row.event_id = <<p, i>>
    BY <2>2, <2>3 DEF ReadingRow
  <2>5. PICK q \in Polls : HasResult(q) /\ e = ExecutionRow(polled[q]) /\ IsStored(q)
    BY DEF StoreInv
  <2>6. q = p
    BY <1>2, <1>4, <2>4, <2>5
  <2> QED
    BY <2>1, <2>2, <2>3, <2>4, <2>5, <2>6 DEF IsStored
<1> QED
  BY <1>1, <1>4

(* What is stored is final: a poll result saved once more, by a call that   *)
(* was given up, by a replay or by a second one, changes no execution row,  *)
(* adds no reading to a poll that has its row, and removes none.            *)
THEOREM StoredStaysFinal == Spec => StoredIsFinal
<1> DEFINE Final == /\ poll_executions \subseteq poll_executions'
                    /\ tag_readings \subseteq tag_readings'
                    /\ \A row \in tag_readings' \ tag_readings :
                          \A e \in poll_executions : e.execution_id # row.event_id[1]
<1>1. PathInv /\ StoreInv /\ [Next]_vars => Final
  <2> SUFFICES ASSUME PathInv, StoreInv, [Next]_vars PROVE Final
    OBVIOUS
  <2>1. ASSUME UNCHANGED <<poll_executions, tag_readings>> PROVE Final
    BY <2>1
  <2>2. ASSUME NEW s \in Sources, Start(s) PROVE Final
    BY <2>1, <2>2 DEF Start, tableVars, readingTables
  <2>3. CASE Stop
    BY <2>1, <2>3 DEF Stop, tableVars, readingTables
  <2>4. CASE Seed
    BY <2>1, <2>4 DEF Seed, UpsertConnections, UpsertTagGroups, UpsertTags, readingTables
  <2>5. ASSUME NEW p \in Polls, Poll(p) PROVE Final
    BY <2>1, <2>5 DEF Poll, PollGroup, tableVars, readingTables
  <2>6. ASSUME NEW batch \in SUBSET memory, Save(batch) PROVE Final
    BY <2>6, SaveIsFinal DEF Save, PathInv
  <2>7. ASSUME NEW batch \in SUBSET memory, SpoolBatch(batch) PROVE Final
    BY <2>1, <2>7 DEF SpoolBatch, tableVars, readingTables
  <2>8. ASSUME NEW entries \in SUBSET spool, Replay(entries) PROVE Final
    <3> DEFINE batch == {PollResultFromJson(json) : json \in entries}
    <3>1. \A poll \in batch : OfAPoll(poll)
      BY ReplayedAreOfPolls
    <3>2. SavePollResults(batch)
      BY <2>8 DEF Replay
    <3> HIDE DEF batch
    <3> QED
      BY <3>1, <3>2, SaveIsFinal
  <2>9. CASE UNCHANGED vars
    BY <2>1, <2>9 DEF vars, tableVars, readingTables
  <2> HIDE DEF Final
  <2> QED
    BY <2>2, <2>3, <2>4, <2>5, <2>6, <2>7, <2>8, <2>9 DEF Next
<1>2. Init => PathInv /\ StoreInv
  BY PathInit DEF Init, TablesInit, StoreInv
<1>3. PathInv /\ StoreInv /\ [Next]_vars => (PathInv /\ StoreInv)'
  BY PathStep, StoreStep
<1> QED
  BY <1>1, <1>2, <1>3, PTL DEF Spec, StoredIsFinal, Final
=============================================================================
