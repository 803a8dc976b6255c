----------------------------- MODULE VoiceProofs -----------------------------
(***************************************************************************)
(* Proofs about VoicePipeline for every capacity of the three channels and  *)
(* every number of events and clauses.                                      *)
(***************************************************************************)
EXTENDS VoicePipeline, FiniteSetTheorems, FunctionTheorems, SequenceTheorems, TLAPS

-----------------------------------------------------------------------------
(* The inductive invariant, in parts *)

Elems(s) == {s[i] : i \in 1..Len(s)}
Count(s) == Cardinality({i \in 1..Len(s) : s[i].kind \in Inputs})

(* What a handler may have before it. *)
Resting == {<<>>, <<"dsp">>}
Transcribing == {<<"flush", "transcribe">>, <<"transcribe">>}
Plans == Resting \cup Transcribing \cup
  {<<"flush", "vad_start">>, <<"vad_start">>, <<"flush", "speak">>, <<"speak">>,
   <<"flush", "dsp", "idle">>, <<"dsp", "idle">>, <<"idle">>}

(* The epoch may still fail by itself: its transcription or its reply is to    *)
(* start, under way, or reported and not received. That is the second epoch    *)
(* an input may cost.                                                          *)
CanFail ==
  \/ todo \in Transcribing \/ epoch \in stt \/ epoch \in llm
  \/ \E ev \in Elems(events) : ev.of = epoch /\ ev.kind \in {"SttCompleted", "LlmCompleted"}

BoundInv ==
  /\ epoch + 2 * Count(events) <= 2 * inputs
  /\ CanFail => epoch + 2 * Count(events) < 2 * inputs

(* Nothing belongs to an epoch that is still to come. *)
PastInv ==
  /\ \A e \in stt : e <= epoch
  /\ \A e \in llm : e <= epoch
  /\ \A e \in spoke : e <= epoch
  /\ \A e \in Epochs : tts[e] # "off" => e <= epoch
  /\ \A ev \in Elems(events) : /\ ev.of <= epoch
                               /\ ev.kind = "TtsSpeaking" => ev.of \in spoke
  /\ \A e \in Elems(speaker) : e <= epoch

(* A turn is in one place: it is transcribed, or answered and synthesised, or  *)
(* the report that ends one of these is on its way, once. While the handler    *)
(* has still to start or to end a turn there is none.                          *)
Final(ev, e) == ev.of = e /\ ev.kind \in {"SttCompleted", "TtsCompleted"}
Unique(s, e) == \A i, j \in 1..Len(s) : Final(s[i], e) /\ Final(s[j], e) => i = j
NoReport == \A ev \in Elems(events) : ~Final(ev, epoch)
NoTurn == epoch \notin stt /\ tts[epoch] = "off"

TurnInv ==
  /\ NoTurn \/ NoReport
  /\ epoch \notin stt \/ tts[epoch] = "off"
  /\ Unique(events, epoch)
  /\ todo \notin Resting => NoTurn /\ NoReport

(* What the state promises, also while the handler of ResetDsp is under way.   *)
Arriving(k) == \E ev \in Elems(events) : ev.kind = k /\ ev.of = epoch
FitInv == todo \in Resting =>
  /\ state = "SttProcessing" => epoch \in stt \/ Arriving("SttCompleted")
  /\ state \in {"LlmGenerating", "TtsSpeaking"} => tts[epoch] # "off" \/ Arriving("TtsCompleted")
  /\ state \in {"Idle", "VadStart"} => epoch \notin stt /\ tts[epoch] = "off"
  /\ state = "TtsSpeaking" => epoch \in spoke

(* Who sends a clause has the lock of the echo canceller; a place in the       *)
(* channel is kept, behind frames that are no younger.                         *)
Sorted(s) == \A i, j \in 1..Len(s) : i <= j => s[i] <= s[j]
OrderInv ==
  /\ \A e \in Epochs : tts[e] \in {"announce", "frame", "permit"} => aec = e
  /\ Sorted(speaker)
  /\ \A e \in Epochs : tts[e] = "permit" => Len(speaker) < SpeakerCap /\ \A f \in Elems(speaker) : f <= e

GateInv == flushed <= gate /\ \A e \in since : gate <= e

IInv == TypeOK /\ todo \in Plans /\ BoundInv /\ PastInv /\ TurnInv /\ FitInv /\ OrderInv /\ GateInv

-----------------------------------------------------------------------------
(* Sequences that grow at the end and lose their head *)

LEMMA ElemsAppend ==
  ASSUME NEW S, NEW s \in Seq(S), NEW x \in S
  PROVE  Elems(Append(s, x)) = Elems(s) \cup {x}
<1>1. /\ Len(s) \in Nat /\ Len(Append(s, x)) = Len(s) + 1
      /\ \A i \in 1..Len(s) : Append(s, x)[i] = s[i]
      /\ Append(s, x)[Len(s) + 1] = x
  BY AppendProperties, LenProperties
<1> DEFINE t == Append(s, x)
<1> HIDE DEF t
<1>2. ASSUME NEW y \in Elems(t) PROVE y \in Elems(s) \cup {x}
  <2>1. PICK i \in 1..Len(t) : y = t[i]
    BY <1>2, Zenon DEF Elems
  <2>2. CASE i \in 1..Len(s)
    BY <1>1, <2>1, <2>2 DEF Elems, t
  <2>3. CASE i \notin 1..Len(s)
    <3>1. i = Len(s) + 1
      BY <1>1, <2>1, <2>3 DEF t
    <3>2. QED BY <1>1, <2>1, <3>1 DEF t
  <2>4. QED BY <2>2, <2>3
<1>3. ASSUME NEW y \in Elems(s) PROVE y \in Elems(t)
  <2>1. PICK i \in 1..Len(s) : y = s[i]
    BY <1>3, Zenon DEF Elems
  <2>2. i \in 1..Len(t) /\ t[i] = y
    BY <1>1, <2>1 DEF t
  <2>3. QED BY <2>2, Zenon DEF Elems
<1>4. x \in Elems(t)
  <2>1. Len(s) + 1 \in 1..Len(t) /\ t[Len(s) + 1] = x
    BY <1>1 DEF t
  <2>2. QED BY <2>1, Zenon DEF Elems
<1>5. QED BY <1>2, <1>3, <1>4 DEF t

LEMMA ElemsTail ==
  ASSUME NEW S, NEW s \in Seq(S), s # <<>>
  PROVE  Head(s) \in Elems(s) /\ Elems(Tail(s)) \subseteq Elems(s) /\ Elems(s) = {Head(s)} \cup Elems(Tail(s))
<1>1. /\ Len(s) \in Nat \ {0} /\ Len(Tail(s)) = Len(s) - 1 /\ Head(s) = s[1]
      /\ \A i \in 1..Len(Tail(s)) : Tail(s)[i] = s[i + 1]
  BY HeadTailProperties, EmptySeq
<1> DEFINE t == Tail(s)
<1> HIDE DEF t
<1>2. ASSUME NEW y \in Elems(t) PROVE y \in Elems(s)
  <2>1. PICK i \in 1..Len(t) : y = t[i]
    BY <1>2, Zenon DEF Elems
  <2>2. i + 1 \in 1..Len(s) /\ s[i + 1] = y
    BY <1>1, <2>1 DEF t
  <2>3. QED BY <2>2, Zenon DEF Elems
<1>3. ASSUME NEW y \in Elems(s) PROVE y = Head(s) \/ y \in Elems(t)
  <2>1. PICK i \in 1..Len(s) : y = s[i]
    BY <1>3, Zenon DEF Elems
  <2>2. CASE i = 1
    BY <1>1, <2>1, <2>2
  <2>3. CASE i # 1
    <3>1. i - 1 \in 1..Len(t)
      BY <1>1, <2>1, <2>3 DEF t
    <3>2. t[i - 1] = s[(i - 1) + 1] /\ (i - 1) + 1 = i
      BY <1>1, <2>1, <3>1 DEF t
    <3>3. t[i - 1] = y
      BY <2>1, <3>2
    <3>4. QED BY <3>1, <3>3, Zenon DEF Elems
  <2>4. QED BY <2>2, <2>3
<1>4. Head(s) \in Elems(s)
  <2>1. 1 \in 1..Len(s)
    BY <1>1
  <2>2. QED BY <1>1, <2>1, Zenon DEF Elems
<1>5. QED BY <1>2, <1>3, <1>4 DEF t

(* The number of inputs in a channel. *)
Places(s) == {i \in 1..Len(s) : s[i].kind \in Inputs}

LEMMA CountIsNat == ASSUME NEW S, NEW s \in Seq(S) PROVE Count(s) \in Nat /\ IsFiniteSet(Places(s)) /\ Count(s) = Cardinality(Places(s))
<1>1. Len(s) \in Nat /\ IsFiniteSet(1..Len(s))
  BY LenProperties, FS_Interval
<1>2. Places(s) \in SUBSET (1..Len(s))
  BY DEF Places
<1>3. IsFiniteSet(Places(s))
  BY <1>1, <1>2, FS_Subset
<1>4. Count(s) = Cardinality(Places(s))
  BY DEF Count, Places
<1>5. QED BY <1>3, <1>4, FS_CardinalityType

LEMMA CountAppend ==
  ASSUME NEW S, NEW s \in Seq(S), NEW x \in S
  PROVE  /\ x.kind \in Inputs => Count(Append(s, x)) = Count(s) + 1
         /\ x.kind \notin Inputs => Count(Append(s, x)) = Count(s)
<1> DEFINE t == Append(s, x)
<1>1. /\ Len(s) \in Nat /\ Len(t) = Len(s) + 1
      /\ \A i \in 1..Len(s) : t[i] = s[i]
      /\ t[Len(s) + 1] = x /\ t \in Seq(S)
  BY AppendProperties, LenProperties
<1> HIDE DEF t
<1>2. Places(t) = IF x.kind \in Inputs THEN Places(s) \cup {Len(s) + 1} ELSE Places(s)
  <2>1. \A i : i \in 1..Len(t) <=> i \in 1..Len(s) \/ i = Len(s) + 1
    BY <1>1
  <2>2. \A i \in 1..Len(s) : t[i].kind \in Inputs <=> s[i].kind \in Inputs
    BY <1>1
  <2>3. QED BY <1>1, <2>1, <2>2 DEF Places
<1>3. Len(s) + 1 \notin Places(s)
  BY <1>1 DEF Places
<1>4. /\ IsFiniteSet(Places(s)) /\ Count(s) = Cardinality(Places(s)) /\ Count(t) = Cardinality(Places(t))
  BY <1>1, CountIsNat
<1>5. Cardinality(Places(s) \cup {Len(s) + 1}) = Cardinality(Places(s)) + 1
  BY <1>3, <1>4, FS_AddElement
<1>6. QED BY <1>2, <1>4, <1>5 DEF t

LEMMA CountTail ==
  ASSUME NEW S, NEW s \in Seq(S), s # <<>>
  PROVE  /\ Head(s).kind \in Inputs => Count(s) = Count(Tail(s)) + 1
         /\ Head(s).kind \notin Inputs => Count(s) = Count(Tail(s))
<1> DEFINE t == Tail(s)
           later == Places(s) \ {1}
           f == [i \in Places(t) |-> i + 1]
<1>1. /\ Len(s) \in Nat \ {0} /\ Len(t) = Len(s) - 1 /\ Head(s) = s[1]
      /\ \A i \in 1..Len(t) : t[i] = s[i + 1]
      /\ t \in Seq(S)
  BY HeadTailProperties, EmptySeq
<1> HIDE DEF t
<1>2. \A i \in Places(t) : i \in Nat /\ i + 1 \in later
  BY <1>1 DEF Places
<1>3. ASSUME NEW j \in later PROVE \E i \in Places(t) : j = i + 1
  <2>1. j \in 2..Len(s) /\ s[j].kind \in Inputs
    BY <1>1, <1>3 DEF Places
  <2>2. j - 1 \in 1..Len(t) /\ (j - 1) + 1 = j
    BY <1>1, <2>1
  <2>3. t[j - 1] = s[j]
    BY <1>1, <2>2
  <2>4. QED BY <2>1, <2>2, <2>3 DEF Places
<1> HIDE DEF later
<1>4. f \in Bijection(Places(t), later)
  <2>1. f \in [Places(t) -> later]
    BY <1>2
  <2>2. \A a, b \in Places(t) : f[a] = f[b] => a = b
    BY <1>2
  <2>3. \A j \in later : \E i \in Places(t) : f[i] = j
    BY <1>3
  <2>4. QED BY <2>1, <2>2, <2>3, Fun_IsBij
<1>5. IsFiniteSet(Places(t)) /\ Count(t) = Cardinality(Places(t)) /\ IsFiniteSet(Places(s)) /\ Count(s) = Cardinality(Places(s))
  BY <1>1, CountIsNat
<1>6. Cardinality(later) = Count(t)
  BY <1>4, <1>5, FS_Bijection DEF ExistsBijection
<1>7. 1 \in Places(s) <=> Head(s).kind \in Inputs
  BY <1>1 DEF Places
<1>8. Cardinality(later) = IF 1 \in Places(s) THEN Cardinality(Places(s)) - 1 ELSE Cardinality(Places(s))
  BY <1>5, FS_RemoveElement DEF later
<1>9. Cardinality(Places(s)) \in Nat /\ Count(t) \in Nat
  BY <1>5, FS_CardinalityType
<1>10. QED BY <1>5, <1>6, <1>7, <1>8, <1>9 DEF t

LEMMA UniqueAppend ==
  ASSUME NEW S, NEW s \in Seq(S), NEW x \in S, NEW e, Unique(s, e),
         ~Final(x, e) \/ \A y \in Elems(s) : ~Final(y, e)
  PROVE  Unique(Append(s, x), e)
<1> DEFINE t == Append(s, x)
<1>1. /\ Len(s) \in Nat /\ Len(t) = Len(s) + 1
      /\ \A i \in 1..Len(s) : t[i] = s[i]
      /\ t[Len(s) + 1] = x
  BY AppendProperties, LenProperties
<1> HIDE DEF t
<1>2. ASSUME NEW i \in 1..Len(t), NEW j \in 1..Len(t), Final(t[i], e), Final(t[j], e) PROVE i = j
  <2>1. \A k \in 1..Len(t) : k \in 1..Len(s) \/ k = Len(s) + 1
    BY <1>1
  <2>2. CASE ~Final(x, e)
    <3>1. i \in 1..Len(s) /\ j \in 1..Len(s)
      BY <1>1, <1>2, <2>1, <2>2
    <3>2. QED BY <1>1, <1>2, <3>1 DEF Unique
  <2>3. CASE \A y \in Elems(s) : ~Final(y, e)
    <3>1. \A k \in 1..Len(s) : ~Final(t[k], e)
      BY <1>1, <2>3 DEF Elems
    <3>2. QED BY <1>2, <2>1, <3>1
  <2>4. QED BY <2>2, <2>3
<1>3. QED BY <1>2 DEF Unique, t

LEMMA UniqueTail ==
  ASSUME NEW S, NEW s \in Seq(S), s # <<>>, NEW e, Unique(s, e)
  PROVE  /\ Unique(Tail(s), e)
         /\ Final(Head(s), e) => \A y \in Elems(Tail(s)) : ~Final(y, e)
<1> DEFINE t == Tail(s)
<1>1. /\ Len(s) \in Nat \ {0} /\ Len(t) = Len(s) - 1 /\ Head(s) = s[1]
      /\ \A i \in 1..Len(t) : t[i] = s[i + 1]
  BY HeadTailProperties, EmptySeq
<1> HIDE DEF t
<1>2. \A i \in 1..Len(t) : i \in Nat /\ i + 1 \in 1..Len(s) /\ i + 1 # 1
  BY <1>1
<1>3. Unique(t, e)
  <2>1. ASSUME NEW i \in 1..Len(t), NEW j \in 1..Len(t), Final(t[i], e), Final(t[j], e) PROVE i = j
    <3>1. i + 1 = j + 1
      BY <1>1, <1>2, <2>1 DEF Unique
    <3>2. QED BY <1>2, <3>1
  <2>2. QED BY <2>1 DEF Unique
<1>4. ASSUME Final(Head(s), e), NEW y \in Elems(t) PROVE ~Final(y, e)
  <2>1. PICK i \in 1..Len(t) : y = t[i]
    BY <1>4, Zenon DEF Elems
  <2>2. 1 \in 1..Len(s)
    BY <1>1
  <2>3. QED BY <1>1, <1>2, <1>4, <2>1, <2>2 DEF Unique
<1>5. QED BY <1>3, <1>4 DEF t

LEMMA SortedAppend ==
  ASSUME NEW s \in Seq(Nat), NEW x \in Nat, Sorted(s), \A y \in Elems(s) : y <= x
  PROVE  Sorted(Append(s, x))
<1> DEFINE t == Append(s, x)
<1>1. /\ Len(s) \in Nat /\ Len(t) = Len(s) + 1
      /\ \A i \in 1..Len(s) : t[i] = s[i]
      /\ t[Len(s) + 1] = x
  BY AppendProperties, LenProperties
<1> HIDE DEF t
<1>2. ASSUME NEW i \in 1..Len(t), NEW j \in 1..Len(t), i <= j PROVE t[i] <= t[j]
  <2>1. CASE j \in 1..Len(s)
    <3>1. i \in 1..Len(s)
      BY <1>1, <1>2, <2>1
    <3>2. QED BY <1>1, <1>2, <2>1, <3>1 DEF Sorted
  <2>2. CASE j \notin 1..Len(s)
    <3>1. j = Len(s) + 1 /\ t[j] = x
      BY <1>1, <2>2
    <3>2. CASE i \in 1..Len(s)
      <4>1. t[i] = s[i] /\ s[i] \in Elems(s)
        BY <1>1, <3>2 DEF Elems
      <4>2. QED BY <3>1, <4>1
    <3>3. CASE i \notin 1..Len(s)
      <4>1. t[i] = x
        BY <1>1, <3>3
      <4>2. QED BY <3>1, <4>1
    <3>4. QED BY <3>2, <3>3
  <2>3. QED BY <2>1, <2>2
<1>3. QED BY <1>2 DEF Sorted, t

LEMMA SortedTail == ASSUME NEW s \in Seq(Nat), s # <<>>, Sorted(s) PROVE Sorted(Tail(s))
<1> DEFINE t == Tail(s)
<1>1. /\ Len(s) \in Nat \ {0} /\ Len(t) = Len(s) - 1
      /\ \A i \in 1..Len(t) : t[i] = s[i + 1]
  BY HeadTailProperties, EmptySeq
<1> HIDE DEF t
<1>2. ASSUME NEW i \in 1..Len(t), NEW j \in 1..Len(t), i <= j PROVE t[i] <= t[j]
  <2>1. i + 1 \in 1..Len(s) /\ j + 1 \in 1..Len(s) /\ i + 1 <= j + 1
    BY <1>1, <1>2
  <2>2. s[i + 1] <= s[j + 1]
    BY <2>1 DEF Sorted
  <2>3. QED BY <1>1, <2>2
<1>3. QED BY <1>2 DEF Sorted, t

-----------------------------------------------------------------------------
(* What a handler may have before it *)

LEMMA PlanFacts ==
  ASSUME NEW t \in Plans, t # <<>>
  PROVE  /\ Tail(t) \in Plans
         /\ Head(t) = "flush" => /\ t \notin Resting /\ Tail(t) \notin Resting
                                 /\ Tail(t) \in Transcribing => t \in Transcribing
         /\ Head(t) = "dsp" => Tail(t) \notin Transcribing /\ (Tail(t) \in Resting <=> t \in Resting)
         /\ Head(t) \in {"vad_start", "transcribe", "speak", "idle"} => t \notin Resting /\ Tail(t) = <<>>
         /\ Head(t) = "transcribe" => t \in Transcribing
<1>1. ASSUME NEW s \in Steps, t = <<s>> PROVE Tail(t) = <<>> /\ Head(t) = s
  BY <1>1
<1>2. ASSUME NEW s \in Steps, t = <<"flush", s>> PROVE Tail(t) = <<s>> /\ Head(t) = "flush"
  BY <1>2
<1>3. <<>> \in Plans /\ <<>> \in Resting /\ <<>> \notin Transcribing
  BY DEF Plans, Resting, Transcribing
<1>4. CASE t = <<"dsp">>
  <2>1. Tail(t) = <<>> /\ Head(t) = "dsp"
    BY <1>1, <1>4 DEF Steps
  <2>2. t \in Resting
    BY <1>4 DEF Resting, Transcribing
  <2>3. QED BY <1>3, <2>1, <2>2
<1>5. CASE t = <<"idle">>
  <2>1. Tail(t) = <<>> /\ Head(t) = "idle"
    BY <1>1, <1>5 DEF Steps
  <2>2. t \notin Resting
    BY <1>5 DEF Resting, Transcribing
  <2>3. QED BY <1>3, <2>1, <2>2
<1>6. CASE t = <<"vad_start">>
  <2>1. Tail(t) = <<>> /\ Head(t) = "vad_start"
    BY <1>1, <1>6 DEF Steps
  <2>2. t \notin Resting
    BY <1>6 DEF Resting, Transcribing
  <2>3. QED BY <1>3, <2>1, <2>2
<1>7. CASE t = <<"speak">>
  <2>1. Tail(t) = <<>> /\ Head(t) = "speak"
    BY <1>1, <1>7 DEF Steps
  <2>2. t \notin Resting
    BY <1>7 DEF Resting, Transcribing
  <2>3. QED BY <1>3, <2>1, <2>2
<1>8. CASE t = <<"transcribe">>
  <2>1. Tail(t) = <<>> /\ Head(t) = "transcribe"
    BY <1>1, <1>8 DEF Steps
  <2>2. t \notin Resting /\ t \in Transcribing
    BY <1>8 DEF Resting, Transcribing
  <2>3. QED BY <1>3, <2>1, <2>2
<1>9. CASE t = <<"flush", "transcribe">>
  <2>1. Tail(t) = <<"transcribe">> /\ Head(t) = "flush"
    BY <1>2, <1>9 DEF Steps
  <2>2. t \notin Resting /\ Tail(t) \notin Resting /\ Tail(t) \in Plans /\ t \in Transcribing
    BY <1>9, <2>1 DEF Plans, Resting, Transcribing
  <2>3. QED BY <2>1, <2>2
<1>10. CASE t = <<"flush", "vad_start">>
  <2>1. Tail(t) = <<"vad_start">> /\ Head(t) = "flush"
    BY <1>2, <1>10 DEF Steps
  <2>2. t \notin Resting /\ Tail(t) \notin Resting /\ Tail(t) \in Plans /\ Tail(t) \notin Transcribing
    BY <1>10, <2>1 DEF Plans, Resting, Transcribing
  <2>3. QED BY <2>1, <2>2
<1>11. CASE t = <<"flush", "speak">>
  <2>1. Tail(t) = <<"speak">> /\ Head(t) = "flush"
    BY <1>2, <1>11 DEF Steps
  <2>2. t \notin Resting /\ Tail(t) \notin Resting /\ Tail(t) \in Plans /\ Tail(t) \notin Transcribing
    BY <1>11, <2>1 DEF Plans, Resting, Transcribing
  <2>3. QED BY <2>1, <2>2
<1>12. CASE t = <<"dsp", "idle">>
  <2>1. Tail(t) = <<"idle">> /\ Head(t) = "dsp"
    BY <1>12
  <2>2. t \notin Resting /\ Tail(t) \notin Resting /\ Tail(t) \in Plans /\ Tail(t) \notin Transcribing
    BY <1>12, <2>1 DEF Plans, Resting, Transcribing
  <2>3. QED BY <2>1, <2>2
<1>13. CASE t = <<"flush", "dsp", "idle">>
  <2>1. Tail(t) = <<"dsp", "idle">> /\ Head(t) = "flush"
    BY <1>13
  <2>2. t \notin Resting /\ Tail(t) \notin Resting /\ Tail(t) \in Plans /\ Tail(t) \notin Transcribing
    BY <1>13, <2>1 DEF Plans, Resting, Transcribing
  <2>3. QED BY <2>1, <2>2
<1>14. QED BY <1>4, <1>5, <1>6, <1>7, <1>8, <1>9, <1>10, <1>11, <1>12, <1>13 DEF Plans, Resting, Transcribing

LEMMA PlansAreSteps == Plans \subseteq Seq(Steps)
BY DEF Plans, Resting, Transcribing, Steps

LEMMA AfterCancelFacts ==
  ASSUME NEW ev, Cancels(ev)
  PROVE  /\ AfterCancel[ev.kind] \in Plans /\ AfterCancel[ev.kind] \notin Resting
         /\ ev.kind \notin Inputs => AfterCancel[ev.kind] \notin Transcribing
<1>1. ev.kind \in {"VadStart", "VadEnd", "Interrupted", "SpeakText", "LlmCompleted"}
  BY DEF Cancels
<1>2. /\ AfterCancel["VadStart"] = <<"flush", "vad_start">>
      /\ AfterCancel["VadEnd"] = <<"flush", "transcribe">>
      /\ AfterCancel["Interrupted"] = <<"flush", "dsp", "idle">>
      /\ AfterCancel["SpeakText"] = <<"flush", "speak">>
      /\ AfterCancel["LlmCompleted"] = <<"flush", "dsp", "idle">>
  BY DEF AfterCancel
<1>3. \A t \in {<<"flush", "vad_start">>, <<"flush", "transcribe">>, <<"flush", "dsp", "idle">>, <<"flush", "speak">>} :
        t \in Plans /\ t \notin Resting
  BY DEF Plans, Resting, Transcribing
<1>4. ev.kind \notin Inputs => AfterCancel[ev.kind] = <<"flush", "dsp", "idle">>
  BY <1>1, <1>2 DEF Inputs
<1>5. <<"flush", "dsp", "idle">> \notin Transcribing
  BY DEF Transcribing
<1>6. QED BY <1>1, <1>2, <1>3, <1>4, <1>5

LEMMA OtherPlans ==
  /\ <<"dsp", "idle">> \in Plans /\ <<"dsp", "idle">> \notin Resting /\ <<"dsp", "idle">> \notin Transcribing
  /\ <<"dsp">> \in Plans /\ <<"dsp">> \in Resting /\ <<"dsp">> \notin Transcribing
  /\ <<>> \in Plans /\ <<>> \in Resting /\ <<>> \notin Transcribing
BY DEF Plans, Resting, Transcribing

LEMMA EventFacts ==
  /\ \A k \in Inputs \cup Reports, e \in Epochs, ok \in BOOLEAN :
       Event(k, e, ok) \in Events /\ Event(k, e, ok).kind = k /\ Event(k, e, ok).of = e /\ Event(k, e, ok).ok = ok
  /\ Reports \cap Inputs = {}
BY DEF Event, Events, Inputs, Reports

LEMMA EpochsAreNumbers == Epochs \subseteq Nat /\ 0 \in Epochs /\ \A e \in Epochs : e # Nobody
BY VoiceAssumption DEF Epochs

-----------------------------------------------------------------------------
(* Jobs and the outside: the epoch and the handler stay *)

(* A step that adds no event: nobody leaves a turn of the current epoch.       *)
LEMMA QuietKeeps ==
  ASSUME IInv, UNCHANGED <<events, state, epoch, todo>>, inputs' \in Nat, inputs <= inputs',
         stt' \subseteq stt, llm' \subseteq llm, spoke' = spoke,
         epoch \in stt => epoch \in stt',
         \A e \in Epochs : tts'[e] # "off" => tts[e] # "off",
         tts'[epoch] = "off" => tts[epoch] = "off",
         \A e \in Elems(speaker') : e <= epoch
  PROVE  BoundInv' /\ PastInv' /\ TurnInv' /\ FitInv' /\ todo' \in Plans
<1>1. TypeOK /\ BoundInv /\ PastInv /\ TurnInv /\ FitInv /\ todo \in Plans
  BY DEF IInv
<1>2. epoch \in Epochs /\ Count(events) \in Nat /\ inputs \in Nat /\ epoch \in Nat
  BY <1>1, CountIsNat, EpochsAreNumbers DEF TypeOK
<1>3. BoundInv'
  <2>1. CanFail' => CanFail
    BY DEF CanFail
  <2>2. QED BY <1>1, <1>2, <2>1 DEF BoundInv
<1>4. PastInv'
  BY <1>1 DEF PastInv
<1>5. TurnInv'
  BY <1>1, <1>2 DEF TurnInv, NoTurn, NoReport
<1>6. FitInv'
  BY <1>1, <1>2 DEF FitInv, Arriving
<1>7. QED BY <1>1, <1>3, <1>4, <1>5, <1>6

(* Who reports leaves his place in the turn for the report.                    *)
Reporting(ev) ==
  \/ ev.kind \in Inputs /\ ev.of = 0 /\ inputs' = inputs + 1 /\ UNCHANGED <<stt, tts, spoke>>
  \/ /\ ev.kind = "SttCompleted" /\ ev.of \in stt /\ stt' = stt \ {ev.of} /\ UNCHANGED <<inputs, tts, spoke>>
  \/ /\ ev.kind = "LlmCompleted" /\ ev.of \in llm /\ UNCHANGED <<inputs, stt, tts, spoke>>
  \/ /\ ev.kind = "TtsSpeaking" /\ UNCHANGED <<inputs, stt>> /\ spoke' = spoke \cup {ev.of}
     /\ tts[ev.of] # "off" /\ \A e \in Epochs : tts'[e] = "off" <=> tts[e] = "off"
  \/ /\ ev.kind = "TtsCompleted" /\ UNCHANGED <<inputs, stt, spoke>>
     /\ tts[ev.of] # "off" /\ \A e \in Epochs : tts'[e] = "off" <=> tts[e] = "off" \/ e = ev.of

LEMMA ReportKeeps ==
  ASSUME IInv, NEW ev \in Events, events' = Append(events, ev), UNCHANGED <<state, epoch, todo, speaker>>,
         llm' \subseteq llm, Reporting(ev)
  PROVE  BoundInv' /\ PastInv' /\ TurnInv' /\ FitInv' /\ todo' \in Plans
<1>1. TypeOK /\ BoundInv /\ PastInv /\ TurnInv /\ FitInv /\ todo \in Plans
  BY DEF IInv
<1>2. /\ epoch \in Epochs /\ Count(events) \in Nat /\ inputs \in Nat /\ epoch \in Nat /\ ev.of \in Epochs /\ ev.of \in Nat
      /\ events \in Seq(Events)
  <2>1. epoch \in Epochs /\ inputs \in Nat /\ events \in Seq(Events)
    BY <1>1 DEF TypeOK
  <2>2. ev.of \in Epochs
    BY DEF Events
  <2>3. QED BY <2>1, <2>2, CountIsNat, EpochsAreNumbers
<1>3. Elems(events)' = Elems(events) \cup {ev}
  BY <1>2, ElemsAppend
<1>4. /\ ev.kind \in Inputs => Count(events)' = Count(events) + 1
      /\ ev.kind \notin Inputs => Count(events)' = Count(events)
  BY <1>2, CountAppend
<1>5. /\ ev.kind \in Inputs => inputs' = inputs + 1 /\ UNCHANGED <<stt, tts, spoke>>
                               /\ ev.kind \notin {"SttCompleted", "LlmCompleted", "TtsSpeaking", "TtsCompleted"}
      /\ ev.kind \notin Inputs => inputs' = inputs
  BY DEF Reporting, Inputs
<1>6. stt' \subseteq stt /\ (\A e \in Epochs : tts'[e] # "off" => tts[e] # "off") /\ spoke \subseteq spoke'
  BY DEF Reporting
<1>7. BoundInv'
  <2>1. CanFail' => CanFail
    <3>1. ev.of = epoch /\ ev.kind \in {"SttCompleted", "LlmCompleted"} => epoch \in stt \/ epoch \in llm
      BY <1>5 DEF Reporting
    <3>2. QED BY <1>3, <1>6, <3>1 DEF CanFail
  <2>2. QED BY <1>1, <1>2, <1>4, <1>5, <2>1 DEF BoundInv
<1>8. PastInv'
  <2>1. ev.of <= epoch /\ (ev.kind = "TtsSpeaking" => ev.of \in spoke')
    BY <1>1, <1>2 DEF Reporting, PastInv, Inputs
  <2>2. \A e \in spoke' : e <= epoch
    BY <1>1, <2>1 DEF Reporting, PastInv
  <2>3. QED BY <1>1, <1>3, <1>6, <2>1, <2>2 DEF PastInv
<1>9. TurnInv'
  <2>1. CASE Final(ev, epoch)
    <3>1. /\ epoch \in stt \/ tts[epoch] # "off"
          /\ epoch \notin stt' /\ tts'[epoch] = "off"
      BY <1>1, <1>2, <1>5, <2>1 DEF Reporting, Final, TurnInv
    <3>2. NoReport /\ todo \in Resting
      BY <1>1, <3>1 DEF TurnInv, NoTurn
    <3>3. Unique(events', epoch)
      BY <1>1, <1>2, <3>2, UniqueAppend DEF TurnInv, NoReport
    <3>4. QED BY <3>1, <3>2, <3>3 DEF TurnInv, NoTurn
  <2>2. CASE ~Final(ev, epoch)
    <3>1. Unique(events', epoch)
      BY <1>1, <1>2, <2>2, UniqueAppend DEF TurnInv
    <3>2. NoReport' <=> NoReport
      BY <1>3, <2>2 DEF NoReport
    <3>3. NoTurn => NoTurn'
      BY <1>2, <1>6 DEF NoTurn
    <3>4. epoch \notin stt' \/ tts'[epoch] = "off"
      BY <1>1, <1>2, <1>6 DEF TurnInv
    <3>5. QED BY <1>1, <3>1, <3>2, <3>3, <3>4 DEF TurnInv
  <2>3. QED BY <2>1, <2>2
<1>10. FitInv'
  <2>2. epoch \in stt => epoch \in stt' \/ Arriving("SttCompleted")'
    BY <1>3 DEF Reporting, Arriving
  <2>3. tts[epoch] # "off" => tts'[epoch] # "off" \/ Arriving("TtsCompleted")'
    BY <1>2, <1>3 DEF Reporting, Arriving
  <2>4. tts[epoch] = "off" => tts'[epoch] = "off"
    BY <1>2, <1>6
  <2>5. Arriving("SttCompleted") => Arriving("SttCompleted")'
    BY <1>3 DEF Arriving
  <2>6. Arriving("TtsCompleted") => Arriving("TtsCompleted")'
    BY <1>3 DEF Arriving
  <2>7. QED BY <1>1, <1>6, <2>2, <2>3, <2>4, <2>5, <2>6 DEF FitInv
<1>11. QED BY <1>1, <1>7, <1>8, <1>9, <1>10

-----------------------------------------------------------------------------
(* The actor takes an event *)

LEMMA Taken ==
  ASSUME IInv, Receive
  PROVE  /\ events \in Seq(Events) /\ Head(events) \in Events /\ events' \in Seq(Events) /\ Len(events') <= Len(events)
         /\ Elems(events) = {Head(events)} \cup Elems(events)'
         /\ Count(events)' \in Nat
         /\ Head(events).kind \in Inputs => Count(events) = Count(events)' + 1
         /\ Head(events).kind \notin Inputs => Count(events) = Count(events)'
         /\ Unique(events, epoch) => /\ Unique(events', epoch)
                                     /\ Final(Head(events), epoch) => \A ev \in Elems(events)' : ~Final(ev, epoch)
<1>1. events \in Seq(Events) /\ events # <<>> /\ events' = Tail(events)
  BY DEF IInv, TypeOK, Receive
<1>2. Head(events) \in Events /\ events' \in Seq(Events) /\ Len(events') = Len(events) - 1 /\ Len(events) \in Nat
  BY <1>1, HeadTailProperties, LenProperties
<1>3. Elems(events) = {Head(events)} \cup Elems(events')
  BY <1>1, ElemsTail
<1>4. /\ Head(events).kind \in Inputs => Count(events) = Count(events') + 1
      /\ Head(events).kind \notin Inputs => Count(events) = Count(events')
  BY <1>1, CountTail
<1>5. Count(events') \in Nat
  BY <1>2, CountIsNat
<1>6. ASSUME Unique(events, epoch)
      PROVE  /\ Unique(events', epoch)
             /\ Final(Head(events), epoch) => \A ev \in Elems(events') : ~Final(ev, epoch)
  BY <1>1, <1>6, UniqueTail
<1>7. QED BY <1>1, <1>2, <1>3, <1>4, <1>5, <1>6

LEMMA BaseFacts ==
  ASSUME IInv
  PROVE  /\ TypeOK /\ BoundInv /\ PastInv /\ TurnInv /\ FitInv /\ todo \in Plans
         /\ epoch \in Epochs /\ epoch \in Nat /\ inputs \in 0..MaxInputs /\ inputs \in Nat /\ MaxInputs \in Nat
         /\ Count(events) \in Nat
<1>1. TypeOK /\ BoundInv /\ PastInv /\ TurnInv /\ FitInv /\ todo \in Plans
  BY DEF IInv
<1>2. epoch \in Epochs /\ inputs \in 0..MaxInputs /\ events \in Seq(Events)
  BY <1>1 DEF TypeOK
<1>3. MaxInputs \in Nat
  BY VoiceAssumption
<1>4. QED BY <1>1, <1>2, <1>3, CountIsNat, EpochsAreNumbers

(* A cancellation: the input it answers, or the failure that was still to come, *)
(* pays for the new epoch, to which nothing belongs yet.                        *)
LEMMA NewEpoch ==
  ASSUME IInv, Receive, CancelFor(Head(events))
  PROVE  BoundInv' /\ PastInv' /\ TurnInv' /\ FitInv' /\ todo' \in Plans /\ epoch' \in Epochs
<1> DEFINE ev == Head(events)
<1> HIDE DEF ev
<1>1. /\ TypeOK /\ BoundInv /\ PastInv /\ TurnInv /\ FitInv /\ epoch \in Nat /\ Count(events) \in Nat
      /\ inputs \in 0..MaxInputs /\ inputs \in Nat /\ MaxInputs \in Nat
  BY BaseFacts
<1>2. /\ Cancels(ev) /\ epoch' = epoch + 1 /\ todo' = AfterCancel[ev.kind]
      /\ UNCHANGED <<state, stt, llm, left, text, tts, spoke, aec, inputs, speaker>>
  BY DEF Receive, CancelFor, jobs, ev
<1>3. /\ todo' \in Plans /\ todo' \notin Resting
      /\ ev.kind \notin Inputs => todo' \notin Transcribing
  BY <1>2, AfterCancelFacts
<1>4. /\ Elems(events)' \subseteq Elems(events) /\ ev \in Elems(events)
      /\ Count(events)' \in Nat
      /\ ev.kind \in Inputs => Count(events) = Count(events)' + 1
      /\ ev.kind \notin Inputs => Count(events) = Count(events)'
  BY Taken DEF ev
<1>5. /\ \A e \in stt : e <= epoch
      /\ \A e \in llm : e <= epoch
      /\ \A e \in Epochs : tts[e] # "off" => e <= epoch
      /\ \A x \in Elems(events)' : x.of <= epoch
  BY <1>1, <1>4 DEF PastInv
<1>6. epoch' \notin stt /\ epoch' \notin llm /\ \A x \in Elems(events)' : x.of # epoch'
  BY <1>1, <1>2, <1>5
<1>7. BoundInv'
  <2>1. CASE ev.kind \in Inputs
    <3>1. epoch + 2 * Count(events) <= 2 * inputs
      BY <1>1 DEF BoundInv
    <3>2. epoch' + 2 * Count(events)' < 2 * inputs'
      BY <1>1, <1>2, <1>4, <2>1, <3>1
    <3>3. epoch' + 2 * Count(events)' <= 2 * inputs'
      BY <1>1, <1>2, <1>4, <2>1, <3>1
    <3>4. QED BY <3>2, <3>3 DEF BoundInv
  <2>2. CASE ev.kind \notin Inputs
    <3>1. ev.kind = "LlmCompleted" /\ ev.of = epoch
      BY <1>2, <2>2 DEF Cancels, Current, Inputs
    <3>2. CanFail
      BY <1>4, <3>1 DEF CanFail
    <3>3. epoch' + 2 * Count(events)' <= 2 * inputs'
      BY <1>1, <1>2, <1>4, <2>2, <3>2 DEF BoundInv
    <3>4. ~CanFail'
      BY <1>2, <1>3, <1>6, <2>2 DEF CanFail
    <3>5. QED BY <3>3, <3>4 DEF BoundInv
  <2>3. QED BY <2>1, <2>2
<1>8. epoch' \in Epochs
  <2>1. epoch' <= 2 * inputs'
    BY <1>1, <1>2, <1>4, <1>7 DEF BoundInv
  <2>2. QED BY <1>1, <1>2, <2>1 DEF Epochs
<1>9. PastInv'
  <2>1. \A e \in Epochs \cup stt \cup llm \cup spoke : e \in Nat
    BY <1>1, EpochsAreNumbers DEF TypeOK
  <2>2. \A e \in Elems(speaker) : e \in Nat
    <3>1. speaker \in Seq(Epochs)
      BY <1>1 DEF TypeOK
    <3>2. \A e \in Elems(speaker) : e \in Epochs
      BY <3>1, ElementOfSeq DEF Elems
    <3>3. QED BY <3>2, EpochsAreNumbers
  <2>3. \A x \in Elems(events) : x.of \in Nat
    <3>1. events \in Seq(Events)
      BY <1>1 DEF TypeOK
    <3>2. \A x \in Elems(events) : x \in Events
      BY <3>1, ElementOfSeq DEF Elems
    <3>3. QED BY <3>2, EpochsAreNumbers DEF Events
  <2>4. QED BY <1>1, <1>2, <1>4, <2>1, <2>2, <2>3 DEF PastInv
<1>10. TurnInv'
  <2>1. NoTurn'
    BY <1>1, <1>2, <1>5, <1>6, <1>8 DEF NoTurn
  <2>2. NoReport'
    BY <1>6 DEF NoReport, Final
  <2>3. Unique(events', epoch')
    BY <2>2 DEF NoReport, Unique, Elems
  <2>4. QED BY <2>1, <2>2, <2>3 DEF TurnInv, NoTurn
<1>11. FitInv'
  BY <1>3 DEF FitInv
<1>12. QED BY <1>3, <1>7, <1>8, <1>9, <1>10, <1>11

(* A transcription that is believed is the turn's only one, and starts reply   *)
(* and synthesis.                                                              *)
LEMMA TranscribedKeeps ==
  ASSUME IInv, Receive, Transcribed(Head(events))
  PROVE  BoundInv' /\ PastInv' /\ TurnInv' /\ FitInv' /\ todo' \in Plans
<1> DEFINE ev == Head(events)
<1> HIDE DEF ev
<1>1. /\ TypeOK /\ BoundInv /\ PastInv /\ TurnInv /\ FitInv /\ epoch \in Nat /\ epoch \in Epochs /\ Count(events) \in Nat
      /\ inputs \in Nat
  BY BaseFacts
<1>2. /\ ev.kind = "SttCompleted" /\ ev.of = epoch
      /\ state' = "LlmGenerating" /\ llm' = llm \cup {epoch} /\ tts' = [tts EXCEPT ![epoch] = "spawned"]
      /\ UNCHANGED <<epoch, todo, stt, text, spoke, aec, inputs, speaker>> /\ todo = <<>>
  BY DEF Receive, Transcribed, Current, ev
<1>3. /\ Elems(events)' \subseteq Elems(events) /\ ev \in Elems(events)
      /\ Count(events)' = Count(events)
      /\ Unique(events, epoch) => Unique(events', epoch) /\ \A x \in Elems(events)' : ~Final(x, epoch)
  BY <1>2, Taken DEF ev, Final, Inputs
<1>4. tts'[epoch] = "spawned" /\ \A e \in Epochs : e # epoch => tts'[e] = tts[e]
  BY <1>1, <1>2 DEF TypeOK
<1>5. CanFail
  BY <1>2, <1>3 DEF CanFail
<1>6. BoundInv'
  BY <1>1, <1>2, <1>3, <1>5 DEF BoundInv
<1>7. PastInv'
  BY <1>1, <1>2, <1>3, <1>4 DEF PastInv
<1>8. TurnInv'
  <2>1. NoTurn
    BY <1>1, <1>2, <1>3 DEF TurnInv, NoReport, Final
  <2>2. NoReport' /\ Unique(events', epoch)
    BY <1>1, <1>2, <1>3 DEF TurnInv, NoReport
  <2>3. QED BY <1>2, <2>1, <2>2, OtherPlans DEF TurnInv, NoTurn
<1>9. FitInv'
  BY <1>2, <1>4 DEF FitInv
<1>10. QED BY <1>2, <1>6, <1>7, <1>8, <1>9, OtherPlans

(* The report that ends the turn was its only one. *)
LEMMA TurnOverKeeps ==
  ASSUME IInv, Receive, TurnOver(Head(events))
  PROVE  BoundInv' /\ PastInv' /\ TurnInv' /\ FitInv' /\ todo' \in Plans
<1> DEFINE ev == Head(events)
<1> HIDE DEF ev
<1>1. /\ TypeOK /\ BoundInv /\ PastInv /\ TurnInv /\ FitInv /\ epoch \in Nat /\ epoch \in Epochs /\ Count(events) \in Nat
      /\ inputs \in Nat
  BY BaseFacts
<1>2. /\ ev.kind \in {"SttCompleted", "TtsCompleted"} /\ ev.of = epoch /\ todo' = <<"dsp", "idle">>
      /\ UNCHANGED <<state, epoch, stt, llm, left, text, tts, spoke, aec, inputs, speaker>>
  BY DEF Receive, TurnOver, Current, jobs, ev
<1>3. /\ Elems(events)' \subseteq Elems(events) /\ ev \in Elems(events)
      /\ Count(events)' = Count(events)
      /\ Unique(events, epoch) => Unique(events', epoch) /\ \A x \in Elems(events)' : ~Final(x, epoch)
  BY <1>2, Taken DEF ev, Final, Inputs
<1>4. BoundInv'
  <2>1. CanFail' => CanFail
    BY <1>2, <1>3, OtherPlans DEF CanFail
  <2>2. QED BY <1>1, <1>2, <1>3, <2>1 DEF BoundInv
<1>5. PastInv'
  BY <1>1, <1>2, <1>3 DEF PastInv
<1>6. TurnInv'
  <2>1. NoTurn
    BY <1>1, <1>2, <1>3 DEF TurnInv, NoReport, Final
  <2>2. NoReport' /\ Unique(events', epoch)
    BY <1>1, <1>2, <1>3 DEF TurnInv, NoReport
  <2>3. QED BY <1>2, <2>1, <2>2 DEF TurnInv, NoTurn
<1>7. FitInv'
  BY <1>2, OtherPlans DEF FitInv
<1>8. QED BY <1>2, <1>4, <1>5, <1>6, <1>7, OtherPlans

(* Speaking, ResetDsp, Ignored: the turn stays where it is. *)
LEMMA OtherEventKeeps ==
  ASSUME IInv, Receive, Speaking(Head(events)) \/ ResetDsp(Head(events)) \/ Ignored(Head(events))
  PROVE  BoundInv' /\ PastInv' /\ TurnInv' /\ FitInv' /\ todo' \in Plans
<1> DEFINE ev == Head(events)
<1> HIDE DEF ev
<1>1. /\ TypeOK /\ BoundInv /\ PastInv /\ TurnInv /\ FitInv /\ epoch \in Nat /\ epoch \in Epochs /\ Count(events) \in Nat
      /\ inputs \in Nat
  BY BaseFacts
<1>2. /\ UNCHANGED <<epoch, stt, llm, left, text, tts, spoke, aec, inputs, speaker>>
      /\ todo = <<>> /\ todo' \in {<<>>, <<"dsp">>}
      /\ ~Final(ev, epoch)
      /\ state' = state \/ (state = "LlmGenerating" /\ state' = "TtsSpeaking" /\ ev.kind = "TtsSpeaking" /\ ev.of = epoch)
  BY DEF Receive, Speaking, ResetDsp, Ignored, Current, Final, jobs, ev
<1>3. /\ Elems(events) = {ev} \cup Elems(events)'
      /\ Count(events)' <= Count(events) /\ Count(events)' \in Nat
      /\ Unique(events, epoch) => Unique(events', epoch)
  BY <1>1, Taken DEF ev
<1>4. todo' \in Resting /\ todo' \notin Transcribing /\ todo' \in Plans /\ todo \in Resting
  BY <1>2, OtherPlans
<1>5. BoundInv'
  <2>1. CanFail' => CanFail
    BY <1>2, <1>3, <1>4 DEF CanFail
  <2>2. QED BY <1>1, <1>2, <1>3, <2>1 DEF BoundInv
<1>6. PastInv'
  BY <1>1, <1>2, <1>3 DEF PastInv
<1>7. TurnInv'
  BY <1>1, <1>2, <1>3, <1>4 DEF TurnInv, NoTurn, NoReport
<1>8. FitInv'
  <2>1. ev.kind = "TtsSpeaking" /\ ev.of = epoch => epoch \in spoke
    BY <1>1, <1>3 DEF PastInv
  <2>2. /\ Arriving("SttCompleted") => Arriving("SttCompleted")'
        /\ Arriving("TtsCompleted") => Arriving("TtsCompleted")'
    BY <1>2, <1>3 DEF Arriving, Final
  <2>3. QED BY <1>1, <1>2, <1>4, <2>1, <2>2 DEF FitInv
<1>9. QED BY <1>4, <1>5, <1>6, <1>7, <1>8

-----------------------------------------------------------------------------
(* The steps of a handler *)

LEMMA HandlerKeeps ==
  ASSUME IInv, SendFlush \/ ResetTurnDsp \/ StartListening \/ StartTranscription \/ StartSpeech \/ BecomeIdle
  PROVE  BoundInv' /\ PastInv' /\ TurnInv' /\ FitInv' /\ todo' \in Plans
<1>1. /\ TypeOK /\ BoundInv /\ PastInv /\ TurnInv /\ FitInv /\ epoch \in Nat /\ epoch \in Epochs /\ Count(events) \in Nat
      /\ inputs \in Nat /\ todo \in Plans
  BY BaseFacts
<1>2. /\ todo # <<>> /\ todo' = Tail(todo) /\ UNCHANGED <<inputs, events, epoch, speaker, llm, spoke>>
      /\ \A e \in Epochs : e # epoch => tts'[e] = tts[e]
      /\ \/ Head(todo) \in {"flush", "dsp"} /\ UNCHANGED <<state, stt, tts>>
         \/ Head(todo) = "vad_start" /\ state' = "VadStart" /\ UNCHANGED <<stt, tts>>
         \/ Head(todo) = "transcribe" /\ state' = "SttProcessing" /\ stt' = stt \cup {epoch} /\ UNCHANGED tts
         \/ Head(todo) = "speak" /\ state' = "LlmGenerating" /\ tts'[epoch] = "spawned" /\ UNCHANGED stt
         \/ Head(todo) = "idle" /\ state' = "Idle" /\ UNCHANGED <<stt, tts>>
  BY <1>1 DEF SendFlush, ResetTurnDsp, StartListening, StartTranscription, StartSpeech, BecomeIdle, NextStep, jobs, TypeOK
<1>3. /\ todo' \in Plans
      /\ Head(todo) = "flush" => /\ todo \notin Resting /\ todo' \notin Resting
                                 /\ todo' \in Transcribing => todo \in Transcribing
      /\ Head(todo) = "dsp" => todo' \notin Transcribing /\ (todo' \in Resting <=> todo \in Resting)
      /\ Head(todo) \in {"vad_start", "transcribe", "speak", "idle"} =>
           todo \notin Resting /\ todo' \in Resting /\ todo' \notin Transcribing
      /\ Head(todo) = "transcribe" => todo \in Transcribing
  <2>1. /\ Tail(todo) \in Plans
        /\ Head(todo) = "flush" => /\ todo \notin Resting /\ Tail(todo) \notin Resting
                                   /\ Tail(todo) \in Transcribing => todo \in Transcribing
        /\ Head(todo) = "dsp" => Tail(todo) \notin Transcribing /\ (Tail(todo) \in Resting <=> todo \in Resting)
        /\ Head(todo) \in {"vad_start", "transcribe", "speak", "idle"} => todo \notin Resting /\ Tail(todo) = <<>>
        /\ Head(todo) = "transcribe" => todo \in Transcribing
    BY <1>1, <1>2, PlanFacts
  <2>2. todo' = Tail(todo)
    BY <1>2
  <2>3. QED BY <2>1, <2>2, OtherPlans
<1>4. BoundInv'
  <2>1. CanFail' => CanFail
    BY <1>2, <1>3 DEF CanFail
  <2>2. QED BY <1>1, <1>2, <2>1 DEF BoundInv
<1>5. PastInv'
  BY <1>1, <1>2 DEF PastInv
<1>6. TurnInv'
  BY <1>1, <1>2, <1>3 DEF TurnInv, NoTurn, NoReport
<1>7. FitInv'
  BY <1>1, <1>2, <1>3 DEF FitInv, TurnInv, NoTurn, Arriving
<1>8. QED BY <1>3, <1>4, <1>5, <1>6, <1>7

-----------------------------------------------------------------------------
(* Every step, for the turn *)

LEMMA EpochsInSeq == ASSUME NEW s \in Seq(Epochs) PROVE s \in Seq(Nat)
<1>1. Len(s) \in Nat /\ s \in [1..Len(s) -> Epochs]
  BY LenProperties
<1>2. s \in [1..Len(s) -> Nat]
  BY <1>1, EpochsAreNumbers
<1>3. QED BY <1>1, <1>2

LEMMA SpeakerPast == ASSUME IInv PROVE speaker \in Seq(Epochs) /\ \A e \in Elems(speaker) : e <= epoch /\ e \in Epochs
<1>1. speaker \in Seq(Epochs) /\ PastInv
  BY DEF IInv, TypeOK
<1>2. \A e \in Elems(speaker) : e \in Epochs
  BY <1>1, ElementOfSeq DEF Elems
<1>3. QED BY <1>1, <1>2 DEF PastInv

LEMMA InputKeeps ==
  ASSUME IInv, NEW k \in Kinds, Input(k)
  PROVE  BoundInv' /\ PastInv' /\ TurnInv' /\ FitInv' /\ todo' \in Plans
<1>1. inputs \in Nat /\ inputs' = inputs + 1 /\ UNCHANGED <<state, epoch, todo, stt, llm, left, text, tts, spoke, aec, speaker>>
  BY BaseFacts DEF Input, jobs
<1>2. CASE Room
  <2> DEFINE ev == Event(k, 0, TRUE)
  <2>1. ev \in Events /\ ev.kind \in Inputs /\ ev.of = 0
    <3>1. k \in Inputs /\ k \in Inputs \cup Reports /\ 0 \in Epochs /\ TRUE \in BOOLEAN
      BY EpochsAreNumbers, VoiceAssumption
    <3>2. QED BY <3>1, EventFacts
  <2>2. events' = Append(events, ev)
    BY <1>2 DEF Input
  <2> HIDE DEF ev
  <2>3. Reporting(ev)
    BY <1>1, <2>1 DEF Reporting
  <2>4. QED BY <1>1, <2>1, <2>2, <2>3, ReportKeeps
<1>3. CASE ~Room
  <2>1. events' = events
    BY <1>3 DEF Input
  <2>2. \A e \in Elems(speaker') : e <= epoch
    BY <1>1, SpeakerPast
  <2>3. QED BY <1>1, <2>1, <2>2, QuietKeeps
<1>4. QED BY <1>2, <1>3

LEMMA ReportsKeep ==
  ASSUME IInv, NEW e \in Epochs, SttEnds(e) \/ LlmEnds(e) \/ Announce(e) \/ TtsEnds(e)
  PROVE  BoundInv' /\ PastInv' /\ TurnInv' /\ FitInv' /\ todo' \in Plans
<1>1. tts \in [Epochs -> {"off", "spawned", "reading", "synth", "announce", "frame", "permit", "ending"}]
  BY DEF IInv, TypeOK
<1>2. PICK k \in Reports, ok \in BOOLEAN :
        /\ events' = Append(events, Event(k, e, ok)) /\ UNCHANGED <<inputs, state, epoch, todo, speaker>>
        /\ \/ k = "SttCompleted" /\ e \in stt /\ stt' = stt \ {e} /\ UNCHANGED <<llm, tts, spoke>>
           \/ k = "LlmCompleted" /\ e \in llm /\ llm' = llm \ {e} /\ UNCHANGED <<stt, tts, spoke>>
           \/ /\ k = "TtsSpeaking" /\ tts[e] = "announce" /\ tts' = [tts EXCEPT ![e] = "frame"]
              /\ spoke' = spoke \cup {e} /\ UNCHANGED <<stt, llm>>
           \/ k = "TtsCompleted" /\ tts[e] = "ending" /\ tts' = [tts EXCEPT ![e] = "off"] /\ UNCHANGED <<stt, llm, spoke>>
  <2>1. CASE SttEnds(e)
    BY <2>1, Zenon DEF SttEnds, Report, Reports
  <2>2. CASE LlmEnds(e)
    BY <2>2, Zenon DEF LlmEnds, Report, Reports
  <2>3. CASE Announce(e)
    BY <2>3 DEF Announce, Report, Reports
  <2>4. CASE TtsEnds(e)
    BY <2>4 DEF TtsEnds, Report, Reports
  <2>5. QED BY <2>1, <2>2, <2>3, <2>4
<1> DEFINE ev == Event(k, e, ok)
<1>3. ev \in Events /\ ev.kind = k /\ ev.of = e
  BY EventFacts
<1> HIDE DEF ev
<1>4. Reporting(ev)
  BY <1>1, <1>2, <1>3 DEF Reporting
<1>5. llm' \subseteq llm /\ events' = Append(events, ev)
  BY <1>2 DEF ev
<1>6. QED BY <1>2, <1>3, <1>4, <1>5, ReportKeeps

LEMMA JobsKeep ==
  ASSUME IInv, NEW e \in Epochs,
         \/ Aborted(e) \/ SayClause(e) \/ TtsStarts(e) \/ ReadClause(e) \/ Synthesize(e) \/ Reserve(e) \/ SendFrame(e)
  PROVE  BoundInv' /\ PastInv' /\ TurnInv' /\ FitInv' /\ todo' \in Plans
<1>1. /\ tts \in [Epochs -> {"off", "spawned", "reading", "synth", "announce", "frame", "permit", "ending"}]
      /\ inputs \in Nat /\ epoch \in Epochs /\ PastInv
  BY BaseFacts DEF TypeOK
<1>2. UNCHANGED <<inputs, events, state, epoch, todo, spoke>>
  BY DEF Aborted, SayClause, TtsStarts, ReadClause, Synthesize, Reserve, SendFrame, Silent, actor
<1>3. stt' \subseteq stt /\ llm' \subseteq llm /\ (epoch \in stt => epoch \in stt')
  BY DEF Aborted, SayClause, TtsStarts, ReadClause, Synthesize, Reserve, SendFrame, Silent
<1>4. (\A d \in Epochs : tts'[d] # "off" => tts[d] # "off") /\ (tts'[epoch] = "off" => tts[epoch] = "off")
  BY <1>1 DEF Aborted, SayClause, TtsStarts, ReadClause, Synthesize, Reserve, SendFrame, Silent
<1>5. \A d \in Elems(speaker') : d <= epoch
  <2>1. CASE SendFrame(e)
    <3>1. e <= epoch
      BY <1>1, <2>1 DEF SendFrame, PastInv
    <3>2. Elems(speaker') = Elems(speaker) \cup {e}
      BY <2>1, SpeakerPast, ElemsAppend DEF SendFrame
    <3>3. QED BY <3>1, <3>2, SpeakerPast
  <2>2. CASE ~SendFrame(e)
    <3>1. speaker' = speaker
      BY <2>2 DEF Aborted, SayClause, TtsStarts, ReadClause, Synthesize, Reserve
    <3>2. QED BY <3>1, SpeakerPast
  <2>3. QED BY <2>1, <2>2
<1>6. QED BY <1>1, <1>2, <1>3, <1>4, <1>5, QuietKeeps

LEMMA ForwarderKeeps ==
  ASSUME IInv, Forwarder
  PROVE  BoundInv' /\ PastInv' /\ TurnInv' /\ FitInv' /\ todo' \in Plans
<1>1. UNCHANGED <<inputs, events, state, epoch, todo, stt, llm, left, text, tts, spoke, aec>> /\ inputs \in Nat
  BY BaseFacts DEF Forwarder, ForwardFlush, PollControl, Sleep, ForwardFrame, actor, jobs
<1>2. \A d \in Elems(speaker') : d <= epoch
  <2>1. CASE speaker # <<>> /\ speaker' = Tail(speaker)
    <3>1. Elems(speaker') \subseteq Elems(speaker)
      BY <2>1, SpeakerPast, ElemsTail
    <3>2. QED BY <3>1, SpeakerPast
  <2>2. CASE speaker' = speaker
    BY <2>2, SpeakerPast
  <2>3. QED BY <2>1, <2>2 DEF Forwarder, ForwardFlush, PollControl, Sleep, ForwardFrame
<1>3. QED BY <1>1, <1>2, QuietKeeps

LEMMA NothingKeeps ==
  ASSUME IInv, UNCHANGED vars
  PROVE  BoundInv' /\ PastInv' /\ TurnInv' /\ FitInv' /\ todo' \in Plans
<1>1. UNCHANGED <<inputs, events, state, epoch, todo, stt, llm, left, text, tts, spoke, aec, speaker>> /\ inputs \in Nat
  BY BaseFacts DEF vars, actor, jobs
<1>2. QED BY <1>1, SpeakerPast, QuietKeeps

LEMMA TurnNext ==
  ASSUME IInv, [Next]_vars
  PROVE  BoundInv' /\ PastInv' /\ TurnInv' /\ FitInv' /\ todo' \in Plans /\ epoch' \in Epochs
<1>1. CASE Receive
  <2>1. CASE CancelFor(Head(events))
    BY <1>1, <2>1, NewEpoch
  <2>2. CASE ~CancelFor(Head(events))
    <3>1. epoch' = epoch
      BY <1>1, <2>2 DEF Receive, Transcribed, TurnOver, Speaking, ResetDsp, Ignored
    <3>2. BoundInv' /\ PastInv' /\ TurnInv' /\ FitInv' /\ todo' \in Plans
      BY <1>1, <2>2, TranscribedKeeps, TurnOverKeeps, OtherEventKeeps DEF Receive
    <3>3. QED BY <3>1, <3>2, BaseFacts
  <2>3. QED BY <2>1, <2>2
<1>2. CASE ~Receive
  <2>1. epoch' = epoch
    <3>1. CASE \E k \in Kinds : Input(k)
      BY <3>1 DEF Input
    <3>2. CASE Actor
      BY <1>2, <3>2 DEF Actor, SendFlush, ResetTurnDsp, StartListening, StartTranscription, StartSpeech, BecomeIdle, NextStep
    <3>3. CASE Forwarder
      BY <3>3 DEF Forwarder, ForwardFlush, PollControl, Sleep, ForwardFrame, actor
    <3>4. CASE Job
      BY <3>4 DEF Job, SttEnds, LlmEnds, Report, Tts, TtsStarts, ReadClause, Synthesize, Announce, Reserve, SendFrame,
                  TtsEnds, Silent, actor
    <3>5. CASE \E e \in Epochs : Aborted(e) \/ SayClause(e)
      BY <3>5 DEF Aborted, SayClause, actor
    <3>6. CASE UNCHANGED vars
      BY <3>6 DEF vars, actor
    <3>7. QED BY <3>1, <3>2, <3>3, <3>4, <3>5, <3>6 DEF Next
  <2>2. BoundInv' /\ PastInv' /\ TurnInv' /\ FitInv' /\ todo' \in Plans
    <3>1. CASE \E k \in Kinds : Input(k)
      BY <3>1, InputKeeps
    <3>2. CASE Actor
      BY <1>2, <3>2, HandlerKeeps DEF Actor
    <3>3. CASE Forwarder
      BY <3>3, ForwarderKeeps
    <3>4. CASE Job
      BY <3>4, ReportsKeep, JobsKeep DEF Job, Tts
    <3>5. CASE \E e \in Epochs : Aborted(e) \/ SayClause(e)
      BY <3>5, JobsKeep
    <3>6. CASE UNCHANGED vars
      BY <3>6, NothingKeeps
    <3>7. QED BY <3>1, <3>2, <3>3, <3>4, <3>5, <3>6 DEF Next
  <2>3. QED BY <2>1, <2>2, BaseFacts
<1>3. QED BY <1>1, <1>2

-----------------------------------------------------------------------------
(* The lock of the echo canceller and the order of the frames *)

LEMMA OrderFrame ==
  ASSUME OrderInv, UNCHANGED <<aec, speaker>>,
         \A e \in Epochs : tts'[e] \in {"announce", "frame", "permit"} => tts'[e] = tts[e]
  PROVE  OrderInv'
BY DEF OrderInv

LEMMA OrderNext == ASSUME IInv, [Next]_vars PROVE OrderInv'
<1>1. /\ tts \in [Epochs -> {"off", "spawned", "reading", "synth", "announce", "frame", "permit", "ending"}]
      /\ OrderInv /\ PastInv /\ epoch \in Epochs /\ aec \in Epochs \cup {Nobody}
  BY DEF IInv, TypeOK
<1>2. speaker \in Seq(Epochs) /\ \A f \in Elems(speaker) : f <= epoch /\ f \in Epochs
  BY SpeakerPast
<1>3. CASE \E k \in Kinds : Input(k)
  BY <1>1, <1>3, OrderFrame DEF Input, jobs
<1>4. CASE Actor
  <2>1. UNCHANGED <<aec, speaker>> /\ (tts' = tts \/ tts' = [tts EXCEPT ![epoch] = "spawned"])
    BY <1>4 DEF Actor, Receive, CancelFor, Transcribed, TurnOver, Speaking, ResetDsp, Ignored, SendFlush, ResetTurnDsp,
                StartListening, StartTranscription, StartSpeech, BecomeIdle, NextStep, jobs
  <2>2. QED BY <1>1, <2>1, OrderFrame
<1>5. CASE Forwarder
  <2>1. UNCHANGED <<tts, aec>>
    BY <1>5 DEF Forwarder, ForwardFlush, PollControl, Sleep, ForwardFrame, jobs
  <2>2. CASE speaker # <<>> /\ speaker' = Tail(speaker)
    <3>1. Elems(speaker') \subseteq Elems(speaker)
      BY <1>2, <2>2, ElemsTail
    <3>2. Sorted(speaker')
      <4>1. speaker \in Seq(Nat)
        BY <1>2, EpochsInSeq
      <4>2. QED BY <1>1, <2>2, <4>1, SortedTail DEF OrderInv
    <3>3. Len(speaker') < Len(speaker) /\ Len(speaker) \in Nat /\ Len(speaker') \in Nat /\ SpeakerCap \in Nat
      BY <1>2, <2>2, HeadTailProperties, LenProperties, VoiceAssumption
    <3>4. QED BY <1>1, <2>1, <3>1, <3>2, <3>3 DEF OrderInv
  <2>3. CASE speaker' = speaker
    BY <1>1, <2>1, <2>3, OrderFrame
  <2>4. QED BY <1>5, <2>2, <2>3 DEF Forwarder, ForwardFlush, PollControl, Sleep, ForwardFrame
<1>6. ASSUME NEW e \in Epochs, SendFrame(e) PROVE OrderInv'
  <2>1. tts[e] = "permit" /\ aec = e /\ e \in Nat
    BY <1>1, <1>6, EpochsAreNumbers DEF SendFrame, OrderInv
  <2>2. tts' = [tts EXCEPT ![e] = "reading"] /\ speaker' = Append(speaker, e)
    BY <1>6 DEF SendFrame
  <2>3. \A d \in Epochs : tts'[d] \notin {"announce", "frame", "permit"}
    BY <1>1, <2>1, <2>2 DEF OrderInv
  <2>4. Sorted(speaker')
    <3>1. speaker \in Seq(Nat)
      BY <1>2, EpochsInSeq
    <3>2. \A f \in Elems(speaker) : f <= e
      BY <1>1, <2>1 DEF OrderInv
    <3>3. QED BY <1>1, <2>1, <2>2, <3>1, <3>2, SortedAppend DEF OrderInv
  <2>5. QED BY <2>3, <2>4 DEF OrderInv
<1>7. ASSUME NEW e \in Epochs, Reserve(e) PROVE OrderInv'
  <2>1. tts[e] = "frame" /\ aec = e /\ speaker' = speaker
    BY <1>1, <1>7 DEF Reserve, OrderInv
  <2>2. CASE e = epoch /\ Len(speaker) < SpeakerCap /\ aec' = aec /\ tts' = [tts EXCEPT ![e] = "permit"]
    BY <1>1, <1>2, <2>1, <2>2 DEF OrderInv
  <2>3. CASE tts' = [tts EXCEPT ![e] = "ending"]
    <3>1. \A d \in Epochs : tts'[d] \notin {"announce", "frame", "permit"}
      BY <1>1, <2>1, <2>3 DEF OrderInv
    <3>2. QED BY <1>1, <2>1, <3>1 DEF OrderInv
  <2>4. QED BY <1>7, <2>2, <2>3 DEF Reserve
<1>8. ASSUME NEW e \in Epochs, Synthesize(e) PROVE OrderInv'
  <2>1. tts[e] = "synth" /\ speaker' = speaker
    BY <1>8 DEF Synthesize
  <2>2. CASE aec' = aec /\ (tts' = [tts EXCEPT ![e] = "reading"] \/ tts' = [tts EXCEPT ![e] = "ending"])
    BY <1>1, <2>1, <2>2, OrderFrame
  <2>3. CASE aec = Nobody /\ aec' = e /\ tts' = [tts EXCEPT ![e] = IF e \in spoke THEN "frame" ELSE "announce"]
    <3>1. \A d \in Epochs : tts[d] \notin {"announce", "frame", "permit"}
      BY <1>1, <2>3, EpochsAreNumbers DEF OrderInv
    <3>2. \A d \in Epochs : /\ d # e => tts'[d] = tts[d]
                            /\ d = e => tts'[d] \in {"frame", "announce"}
      BY <1>1, <2>3
    <3>3. QED BY <1>1, <2>1, <2>3, <3>1, <3>2 DEF OrderInv
  <2>4. QED BY <1>8, <2>2, <2>3 DEF Synthesize
<1>9. ASSUME NEW e \in Epochs, Announce(e) PROVE OrderInv'
  BY <1>1, <1>9 DEF Announce, Report, OrderInv
<1>10. ASSUME NEW e \in Epochs,
              SttEnds(e) \/ LlmEnds(e) \/ TtsEnds(e) \/ TtsStarts(e) \/ ReadClause(e) \/ Aborted(e) \/ SayClause(e)
       PROVE  OrderInv'
  <2>1. UNCHANGED <<aec, speaker>>
    BY <1>10 DEF SttEnds, LlmEnds, TtsEnds, TtsStarts, ReadClause, Aborted, SayClause, Report, Silent
  <2>2. \E s \in {"off", "reading", "synth", "ending"} : tts' = tts \/ tts' = [tts EXCEPT ![e] = s]
    BY <1>10 DEF SttEnds, LlmEnds, TtsEnds, TtsStarts, ReadClause, Aborted, SayClause, Report, Silent
  <2>3. QED BY <1>1, <2>1, <2>2, OrderFrame
<1>11. CASE UNCHANGED vars
  BY <1>1, <1>11, OrderFrame DEF vars, jobs
<1>12. QED BY <1>3, <1>4, <1>5, <1>6, <1>7, <1>8, <1>9, <1>10, <1>11 DEF Next, Job, Tts

-----------------------------------------------------------------------------
(* The forwarder's gate *)

LEMMA GateNext == ASSUME IInv, [Next]_vars PROVE GateInv'
<1>1. GateInv /\ gate \in Nat /\ flushed \in Nat /\ control \in Seq(Epochs)
  BY EpochsAreNumbers DEF IInv, TypeOK
<1>2. CASE ForwardFlush
  <2>1. Head(control) \in Nat
    BY <1>1, <1>2, HeadTailProperties, EpochsAreNumbers DEF ForwardFlush
  <2>2. QED BY <1>1, <1>2, <2>1 DEF ForwardFlush, GateInv
<1>3. CASE ForwardFrame
  BY <1>1, <1>3 DEF ForwardFrame, GateInv, Accepts
<1>4. CASE UNCHANGED <<gate, flushed, since>>
  BY <1>1, <1>4 DEF GateInv
<1>5. ForwardFlush \/ ForwardFrame \/ UNCHANGED <<gate, flushed, since>>
  <2>1. CASE Actor
    BY <2>1 DEF Actor, Receive, SendFlush, ResetTurnDsp, StartListening, StartTranscription, StartSpeech, BecomeIdle,
                NextStep, forwarder
  <2>2. CASE Job
    BY <2>2 DEF Job, SttEnds, LlmEnds, Report, Tts, TtsStarts, ReadClause, Synthesize, Announce, Reserve, SendFrame,
                TtsEnds, Silent, forwarder
  <2>3. QED BY <2>1, <2>2 DEF Next, Input, Forwarder, PollControl, Sleep, Aborted, SayClause, vars, forwarder
<1>6. QED BY <1>2, <1>3, <1>4, <1>5

-----------------------------------------------------------------------------
(* Types *)

LEMMA AppendWithin ==
  ASSUME NEW S, NEW s \in Seq(S), NEW x \in S, NEW cap \in Nat, Len(s) < cap
  PROVE  Append(s, x) \in Seq(S) /\ Len(Append(s, x)) <= cap
BY AppendProperties, LenProperties

LEMMA TailWithin ==
  ASSUME NEW S, NEW s \in Seq(S), s # <<>>, NEW cap \in Nat, Len(s) <= cap
  PROVE  Tail(s) \in Seq(S) /\ Len(Tail(s)) <= cap /\ Head(s) \in S
BY HeadTailProperties, LenProperties

LEMMA ChannelTypes ==
  ASSUME IInv, Next
  PROVE  /\ events' \in Seq(Events) /\ Len(events') <= EventCap
         /\ speaker' \in Seq(Epochs) /\ Len(speaker') <= SpeakerCap
         /\ control' \in Seq(Epochs) /\ Len(control') <= ControlCap
<1>1. /\ events \in Seq(Events) /\ Len(events) <= EventCap /\ EventCap \in Nat
      /\ speaker \in Seq(Epochs) /\ Len(speaker) <= SpeakerCap /\ SpeakerCap \in Nat
      /\ control \in Seq(Epochs) /\ Len(control) <= ControlCap /\ ControlCap \in Nat
      /\ epoch \in Epochs
  BY VoiceAssumption DEF IInv, TypeOK
<1>2. events' \in Seq(Events) /\ Len(events') <= EventCap
  <2>1. \/ events' = events
        \/ Room /\ \E k \in Inputs \cup Reports, e \in Epochs, ok \in BOOLEAN : events' = Append(events, Event(k, e, ok))
        \/ events # <<>> /\ events' = Tail(events)
    <3>1. ASSUME NEW k \in Kinds, Input(k)
          PROVE  events' = events \/ (Room /\ \E i \in Inputs : events' = Append(events, Event(i, 0, TRUE)))
      BY <3>1, VoiceAssumption DEF Input
    <3>2. CASE \E k \in Kinds : Input(k)
      BY <3>1, <3>2, EpochsAreNumbers
    <3>3. CASE Actor
      BY <3>3 DEF Actor, Receive, SendFlush, ResetTurnDsp, StartListening, StartTranscription, StartSpeech, BecomeIdle,
                  NextStep
    <3>4. CASE Forwarder
      BY <3>4 DEF Forwarder, ForwardFlush, PollControl, Sleep, ForwardFrame, actor
    <3>5. ASSUME NEW e \in Epochs, SttEnds(e) \/ LlmEnds(e) \/ Announce(e) \/ TtsEnds(e)
          PROVE  Room /\ \E k \in Reports, ok \in BOOLEAN : events' = Append(events, Event(k, e, ok))
      <4>1. CASE SttEnds(e)
        BY <4>1, Zenon DEF SttEnds, Report, Reports
      <4>2. CASE LlmEnds(e)
        BY <4>2, Zenon DEF LlmEnds, Report, Reports
      <4>3. CASE Announce(e)
        BY <4>3, Zenon DEF Announce, Report, Reports
      <4>4. CASE TtsEnds(e)
        BY <4>4, Zenon DEF TtsEnds, Report, Reports
      <4>5. QED BY <3>5, <4>1, <4>2, <4>3, <4>4
    <3>6. ASSUME NEW e \in Epochs,
                 TtsStarts(e) \/ ReadClause(e) \/ Synthesize(e) \/ Reserve(e) \/ SendFrame(e) \/ Aborted(e) \/ SayClause(e)
          PROVE  events' = events
      BY <3>6 DEF TtsStarts, ReadClause, Synthesize, Reserve, SendFrame, Silent, Aborted, SayClause, actor
    <3>7. QED BY <3>2, <3>3, <3>4, <3>5, <3>6 DEF Next, Job, Tts
  <2>2. CASE Room /\ \E k \in Inputs \cup Reports, e \in Epochs, ok \in BOOLEAN : events' = Append(events, Event(k, e, ok))
    BY <1>1, <2>2, EventFacts, AppendWithin DEF Room
  <2>3. CASE events # <<>> /\ events' = Tail(events)
    BY <1>1, <2>3, TailWithin
  <2>4. QED BY <1>1, <2>1, <2>2, <2>3
<1>3. speaker' \in Seq(Epochs) /\ Len(speaker') <= SpeakerCap
  <2>1. \/ speaker' = speaker
        \/ \E e \in Epochs : SendFrame(e)
        \/ speaker # <<>> /\ speaker' = Tail(speaker)
    <3>1. CASE Actor
      BY <3>1 DEF Actor, Receive, SendFlush, ResetTurnDsp, StartListening, StartTranscription, StartSpeech, BecomeIdle,
                  NextStep
    <3>2. CASE Job
      BY <3>2 DEF Job, SttEnds, LlmEnds, Report, Tts, TtsStarts, ReadClause, Synthesize, Announce, Reserve, TtsEnds, Silent
    <3>3. QED BY <3>1, <3>2 DEF Next, Input, Forwarder, ForwardFlush, PollControl, Sleep, ForwardFrame, Aborted, SayClause
  <2>2. ASSUME NEW e \in Epochs, SendFrame(e) PROVE speaker' \in Seq(Epochs) /\ Len(speaker') <= SpeakerCap
    <3>1. Len(speaker) < SpeakerCap /\ speaker' = Append(speaker, e)
      BY <2>2 DEF IInv, OrderInv, SendFrame
    <3>2. QED BY <1>1, <3>1, AppendWithin
  <2>3. CASE speaker # <<>> /\ speaker' = Tail(speaker)
    BY <1>1, <2>3, TailWithin
  <2>4. QED BY <1>1, <2>1, <2>2, <2>3
<1>4. control' \in Seq(Epochs) /\ Len(control') <= ControlCap
  <2>1. control' = control \/ SendFlush \/ (control # <<>> /\ control' = Tail(control))
    <3>1. CASE Actor
      BY <3>1 DEF Actor, Receive, ResetTurnDsp, StartListening, StartTranscription, StartSpeech, BecomeIdle
    <3>2. CASE Job
      BY <3>2 DEF Job, SttEnds, LlmEnds, Report, Tts, TtsStarts, ReadClause, Synthesize, Announce, Reserve, SendFrame,
                  TtsEnds, Silent
    <3>3. QED BY <3>1, <3>2 DEF Next, Input, Forwarder, ForwardFlush, PollControl, Sleep, ForwardFrame, Aborted, SayClause
  <2>2. CASE SendFlush
    BY <1>1, <2>2, AppendWithin DEF SendFlush
  <2>3. CASE control # <<>> /\ control' = Tail(control)
    BY <1>1, <2>3, TailWithin
  <2>4. QED BY <1>1, <2>1, <2>2, <2>3
<1>5. QED BY <1>2, <1>3, <1>4

LEMMA JobTypes ==
  ASSUME IInv, Next
  PROVE  /\ stt' \subseteq Epochs /\ llm' \subseteq Epochs /\ spoke' \subseteq Epochs /\ aec' \in Epochs \cup {Nobody}
         /\ left' \in [Epochs -> 0..MaxClauses] /\ text' \in [Epochs -> Nat]
         /\ tts' \in [Epochs -> {"off", "spawned", "reading", "synth", "announce", "frame", "permit", "ending"}]
<1>1. /\ stt \subseteq Epochs /\ llm \subseteq Epochs /\ spoke \subseteq Epochs /\ aec \in Epochs \cup {Nobody}
      /\ left \in [Epochs -> 0..MaxClauses] /\ text \in [Epochs -> Nat] /\ epoch \in Epochs /\ MaxClauses \in Nat
      /\ tts \in [Epochs -> {"off", "spawned", "reading", "synth", "announce", "frame", "permit", "ending"}]
  BY VoiceAssumption DEF IInv, TypeOK
<1>2. CASE Actor
  <2>1. /\ stt' = stt \/ stt' = stt \cup {epoch}
        /\ llm' = llm \/ llm' = llm \cup {epoch}
        /\ left' = left \/ left' = [left EXCEPT ![epoch] = MaxClauses]
        /\ text' = text \/ text' = [text EXCEPT ![epoch] = 1]
        /\ tts' = tts \/ tts' = [tts EXCEPT ![epoch] = "spawned"]
        /\ UNCHANGED <<spoke, aec>>
    BY <1>2 DEF Actor, Receive, CancelFor, Transcribed, TurnOver, Speaking, ResetDsp, Ignored, SendFlush, ResetTurnDsp,
                StartListening, StartTranscription, StartSpeech, BecomeIdle, NextStep, jobs
  <2>2. left' \in [Epochs -> 0..MaxClauses] /\ text' \in [Epochs -> Nat]
    BY <1>1, <2>1
  <2>3. QED BY <1>1, <2>1, <2>2
<1>3. ASSUME NEW e \in Epochs, SayClause(e)
      PROVE  /\ left' \in [Epochs -> 0..MaxClauses] /\ text' \in [Epochs -> Nat]
             /\ UNCHANGED <<stt, llm, spoke, aec, tts>>
  <2>1. left[e] \in 0..MaxClauses /\ text[e] \in Nat /\ left[e] > 0
    BY <1>1, <1>3 DEF SayClause
  <2>2. left[e] - 1 \in 0..MaxClauses /\ text[e] + 1 \in Nat
    BY <1>1, <2>1
  <2>3. left' = [left EXCEPT ![e] = left[e] - 1] /\ text' = [text EXCEPT ![e] = text[e] + 1]
    BY <1>3 DEF SayClause
  <2>4. QED BY <1>1, <1>3, <2>2, <2>3 DEF SayClause
<1>4. ASSUME NEW e \in Epochs, ReadClause(e)
      PROVE  /\ text' \in [Epochs -> Nat]
             /\ tts' \in [Epochs -> {"off", "spawned", "reading", "synth", "announce", "frame", "permit", "ending"}]
             /\ UNCHANGED <<stt, llm, spoke, aec, left>>
  <2>1. text' = text \/ (text[e] > 0 /\ text' = [text EXCEPT ![e] = text[e] - 1])
    BY <1>4 DEF ReadClause
  <2>2. text[e] > 0 => text[e] - 1 \in Nat
    BY <1>1
  <2>3. text' \in [Epochs -> Nat]
    BY <1>1, <2>1, <2>2
  <2>4. QED BY <1>1, <1>4, <2>3 DEF ReadClause, Silent
<1>5. ASSUME NEW e \in Epochs,
             \/ TtsStarts(e) \/ Synthesize(e) \/ Announce(e) \/ Reserve(e) \/ SendFrame(e) \/ TtsEnds(e)
             \/ SttEnds(e) \/ LlmEnds(e) \/ Aborted(e)
      PROVE  /\ stt' \subseteq stt /\ llm' \subseteq llm /\ spoke' \subseteq Epochs /\ aec' \in Epochs \cup {Nobody}
             /\ tts' \in [Epochs -> {"off", "spawned", "reading", "synth", "announce", "frame", "permit", "ending"}]
             /\ UNCHANGED <<left, text>>
  <2>1. stt' \subseteq stt /\ llm' \subseteq llm /\ UNCHANGED <<left, text>>
    BY <1>5 DEF TtsStarts, Synthesize, Announce, Reserve, SendFrame, TtsEnds, SttEnds, LlmEnds, Aborted, Report, Silent
  <2>2. spoke' \subseteq Epochs /\ aec' \in Epochs \cup {Nobody}
    BY <1>1, <1>5 DEF TtsStarts, Synthesize, Announce, Reserve, SendFrame, TtsEnds, SttEnds, LlmEnds, Aborted, Report, Silent
  <2>3. tts' \in [Epochs -> {"off", "spawned", "reading", "synth", "announce", "frame", "permit", "ending"}]
    BY <1>1, <1>5 DEF TtsStarts, Synthesize, Announce, Reserve, SendFrame, TtsEnds, SttEnds, LlmEnds, Aborted, Report, Silent
  <2>4. QED BY <2>1, <2>2, <2>3
<1>6. CASE Forwarder \/ \E k \in Kinds : Input(k)
  BY <1>1, <1>6 DEF Forwarder, ForwardFlush, PollControl, Sleep, ForwardFrame, Input, jobs
<1>7. QED BY <1>1, <1>2, <1>3, <1>4, <1>5, <1>6 DEF Next, Job, Tts

LEMMA PlainTypes ==
  ASSUME IInv, Next
  PROVE  /\ inputs' \in 0..MaxInputs /\ state' \in States /\ polled' \in BOOLEAN
         /\ gate' \in Epochs /\ flushed' \in Epochs /\ since' \subseteq Epochs
<1>1. /\ inputs \in 0..MaxInputs /\ state \in States /\ polled \in BOOLEAN /\ MaxInputs \in Nat
      /\ gate \in Epochs /\ flushed \in Epochs /\ since \subseteq Epochs
      /\ control \in Seq(Epochs) /\ speaker \in Seq(Epochs)
  BY VoiceAssumption DEF IInv, TypeOK
<1>2. CASE \E k \in Kinds : Input(k)
  BY <1>1, <1>2 DEF Input, forwarder
<1>3. CASE Actor
  BY <1>1, <1>3 DEF Actor, Receive, CancelFor, Transcribed, TurnOver, Speaking, ResetDsp, Ignored, SendFlush, ResetTurnDsp,
                    StartListening, StartTranscription, StartSpeech, BecomeIdle, NextStep, forwarder, States
<1>4. CASE Forwarder
  <2>1. /\ control # <<>> => Head(control) \in Epochs
        /\ speaker # <<>> => Head(speaker) \in Epochs
    BY <1>1, HeadTailProperties
  <2>2. UNCHANGED <<inputs, state>>
    BY <1>4 DEF Forwarder, ForwardFlush, PollControl, Sleep, ForwardFrame, actor
  <2>3. QED BY <1>1, <1>4, <2>1, <2>2 DEF Forwarder, ForwardFlush, PollControl, Sleep, ForwardFrame
<1>5. CASE Job
  BY <1>1, <1>5 DEF Job, SttEnds, LlmEnds, Report, Tts, TtsStarts, ReadClause, Synthesize, Announce, Reserve, SendFrame,
                    TtsEnds, Silent, actor, forwarder
<1>6. CASE \E e \in Epochs : Aborted(e) \/ SayClause(e)
  BY <1>1, <1>6 DEF Aborted, SayClause, actor, forwarder
<1>7. QED BY <1>2, <1>3, <1>4, <1>5, <1>6 DEF Next

LEMMA TypeNext == ASSUME IInv, [Next]_vars PROVE TypeOK'
<1>1. epoch' \in Epochs /\ todo' \in Seq(Steps)
  BY TurnNext, PlansAreSteps
<1>2. CASE Next
  BY <1>1, <1>2, ChannelTypes, JobTypes, PlainTypes DEF TypeOK
<1>3. CASE UNCHANGED vars
  BY <1>3 DEF IInv, TypeOK, vars, actor, jobs, forwarder
<1>4. QED BY <1>2, <1>3

-----------------------------------------------------------------------------
(* The invariant *)

LEMMA InitInv == Init => IInv
<1> SUFFICES ASSUME Init PROVE IInv
  OBVIOUS
<1>1. 0 \in Epochs /\ 0 \in 0..MaxInputs /\ 0 \in 0..MaxClauses /\ Epochs \subseteq Nat
  BY EpochsAreNumbers, VoiceAssumption
<1>2. \A S : <<>> \in Seq(S)
  BY EmptySeq
<1>3. Len(<<>>) = 0
  OBVIOUS
<1>4. Elems(<<>>) = {} /\ Sorted(<<>>) /\ Unique(<<>>, 0)
  BY <1>3 DEF Elems, Sorted, Unique
<1>5. Count(<<>>) = 0
  <2>1. {i \in 1..Len(<<>>) : <<>>[i].kind \in Inputs} = {}
    BY <1>3
  <2>2. QED BY <2>1, FS_EmptySet DEF Count
<1>6. TypeOK
  BY <1>1, <1>2, <1>3, VoiceAssumption DEF Init, TypeOK, States
<1>7. BoundInv
  <2>1. ~CanFail
    BY <1>4, OtherPlans DEF Init, CanFail
  <2>2. QED BY <1>5, <2>1 DEF Init, BoundInv
<1>8. PastInv
  BY <1>4 DEF Init, PastInv
<1>9. TurnInv
  BY <1>1, <1>4, OtherPlans DEF Init, TurnInv, NoTurn, NoReport
<1>10. FitInv
  BY <1>1 DEF Init, FitInv
<1>11. OrderInv
  BY <1>4 DEF Init, OrderInv
<1>12. GateInv
  BY DEF Init, GateInv
<1>13. QED BY <1>6, <1>7, <1>8, <1>9, <1>10, <1>11, <1>12, OtherPlans DEF IInv, Init

LEMMA Inductive == Spec => []IInv
<1>1. IInv /\ [Next]_vars => IInv'
  BY TypeNext, TurnNext, OrderNext, GateNext DEF IInv
<1>2. QED BY InitInv, <1>1, PTL DEF Spec

-----------------------------------------------------------------------------
(* What the runs check, for every value of the constants *)

(* Types and the capacities of the channels; in particular an input costs no    *)
(* more than two epochs, and a frame that was promised a place has one.         *)
THEOREM TypeCorrect == Spec => []TypeOK
<1>1. IInv => TypeOK
  BY DEF IInv
<1>2. QED BY <1>1, Inductive, PTL

(* After a flush the client hears nothing of a turn before it, whatever frames   *)
(* were on their way and in whatever order the forwarder polls.                  *)
THEOREM NothingStale == Spec => []NoStaleAudio
<1>1. ASSUME IInv PROVE NoStaleAudio
  <2>1. TypeOK /\ GateInv
    BY <1>1 DEF IInv
  <2>2. gate \in Epochs /\ flushed \in Epochs /\ since \subseteq Epochs
    BY <2>1 DEF TypeOK
  <2>3. gate \in Nat /\ flushed \in Nat /\ since \subseteq Nat
    BY <2>2, EpochsAreNumbers
  <2>4. QED BY <2>1, <2>3 DEF NoStaleAudio, GateInv
<1>2. QED BY <1>1, Inductive, PTL

(* The frames of two turns never mix in the speaker channel.                     *)
THEOREM Ordered == Spec => []TurnsInOrder
<1>1. IInv => TurnsInOrder
  BY DEF IInv, OrderInv, Sorted, Elems, TurnsInOrder
<1>2. QED BY <1>1, Inductive, PTL

(* Between two events the state tells the truth of the current turn: what it     *)
(* waits for runs or has reported, and nothing runs behind its back.             *)
THEOREM StateFits == Spec => []StateFitsTheTurn
<1>1. ASSUME IInv PROVE StateFitsTheTurn
  <2>1. TypeOK /\ FitInv
    BY <1>1 DEF IInv
  <2>2. \A k \in {"SttCompleted", "TtsCompleted"} : Arriving(k) <=> Coming(k)
    BY DEF Arriving, Coming, Elems
  <2>3. QED BY <2>1, <2>2, OtherPlans DEF StateFitsTheTurn, FitInv
<1>2. QED BY <1>1, Inductive, PTL
=====
