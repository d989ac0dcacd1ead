-------------------------------- MODULE TtlCacheProofs --------------------------------
(***************************************************************************)
(* Proofs about TtlCache, for every set of calls and keys, every limit and *)
(* every TTL: the inductive invariant, and with it that reads never go     *)
(* back and that writes become visible; then the limits of the cache.      *)
(* Each kind of step has a lemma.                                          *)
(***************************************************************************)
EXTENDS TtlCache, FiniteSetTheorems, WellFoundedInduction, TLAPS

LEMMA InitInv == Init => IInv
<1> SUFFICES ASSUME Init PROVE IInv
  OBVIOUS
<1> USE LimitsAssumption, BoundsAssumption, KeysAssumption DEF Init
<1>1. TypeOK
  BY DEF TypeOK
<1>2. MonotonicReads /\ WritesBecomeVisible
  BY DEF MonotonicReads, WritesBecomeVisible
<1>3. PendingSound /\ Waiters
  BY DEF PendingSound, Waiters, Owns
<1>4. Latest
  BY DEF Latest, Known, Reads, Answered
<1>5. Dated
  BY DEF Dated
<1> QED
  BY <1>1, <1>2, <1>3, <1>4, <1>5 DEF IInv

LEMMA StutterInv == ASSUME IInv, UNCHANGED vars PROVE IInv'
BY DEF IInv, TypeOK, MonotonicReads, WritesBecomeVisible, PendingSound, Waiters, Latest, Dated,
       Owns, Known, Reads, Answered, vars, cache, calls

-----------------------------------------------------------------------------
(* The lookup *)

\* An idle call has no load, and nobody awaits it.
LEMMA IdleFacts ==
  ASSUME IInv, NEW c \in Call, pc[c] = "idle"
  PROVE  /\ key[c] \in Key /\ load[c] = "none" /\ reply[c] = "none"
         /\ \A k \in Key : pending[k] # c
         /\ \A d \in Call : pc[d] = "waiting" => awaits[d] # c
BY NamesAssumption DEF IInv, TypeOK, Waiters, PendingSound, Owns

\* What a call has to beat is a value that some caller was answered for its key.
LEMMA FloorFacts ==
  ASSUME IInv, NEW c \in Call, Begin(c)
  PROVE  \E v \in 0..MaxVersion :
           /\ floor' = [floor EXCEPT ![c] = v]
           /\ v <= version
           /\ v = 0 \/ \E d \in Answered(key[c]) : v = got[d]
<1>1. PICK v \in {0} \cup {got[d] : d \in Answered(key[c])} : floor' = [floor EXCEPT ![c] = v]
  BY DEF Begin
<1>2. v = 0 \/ \E d \in Answered(key[c]) : v = got[d]
  BY <1>1
<1>3. v \in 0..MaxVersion /\ v <= version
  BY <1>2, BoundsAssumption DEF IInv, TypeOK, Latest, Answered
<1> QED
  BY <1>1, <1>2, <1>3

\* A call that finds nothing keeps what is known of the others.
LEMMA AbsentFacts ==
  ASSUME IInv, NEW c \in Call, Absent(c)
  PROVE  /\ pc[c] = "idle"
         /\ entry' \in [Key -> Entry \cup {None}] /\ entry'[key[c]] = None
         /\ \A k \in Key : entry'[k] \in {entry[k], None}
         /\ began' = [began EXCEPT ![c] = clock]
         /\ began' \in [Call -> 0..MaxTime] /\ floor' \in [Call -> 0..MaxVersion]
         /\ UNCHANGED <<version, clock, versionAt, used, uses, value, key, got, took>>
<1>1. PICK v \in 0..MaxVersion : floor' = [floor EXCEPT ![c] = v]
  BY FloorFacts DEF Absent
<1> QED
  BY <1>1, IdleFacts DEF Absent, Begin, IInv, TypeOK

LEMMA HitInv == ASSUME IInv, NEW c \in Call, Hit(c) PROVE IInv'
<1> DEFINE k == key[c]
           e == entry[k]
<1>1. /\ k \in Key /\ load[c] = "none" /\ reply[c] = "none" /\ pc[c] = "idle"
      /\ \A d \in Call : pc[d] = "waiting" => awaits[d] # c
      /\ \A j \in Key : pending[j] # c
  BY IdleFacts DEF Hit, Begin
<1>2. PICK v \in 0..MaxVersion :
        /\ floor' = [floor EXCEPT ![c] = v] /\ v <= version
        /\ v = 0 \/ \E d \in Answered(k) : v = got[d]
  BY FloorFacts DEF Hit
<1>3. /\ e # None /\ e.expiresAt > clock
      /\ e.value \in 0..MaxVersion /\ e.took \in Nat /\ e.expiresAt \in Nat
  <2>1. e \in Entry
    BY <1>1 DEF Hit, Fresh, IInv, TypeOK
  <2> QED
    BY <2>1 DEF Hit, Fresh, Entry
<1>4. v <= e.value
  BY <1>1, <1>2, <1>3, NamesAssumption DEF Hit, Fresh, IInv, Latest, Known, TypeOK
<1>5. /\ pc' = [pc EXCEPT ![c] = "done"] /\ reply' = [reply EXCEPT ![c] = "value"]
      /\ got' = [got EXCEPT ![c] = e.value] /\ took' = [took EXCEPT ![c] = e.took]
      /\ began' = [began EXCEPT ![c] = clock]
      /\ used' = [used EXCEPT ![k] = uses + 1] /\ uses' = uses + 1
      /\ UNCHANGED <<version, clock, versionAt, entry, pending, load, value, key, awaits>>
  BY DEF Hit, Begin, AnswerValue, Answer, Used
<1>6. TypeOK'
  BY <1>1, <1>2, <1>3, <1>5, SMTT(30) DEF IInv, TypeOK
<1>7. MonotonicReads'
  BY <1>2, <1>3, <1>4, <1>5 DEF IInv, TypeOK, MonotonicReads
<1>8. \A t \in 0..MaxTime : t <= clock - TTL - e.took => versionAt[t] <= e.value
  <2> SUFFICES ASSUME NEW t \in 0..MaxTime, t <= clock - TTL - e.took
               PROVE  versionAt[t] <= e.value
    OBVIOUS
  <2>1. clock \in Nat /\ TTL \in Nat /\ t \in Nat
    BY LimitsAssumption, BoundsAssumption DEF IInv, TypeOK
  <2>2. t <= e.expiresAt - TTL - e.took
    BY <1>3, <2>1
  <2> QED
    BY <1>1, <1>3, <2>2 DEF IInv, Dated
<1>9. WritesBecomeVisible'
  BY <1>3, <1>5, <1>8 DEF IInv, TypeOK, WritesBecomeVisible
<1>10. PendingSound' /\ Waiters'
  <2>1. \A d \in Call : Owns(d)' <=> Owns(d)
    BY <1>1, <1>5 DEF IInv, TypeOK, Owns
  <2>2. PendingSound'
    BY <1>1, <1>5, <2>1, NamesAssumption, SMTT(30) DEF IInv, TypeOK, PendingSound
  <2>3. Waiters'
    BY <1>1, <1>5 DEF IInv, TypeOK, Waiters
  <2> QED
    BY <2>2, <2>3
<1>11. Latest'
  <2>1. pending[k] = None /\ entry[k] # None
    BY <1>1, NamesAssumption DEF Hit, Fresh, IInv, PendingSound
  <2>2. e.value <= version
    BY <1>1, <2>1 DEF IInv, Latest
  <2>3. \A j \in Key : Reads(j)' = Reads(j)
    BY <1>5 DEF Reads
  <2>4. \A j \in Key : \A d \in Answered(j)' :
          (d \in Answered(j) /\ got'[d] = got[d]) \/ (j = k /\ got'[d] = e.value)
    BY <1>1, <1>5 DEF Answered, IInv, TypeOK
  <2>5. \A j \in Key : \A w \in Known(j)' : w \in Known(j) \/ (j = k /\ w = e.value)
    BY <1>5, <2>3, <2>4 DEF Known
  <2>6. \A j \in Key : \A w \in Known(j)' :
          /\ (entry'[j] # None => w <= entry'[j].value)
          /\ (pending'[j] # None /\ load'[pending'[j]] = "read" => w <= value'[pending'[j]])
    BY <1>3, <1>5, <2>1, <2>5 DEF IInv, Latest
  <2>7. \A d \in Call : value'[d] <= version' /\ got'[d] <= version' /\ floor'[d] <= version'
    BY <1>2, <1>5, <2>2 DEF IInv, TypeOK, Latest
  <2>8. \A d \in Call : (pc'[d] = "waiting" /\ load'[awaits'[d]] = "read") =>
          floor'[d] <= value'[awaits'[d]]
    BY <1>1, <1>2, <1>5 DEF IInv, TypeOK, Latest
  <2> QED
    BY <1>5, <2>6, <2>7, <2>8 DEF IInv, Latest
<1>12. Dated'
  BY <1>1, <1>5, SMTT(30) DEF IInv, TypeOK, Dated
<1> QED
  BY <1>6, <1>7, <1>9, <1>10, <1>11, <1>12 DEF IInv

\* Whatever follows a failed lookup, no value changes hands.
LEMMA AbsentKeeps ==
  ASSUME IInv, TypeOK', NEW c \in Call, Absent(c),
         \A d \in Call \ {c} : load'[d] = load[d] /\ reply'[d] = reply[d],
         load'[c] # "read", reply'[c] # "value",
         \A j \in Key : pending'[j] \in {pending[j], c}
  PROVE  /\ MonotonicReads' /\ WritesBecomeVisible' /\ Dated'
         /\ \A j \in Key : \A w \in Known(j)' :
              /\ (entry'[j] # None => w <= entry'[j].value)
              /\ (pending'[j] # None /\ load'[pending'[j]] = "read" => w <= value'[pending'[j]])
         /\ \A d \in Call : value'[d] <= version' /\ got'[d] <= version' /\ floor'[d] <= version'
         /\ \A j \in Key : entry'[j] # None => entry'[j].value <= version'
<1>1. /\ pc[c] = "idle" /\ load[c] = "none" /\ reply[c] = "none" /\ key[c] \in Key
      /\ \A j \in Key : pending[j] # c
  BY IdleFacts, AbsentFacts
<1>2. PICK v \in 0..MaxVersion : floor' = [floor EXCEPT ![c] = v] /\ v <= version
  BY FloorFacts DEF Absent
<1>3. /\ began' = [began EXCEPT ![c] = clock]
      /\ \A j \in Key : entry'[j] \in {entry[j], None}
      /\ UNCHANGED <<version, clock, versionAt, value, key, got, took>>
  BY AbsentFacts
<1>4. MonotonicReads'
  BY <1>2, <1>3 DEF IInv, TypeOK, MonotonicReads
<1>5. WritesBecomeVisible'
  BY <1>3 DEF IInv, TypeOK, WritesBecomeVisible
<1>6. Dated'
  <2>1. \A d \in Call : began'[d] <= clock'
    BY <1>3, BoundsAssumption DEF IInv, TypeOK, Dated
  <2>2. \A d \in Call, t \in 0..MaxTime :
          (load'[d] = "read" /\ t <= began'[d]) => versionAt'[t] <= value'[d]
    BY <1>3 DEF IInv, TypeOK, Dated
  <2>3. \A j \in Key : entry'[j] # None => entry'[j] = entry[j]
    BY <1>3
  <2> QED
    BY <1>3, <2>1, <2>2, <2>3 DEF IInv, Dated
<1>7. \A j \in Key : Known(j)' = Known(j)
  <2>1. \A j \in Key : Reads(j)' = Reads(j)
    BY <1>1, <1>3 DEF Reads
  <2>2. \A j \in Key : Answered(j)' = Answered(j)
    BY <1>1, <1>3 DEF Answered
  <2> QED
    BY <1>3, <2>1, <2>2 DEF Known
<1>8. \A j \in Key : \A w \in Known(j)' :
        /\ (entry'[j] # None => w <= entry'[j].value)
        /\ (pending'[j] # None /\ load'[pending'[j]] = "read" => w <= value'[pending'[j]])
  <2>1. \A j \in Key : entry'[j] # None => entry'[j] = entry[j]
    BY <1>3
  <2>2. \A j \in Key : (pending'[j] # None /\ load'[pending'[j]] = "read") =>
          pending'[j] = pending[j] /\ load[pending[j]] = "read"
    <3> SUFFICES ASSUME NEW j \in Key, pending'[j] # None, load'[pending'[j]] = "read"
                 PROVE  pending'[j] = pending[j] /\ load[pending[j]] = "read"
      OBVIOUS
    <3>1. pending'[j] = pending[j]
      OBVIOUS
    <3>2. pending[j] \in Call \ {c}
      BY <1>1, <3>1 DEF IInv, TypeOK
    <3> QED
      BY <3>1, <3>2
  <2> QED
    BY <1>3, <1>7, <2>1, <2>2 DEF IInv, Latest
<1>9. \A d \in Call : value'[d] <= version' /\ got'[d] <= version' /\ floor'[d] <= version'
  BY <1>2, <1>3 DEF IInv, TypeOK, Latest
<1>10. \A j \in Key : entry'[j] # None => entry'[j].value <= version'
  BY <1>3 DEF IInv, Latest
<1> QED
  BY <1>4, <1>5, <1>6, <1>8, <1>9, <1>10

\* A step that leaves pending alone keeps PendingSound.
LEMMA PendingKeeps ==
  ASSUME IInv, pending' = pending, key' = key,
         \A d \in Call : Owns(d)' <=> Owns(d),
         \A d \in Call : load[d] # "none" => load'[d] # "none",
         \A d \in Call : load'[d] = "running" => load[d] = "running",
         \A j \in Key : entry'[j] = entry[j] \/ entry'[j] = None
  PROVE  PendingSound'
<1>1. ASSUME NEW j \in Key, NEW p \in Call, pending[j] = p
      PROVE  Owns(p)' /\ key[p] = j /\ load'[p] # "none" /\ entry'[j] = None
  BY <1>1, NamesAssumption DEF IInv, PendingSound
<1>2. \A j \in Key : pending[j] # None => pending[j] \in Call
  BY DEF IInv, TypeOK
<1>3. \A d \in Call : (Owns(d)' \/ load'[d] = "running") => pending[key[d]] = d
  BY DEF IInv, PendingSound
<1> QED
  BY <1>1, <1>2, <1>3 DEF PendingSound, Owns

LEMMA CoalesceInv == ASSUME IInv, NEW c \in Call, Coalesce(c) PROVE IInv'
<1> DEFINE k == key[c]
           p == pending[k]
<1>1. /\ k \in Key /\ pc[c] = "idle" /\ load[c] = "none" /\ reply[c] = "none"
      /\ \A j \in Key : pending[j] # c
      /\ \A d \in Call : pc[d] = "waiting" => awaits[d] # c
  BY IdleFacts, AbsentFacts DEF Coalesce
<1>2. /\ entry' \in [Key -> Entry \cup {None}]
      /\ \A j \in Key : entry'[j] \in {entry[j], None}
      /\ began' \in [Call -> 0..MaxTime] /\ floor' \in [Call -> 0..MaxVersion]
      /\ UNCHANGED <<version, clock, versionAt, used, uses, value, key, got, took>>
  BY AbsentFacts DEF Coalesce
<1>3. /\ p # None /\ awaits' = [awaits EXCEPT ![c] = p]
      /\ pc' = [pc EXCEPT ![c] = "waiting"]
      /\ UNCHANGED <<pending, load, reply>>
  BY DEF Coalesce, Shared
<1>4. p \in Call /\ p # c /\ key[p] = k /\ load[p] # "none"
  BY <1>1, <1>3 DEF IInv, TypeOK, PendingSound
<1>5. TypeOK'
  BY <1>2, <1>3, <1>4 DEF IInv, TypeOK
<1>6. PendingSound'
  <2>1. \A d \in Call : Owns(d)' <=> Owns(d)
    BY <1>1, <1>3, <1>4 DEF IInv, TypeOK, Owns
  <2> QED
    BY <1>2, <1>3, <2>1, PendingKeeps
<1>7. Waiters'
  BY <1>1, <1>2, <1>3, <1>4 DEF IInv, TypeOK, Waiters
<1>8. \A d \in Call : (pc'[d] = "waiting" /\ load'[awaits'[d]] = "read") =>
        floor'[d] <= value'[awaits'[d]]
  <2>1. PICK v \in 0..MaxVersion :
          /\ floor' = [floor EXCEPT ![c] = v]
          /\ v = 0 \/ \E d \in Answered(k) : v = got[d]
    BY FloorFacts DEF Coalesce, Absent
  <2>2. load[p] = "read" => v <= value[p]
    BY <1>1, <1>3, <1>4, <2>1 DEF IInv, TypeOK, Latest, Known
  <2> QED
    BY <1>2, <1>3, <2>1, <2>2 DEF IInv, TypeOK, Latest
<1>9. Absent(c)
  BY DEF Coalesce
<1> QED
  BY <1>1, <1>3, <1>5, <1>6, <1>7, <1>8, <1>9, AbsentKeeps DEF IInv, Latest

LEMMA SaturatedInv == ASSUME IInv, NEW c \in Call, Saturated(c) PROVE IInv'
<1>1. /\ key[c] \in Key /\ pc[c] = "idle" /\ load[c] = "none" /\ reply[c] = "none"
      /\ \A j \in Key : pending[j] # c
      /\ \A d \in Call : pc[d] = "waiting" => awaits[d] # c
  BY IdleFacts, AbsentFacts DEF Saturated
<1>2. /\ entry' \in [Key -> Entry \cup {None}]
      /\ \A j \in Key : entry'[j] \in {entry[j], None}
      /\ began' \in [Call -> 0..MaxTime] /\ floor' \in [Call -> 0..MaxVersion]
      /\ UNCHANGED <<version, clock, versionAt, used, uses, value, key, got, took>>
  BY AbsentFacts DEF Saturated
<1>3. /\ pc' = [pc EXCEPT ![c] = "done"] /\ reply' = [reply EXCEPT ![c] = "saturated"]
      /\ UNCHANGED <<pending, load, awaits>>
  BY DEF Saturated, Answer
<1>4. TypeOK'
  BY <1>2, <1>3 DEF IInv, TypeOK
<1>5. PendingSound'
  <2>1. \A d \in Call : Owns(d)' <=> Owns(d)
    BY <1>1, <1>3 DEF IInv, TypeOK, Owns
  <2> QED
    BY <1>2, <1>3, <2>1, PendingKeeps
<1>6. Waiters'
  BY <1>1, <1>2, <1>3 DEF IInv, TypeOK, Waiters
<1>7. \A d \in Call : (pc'[d] = "waiting" /\ load'[awaits'[d]] = "read") =>
        floor'[d] <= value'[awaits'[d]]
  BY <1>2, <1>3, SMTT(30) DEF IInv, TypeOK, Latest, Saturated, Absent, Begin
<1>8. Absent(c)
  BY DEF Saturated
<1> QED
  BY <1>1, <1>3, <1>4, <1>5, <1>6, <1>7, <1>8, AbsentKeeps, ZenonT(40) DEF IInv, TypeOK, Latest

LEMMA MissInv == ASSUME IInv, NEW c \in Call, Miss(c) PROVE IInv'
<1> DEFINE k == key[c]
<1>1. /\ k \in Key /\ pc[c] = "idle" /\ load[c] = "none" /\ reply[c] = "none"
      /\ \A j \in Key : pending[j] # c
      /\ \A d \in Call : pc[d] = "waiting" => awaits[d] # c
  BY IdleFacts, AbsentFacts DEF Miss
<1>2. /\ entry' \in [Key -> Entry \cup {None}] /\ entry'[k] = None
      /\ \A j \in Key : entry'[j] \in {entry[j], None}
      /\ began' \in [Call -> 0..MaxTime] /\ floor' \in [Call -> 0..MaxVersion]
      /\ UNCHANGED <<version, clock, versionAt, used, uses, value, key, got, took>>
  BY AbsentFacts DEF Miss
<1>3. /\ pending[k] = None /\ pending' = [pending EXCEPT ![k] = c]
      /\ load' = [load EXCEPT ![c] = "running"]
      /\ awaits' = [awaits EXCEPT ![c] = c]
      /\ pc' = [pc EXCEPT ![c] = "waiting"] /\ reply' = reply
  BY DEF Miss, Shared
<1>4. TypeOK'
  BY <1>1, <1>2, <1>3 DEF IInv, TypeOK
<1>5. PendingSound'
  <2>1. \A d \in Call : Owns(d)' <=> (Owns(d) \/ d = c)
    BY <1>3 DEF IInv, TypeOK, Owns
  <2>2. \A d \in Call \ {c} : (Owns(d) \/ load[d] = "running") => key[d] # k
    BY <1>3, NamesAssumption DEF IInv, TypeOK, PendingSound
  <2>3. \A d \in Call : (Owns(d)' \/ load'[d] = "running") => pending'[key[d]] = d
    BY <1>1, <1>3, <2>1, <2>2 DEF IInv, TypeOK, PendingSound
  <2>4. \A j \in Key \ {k} : pending'[j] # None =>
          /\ pending'[j] = pending[j] /\ pending[j] \in Call \ {c} /\ key[pending[j]] = j
          /\ pc[pending[j]] = "waiting" /\ awaits[pending[j]] = pending[j]
          /\ load[pending[j]] # "none" /\ entry[j] = None
    BY <1>1, <1>3 DEF IInv, TypeOK, PendingSound, Owns
  <2>5. ASSUME NEW j \in Key, pending'[j] # None
        PROVE  /\ pc'[pending'[j]] = "waiting" /\ awaits'[pending'[j]] = pending'[j]
               /\ key[pending'[j]] = j /\ load'[pending'[j]] # "none" /\ entry'[j] = None
    <3>1. CASE j = k
      BY <1>1, <1>2, <1>3, <3>1 DEF IInv, TypeOK
    <3>2. CASE j # k
      <4>1. pending'[j] = pending[j] /\ pending[j] # None
        BY <1>3, <2>4, <2>5, <3>2
      <4>2. PICK p \in Call \ {c} : p = pending[j]
        BY <2>4, <2>5, <3>2
      <4>3. pc'[p] = pc[p] /\ awaits'[p] = awaits[p] /\ load'[p] = load[p]
        BY <1>3 DEF IInv, TypeOK
      <4> QED
        BY <1>2, <2>4, <2>5, <3>2, <4>1, <4>2, <4>3
    <3> QED
      BY <3>1, <3>2
  <2> QED
    BY <1>2, <2>3, <2>5 DEF PendingSound, Owns
<1>6. Waiters'
  <2>1. \A d \in Call \ {c} : pc[d] = "waiting" => awaits[d] \in Call \ {c}
    BY <1>1 DEF IInv, TypeOK, Waiters
  <2>2. c # None
    BY NamesAssumption
  <2>3. \A d \in Call \ {c} :
          pc'[d] = pc[d] /\ awaits'[d] = awaits[d] /\ load'[d] = load[d] /\ reply'[d] = reply[d]
    BY <1>3 DEF IInv, TypeOK
  <2>4. pc'[c] = "waiting" /\ awaits'[c] = c /\ load'[c] = "running" /\ reply'[c] = "none"
    BY <1>1, <1>3 DEF IInv, TypeOK
  <2> QED
    BY <1>2, <2>1, <2>2, <2>3, <2>4 DEF IInv, Waiters
<1>7. \A d \in Call : (pc'[d] = "waiting" /\ load'[awaits'[d]] = "read") =>
        floor'[d] <= value'[awaits'[d]]
  BY <1>1, <1>2, <1>3 DEF IInv, TypeOK, Latest, Miss, Absent, Begin
<1>8. Absent(c)
  BY DEF Miss
<1>9. \A j \in Key : pending'[j] \in {pending[j], c}
  BY <1>3 DEF IInv, TypeOK
<1>10. /\ \A d \in Call \ {c} : load'[d] = load[d] /\ reply'[d] = reply[d]
       /\ load'[c] # "read" /\ reply'[c] # "value"
  BY <1>1, <1>3 DEF IInv, TypeOK
<1> QED
  BY <1>4, <1>5, <1>6, <1>7, <1>8, <1>9, <1>10, AbsentKeeps DEF IInv, Latest

-----------------------------------------------------------------------------
(* The end of a load, and what follows *)

LEMMA ReadInv == ASSUME IInv, NEW c \in Call, Read(c) PROVE IInv'
<1> DEFINE k == key[c]
<1>1. /\ load[c] = "running" /\ k \in Key /\ pending[k] = c /\ entry[k] = None
      /\ \A j \in Key \ {k} : pending[j] # c
  BY NamesAssumption DEF Read, IInv, TypeOK, PendingSound
<1>2. /\ load' = [load EXCEPT ![c] = "read"] /\ value' = [value EXCEPT ![c] = version]
      /\ UNCHANGED <<version, clock, versionAt, entry, used, uses, pending>>
      /\ UNCHANGED <<pc, key, awaits, reply, got, began, took, floor>>
  BY DEF Read, cache, calls
<1>3. TypeOK'
  BY <1>2 DEF IInv, TypeOK
<1>4. MonotonicReads' /\ WritesBecomeVisible'
  BY <1>2 DEF IInv, MonotonicReads, WritesBecomeVisible
<1>5. PendingSound'
  <2>1. \A d \in Call : Owns(d)' <=> Owns(d)
    BY <1>2 DEF Owns
  <2> QED
    BY <1>1, <1>2, <2>1, PendingKeeps DEF IInv, TypeOK
<1>6. Waiters'
  BY <1>1, <1>2, SMTT(30) DEF IInv, TypeOK, Waiters
<1>7. Latest'
  <2>1. \A j \in Key : \A d \in Reads(j)' :
          (d \in Reads(j) /\ value'[d] = value[d]) \/ (j = k /\ value'[d] = version)
    BY <1>2 DEF Reads, IInv, TypeOK
  <2>2. \A j \in Key : Answered(j)' = Answered(j)
    BY <1>2 DEF Answered
  <2>3. \A j \in Key : \A w \in Known(j)' : w \in Known(j) \/ (j = k /\ w = version)
    BY <1>2, <2>1, <2>2 DEF Known
  <2>4. \A j \in Key : \A w \in Known(j) : w <= version
    BY DEF IInv, Latest, Known, Reads, Answered
  <2>5. version \in Int
    BY BoundsAssumption DEF IInv, TypeOK
  <2>6. \A j \in Key : \A w \in Known(j)' :
          /\ (entry'[j] # None => w <= entry'[j].value)
          /\ (pending'[j] # None /\ load'[pending'[j]] = "read" => w <= value'[pending'[j]])
    <3> SUFFICES ASSUME NEW j \in Key, NEW w \in Known(j)'
                 PROVE  /\ (entry'[j] # None => w <= entry'[j].value)
                        /\ (pending'[j] # None /\ load'[pending'[j]] = "read" =>
                              w <= value'[pending'[j]])
      OBVIOUS
    <3>1. CASE j = k
      BY <1>1, <1>2, <2>3, <2>4, <2>5, <3>1 DEF IInv, TypeOK
    <3>2. CASE j # k
      BY <1>1, <1>2, <2>3, <3>2 DEF IInv, TypeOK, Latest
    <3> QED
      BY <3>1, <3>2
  <2>7. \A d \in Call : value'[d] <= version' /\ got'[d] <= version' /\ floor'[d] <= version'
    BY <1>2, <2>5 DEF IInv, TypeOK, Latest
  <2>8. \A d \in Call : (pc'[d] = "waiting" /\ load'[awaits'[d]] = "read") =>
          floor'[d] <= value'[awaits'[d]]
    BY <1>2 DEF IInv, TypeOK, Latest, Waiters
  <2> QED
    BY <1>2, <2>6, <2>7, <2>8 DEF IInv, Latest
<1>8. Dated'
  BY <1>2 DEF IInv, TypeOK, Dated
<1> QED
  BY <1>3, <1>4, <1>5, <1>6, <1>7, <1>8 DEF IInv

LEMMA FailLoadInv == ASSUME IInv, NEW c \in Call, FailLoad(c) PROVE IInv'
<1>1. /\ load[c] = "running" /\ load' = [load EXCEPT ![c] = "failed"]
      /\ UNCHANGED <<version, clock, versionAt, entry, used, uses, pending, value>>
      /\ UNCHANGED <<pc, key, awaits, reply, got, began, took, floor>>
  BY DEF FailLoad, cache, calls
<1>2. TypeOK'
  BY <1>1 DEF IInv, TypeOK
<1>3. MonotonicReads' /\ WritesBecomeVisible'
  BY <1>1 DEF IInv, MonotonicReads, WritesBecomeVisible
<1>4. PendingSound'
  <2>1. \A d \in Call : Owns(d)' <=> Owns(d)
    BY <1>1 DEF Owns
  <2> QED
    BY <1>1, <2>1, PendingKeeps DEF IInv, TypeOK
<1>5. Waiters'
  BY <1>1 DEF IInv, TypeOK, Waiters
<1>6. \A d \in Call : load'[d] = "read" <=> load[d] = "read"
  BY <1>1 DEF IInv, TypeOK
<1>7. Latest'
  <2>1. \A j \in Key : Known(j)' = Known(j)
    BY <1>1, <1>6 DEF Known, Reads, Answered
  <2>2. \A d \in Call : pc[d] = "waiting" => awaits[d] \in Call
    BY DEF IInv, TypeOK, Waiters
  <2>3. \A j \in Key : pending[j] # None => pending[j] \in Call
    BY DEF IInv, TypeOK
  <2> QED
    BY <1>1, <1>6, <2>1, <2>2, <2>3 DEF IInv, Latest
<1>8. Dated'
  BY <1>1, <1>6 DEF IInv, TypeOK, Dated
<1> QED
  BY <1>2, <1>3, <1>4, <1>5, <1>7, <1>8 DEF IInv

\* A call that ends its own load leaves the key's place in pending.
LEMMA OwnerFacts ==
  ASSUME IInv, TypeOK', NEW c \in Call, pc[c] = "waiting", awaits[c] = c,
         pending' = [pending EXCEPT ![key[c]] = None], pc' = [pc EXCEPT ![c] = "done"],
         UNCHANGED <<load, key, awaits>>, load[c] # "running",
         \A j \in Key \ {key[c]} : entry'[j] \in {entry[j], None}
  PROVE  pending[key[c]] = c /\ entry[key[c]] = None /\ PendingSound'
<1> DEFINE k == key[c]
<1>1. k \in Key /\ pending[k] = c /\ entry[k] = None
  BY NamesAssumption DEF IInv, TypeOK, PendingSound, Owns
<1>2. ASSUME NEW j \in Key, NEW p \in Call, pending'[j] = p
      PROVE  Owns(p)' /\ key[p] = j /\ load[p] # "none" /\ entry'[j] = None
  <2>1. j # k /\ pending[j] = p
    <3>1. pending \in [Key -> Call \cup {None}]
      BY DEF IInv, TypeOK
    <3> QED
      BY <1>1, <1>2, <3>1, NamesAssumption
  <2>2. Owns(p) /\ key[p] = j /\ load[p] # "none" /\ entry[j] = None
    BY <2>1, NamesAssumption DEF IInv, PendingSound
  <2> QED
    BY <2>1, <2>2 DEF Owns, IInv, TypeOK
<1>3. \A j \in Key : pending'[j] # None => pending'[j] \in Call
  BY DEF TypeOK
<1>4. ASSUME NEW d \in Call, Owns(d)' \/ load[d] = "running"
      PROVE  pending'[key[d]] = d
  <2>1. d # c /\ (Owns(d) \/ load[d] = "running")
    BY <1>4 DEF Owns, IInv, TypeOK
  <2>2. pending[key[d]] = d
    BY <2>1 DEF IInv, PendingSound
  <2> QED
    BY <1>1, <2>1, <2>2 DEF IInv, TypeOK
<1> QED
  BY <1>1, <1>2, <1>3, <1>4 DEF PendingSound, Owns

LEMMA StoreInv == ASSUME IInv, NEW c \in Call, Store(c) PROVE IInv'
<1> DEFINE k == key[c]
           t == clock - began[c]
           e == [value |-> value[c], expiresAt |-> clock + TTL, took |-> t]
<1>1. pc[c] = "waiting" /\ awaits[c] = c /\ load[c] = "read" /\ k \in Key
  BY DEF Store, IInv, TypeOK
<1>2. /\ pending' = [pending EXCEPT ![k] = None]
      /\ pc' = [pc EXCEPT ![c] = "done"] /\ reply' = [reply EXCEPT ![c] = "value"]
      /\ got' = [got EXCEPT ![c] = value[c]] /\ took' = [took EXCEPT ![c] = t]
      /\ used' = [used EXCEPT ![k] = uses + 1] /\ uses' = uses + 1
      /\ UNCHANGED <<version, clock, versionAt, load, value, key, awaits, began, floor>>
  BY DEF Store, AnswerValue, Answer, Used
<1>3. /\ entry' = [j \in Key |-> IF j = k THEN e
                                 ELSE IF j \in Evicted(k) THEN None ELSE entry[j]]
      /\ entry'[k] = e /\ \A j \in Key \ {k} : entry'[j] \in {entry[j], None}
  BY <1>1 DEF Store
<1>4. /\ clock \in Nat /\ began[c] \in Nat /\ TTL \in Nat /\ began[c] <= clock /\ t \in Nat
      /\ e.value = value[c] /\ e.took = t
      /\ e.expiresAt - TTL - e.took = began[c]
  BY LimitsAssumption, BoundsAssumption DEF IInv, TypeOK, Dated
<1>5. e \in Entry
  BY <1>4 DEF Entry, IInv, TypeOK
<1>6. TypeOK'
  <2>1. entry' \in [Key -> Entry \cup {None}]
    BY <1>3, <1>5 DEF IInv, TypeOK
  <2>2. uses' \in Nat /\ used' \in [Key -> Nat]
    BY <1>2 DEF IInv, TypeOK
  <2>3. got' \in [Call -> 0..MaxVersion] /\ took' \in [Call -> Nat]
    BY <1>2, <1>4 DEF IInv, TypeOK
  <2> QED
    BY <1>2, <2>1, <2>2, <2>3 DEF IInv, TypeOK
<1>7. pending[k] = c /\ PendingSound'
  BY <1>1, <1>2, <1>3, <1>6, OwnerFacts
<1>8. floor[c] <= value[c]
  BY <1>1 DEF IInv, Latest
<1>9. MonotonicReads'
  BY <1>2, <1>8 DEF IInv, TypeOK, MonotonicReads
<1>10. \A s \in 0..MaxTime : s <= began[c] => versionAt[s] <= value[c]
  BY <1>1 DEF IInv, Dated
<1>11. WritesBecomeVisible'
  <2>1. \A s \in 0..MaxTime : s <= began[c] - TTL - t => s <= began[c]
    BY <1>4, BoundsAssumption
  <2> QED
    BY <1>2, <1>10, <2>1 DEF IInv, TypeOK, WritesBecomeVisible
<1>12. Waiters'
  BY <1>1, <1>2 DEF IInv, TypeOK, Waiters
<1>13. Latest'
  <2>1. \A j \in Key : Reads(j)' = Reads(j)
    BY <1>2 DEF Reads
  <2>2. \A j \in Key : \A d \in Answered(j)' :
          (d \in Answered(j) /\ got'[d] = got[d]) \/ (j = k /\ got'[d] = value[c])
    BY <1>2 DEF Answered, IInv, TypeOK
  <2>3. \A j \in Key : \A w \in Known(j)' : w \in Known(j) \/ (j = k /\ w = value[c])
    BY <1>2, <2>1, <2>2 DEF Known
  <2>4. value[c] \in Int /\ value[c] <= version
    BY BoundsAssumption DEF IInv, TypeOK, Latest
  <2>5. \A j \in Key : \A w \in Known(j)' : j = k => w <= value[c]
    BY <1>1, <1>7, <2>3, <2>4, NamesAssumption DEF IInv, Latest
  <2>6. \A j \in Key : \A w \in Known(j)' :
          /\ (entry'[j] # None => w <= entry'[j].value)
          /\ (pending'[j] # None /\ load'[pending'[j]] = "read" => w <= value'[pending'[j]])
    <3> SUFFICES ASSUME NEW j \in Key, NEW w \in Known(j)'
                 PROVE  /\ (entry'[j] # None => w <= entry'[j].value)
                        /\ (pending'[j] # None /\ load'[pending'[j]] = "read" =>
                              w <= value'[pending'[j]])
      OBVIOUS
    <3>1. CASE j = k
      BY <1>1, <1>2, <1>3, <1>4, <2>5, <3>1 DEF IInv, TypeOK
    <3>2. CASE j # k
      BY <1>1, <1>2, <1>3, <2>3, <3>2 DEF IInv, TypeOK, Latest
    <3> QED
      BY <3>1, <3>2
  <2>7. \A d \in Call : value'[d] <= version' /\ got'[d] <= version' /\ floor'[d] <= version'
    BY <1>2, <2>4 DEF IInv, TypeOK, Latest
  <2>8. \A j \in Key : entry'[j] # None => entry'[j].value <= version'
    BY <1>1, <1>2, <1>3, <1>4, <2>4 DEF IInv, Latest
  <2>9. \A d \in Call : (pc'[d] = "waiting" /\ load'[awaits'[d]] = "read") =>
          floor'[d] <= value'[awaits'[d]]
    BY <1>2 DEF IInv, TypeOK, Latest
  <2> QED
    BY <2>6, <2>7, <2>8, <2>9 DEF Latest
<1>14. Dated'
  <2>1. \A j \in Key : entry'[j] # None =>
          /\ entry'[j].expiresAt - TTL - entry'[j].took <= clock
          /\ \A s \in 0..MaxTime :
               s <= entry'[j].expiresAt - TTL - entry'[j].took => versionAt[s] <= entry'[j].value
    <3> SUFFICES ASSUME NEW j \in Key, entry'[j] # None
                 PROVE  /\ entry'[j].expiresAt - TTL - entry'[j].took <= clock
                        /\ \A s \in 0..MaxTime :
                             s <= entry'[j].expiresAt - TTL - entry'[j].took =>
                               versionAt[s] <= entry'[j].value
      OBVIOUS
    <3>1. CASE j = k
      BY <1>1, <1>3, <1>4, <1>10, <3>1
    <3>2. CASE j # k
      BY <1>3, <3>2 DEF IInv, Dated
    <3> QED
      BY <3>1, <3>2
  <2> QED
    BY <1>2, <2>1 DEF IInv, Dated
<1> QED
  BY <1>6, <1>7, <1>9, <1>11, <1>12, <1>13, <1>14 DEF IInv

\* A call that ends without a value changes nothing that is known.
LEMMA NoValueKeeps ==
  ASSUME IInv, NEW c \in Call, pc[c] = "waiting",
         pc' = [pc EXCEPT ![c] = "done"], reply' = [reply EXCEPT ![c] = "failed"],
         \A j \in Key : pending'[j] \in {pending[j], None},
         UNCHANGED <<version, clock, versionAt, entry, load, value, key, awaits>>,
         UNCHANGED <<got, began, took, floor>>
  PROVE  MonotonicReads' /\ WritesBecomeVisible' /\ Waiters' /\ Latest' /\ Dated'
<1>1. reply[c] # "value"
  BY DEF IInv, Waiters
<1>2. MonotonicReads' /\ WritesBecomeVisible'
  BY DEF IInv, TypeOK, MonotonicReads, WritesBecomeVisible
<1>3. Waiters'
  BY DEF IInv, TypeOK, Waiters
<1>4. \A j \in Key : Known(j)' = Known(j)
  <2>1. \A j \in Key : Reads(j)' = Reads(j) /\ Answered(j)' = Answered(j)
    BY <1>1 DEF IInv, TypeOK, Reads, Answered
  <2> QED
    BY <2>1 DEF Known
<1>5. Latest'
  BY <1>4 DEF IInv, TypeOK, Latest
<1>6. Dated'
  BY DEF IInv, Dated
<1> QED
  BY <1>2, <1>3, <1>5, <1>6

LEMMA ThrowInv == ASSUME IInv, NEW c \in Call, Throw(c) PROVE IInv'
<1>1. /\ pc[c] = "waiting" /\ awaits[c] = c /\ load[c] # "running"
      /\ pending' = [pending EXCEPT ![key[c]] = None]
      /\ pc' = [pc EXCEPT ![c] = "done"] /\ reply' = [reply EXCEPT ![c] = "failed"]
      /\ UNCHANGED <<version, clock, versionAt, entry, used, uses, load, value, key, awaits>>
      /\ UNCHANGED <<got, began, took, floor>>
  BY DEF Throw, Freed, Answer
<1>2. TypeOK'
  BY <1>1 DEF IInv, TypeOK
<1>3. PendingSound'
  BY <1>1, <1>2, OwnerFacts
<1>4. \A j \in Key : pending'[j] \in {pending[j], None}
  BY <1>1 DEF IInv, TypeOK
<1> QED
  BY <1>1, <1>2, <1>3, <1>4, NoValueKeeps DEF IInv

LEMMA ReceiveInv == ASSUME IInv, NEW c \in Call, Receive(c) PROVE IInv'
<1> DEFINE d == awaits[c]
           t == clock - began[d]
<1>1. pc[c] = "waiting" /\ d \in Call /\ d # c /\ key[d] = key[c]
  BY DEF Receive, IInv, TypeOK, Waiters
<1>2. /\ UNCHANGED <<version, clock, versionAt, entry, used, uses, pending, load, value, key>>
      /\ UNCHANGED <<awaits, began, floor>>
      /\ pc' = [pc EXCEPT ![c] = "done"]
  BY DEF Receive, cache, AnswerValue, Answer
<1>3. PendingSound'
  <2>1. \A j \in Call : Owns(j)' <=> Owns(j)
    BY <1>1, <1>2 DEF Owns, IInv, TypeOK
  <2> QED
    BY <1>2, <2>1, PendingKeeps
<1>4. CASE /\ load[d] = "failed" /\ reply' = [reply EXCEPT ![c] = "failed"]
           /\ UNCHANGED <<got, took>>
  <2>1. TypeOK'
    BY <1>2, <1>4 DEF IInv, TypeOK
  <2> QED
    BY <1>1, <1>2, <1>3, <1>4, <2>1, NoValueKeeps DEF IInv
<1>5. CASE /\ load[d] = "read" /\ reply' = [reply EXCEPT ![c] = "value"]
           /\ got' = [got EXCEPT ![c] = value[d]] /\ took' = [took EXCEPT ![c] = t]
  <2>1. /\ clock \in Nat /\ TTL \in Nat /\ began[c] \in Nat /\ began[d] \in Nat
        /\ began[c] <= clock /\ began[d] <= clock /\ t \in Nat
    <3>1. began[c] \in 0..MaxTime /\ began[d] \in 0..MaxTime /\ clock \in 0..MaxTime
      BY <1>1 DEF IInv, TypeOK
    <3>2. began[c] <= clock /\ began[d] <= clock
      BY <1>1 DEF IInv, Dated
    <3> QED
      BY <3>1, <3>2, LimitsAssumption, BoundsAssumption
  <2>2. TypeOK'
    BY <1>1, <1>2, <1>5, <2>1 DEF IInv, TypeOK
  <2>3. MonotonicReads'
    BY <1>1, <1>2, <1>5 DEF IInv, TypeOK, MonotonicReads, Latest
  <2>4. WritesBecomeVisible'
    <3>1. \A s \in 0..MaxTime : s <= began[c] - TTL - t => s <= began[d]
      BY <2>1, BoundsAssumption
    <3>2. \A s \in 0..MaxTime : s <= began[c] - TTL - t => versionAt[s] <= value[d]
      BY <1>1, <1>5, <3>1 DEF IInv, Dated
    <3> QED
      BY <1>2, <1>5, <3>2 DEF IInv, TypeOK, WritesBecomeVisible
  <2>5. Waiters'
    BY <1>1, <1>2, <1>5 DEF IInv, TypeOK, Waiters
  <2>6. \A j \in Key : \A w \in Known(j)' : w \in Known(j)
    <3>1. \A j \in Key : Reads(j)' = Reads(j)
      BY <1>2 DEF Reads
    <3>2. \A j \in Key : \A i \in Answered(j)' :
            (i \in Answered(j) /\ got'[i] = got[i]) \/ (d \in Reads(j) /\ got'[i] = value[d])
      BY <1>1, <1>2, <1>5 DEF Answered, Reads, IInv, TypeOK
    <3> QED
      BY <1>2, <3>1, <3>2 DEF Known
  <2>7. Latest'
    BY <1>1, <1>2, <1>5, <2>6 DEF IInv, TypeOK, Latest
  <2>8. Dated'
    BY <1>2 DEF IInv, Dated
  <2> QED
    BY <1>3, <2>2, <2>3, <2>4, <2>5, <2>7, <2>8 DEF IInv
<1> QED
  BY <1>4, <1>5 DEF Receive, AnswerValue, Answer

-----------------------------------------------------------------------------
(* The database and the clock *)

LEMMA WriteInv == ASSUME IInv, Write PROVE IInv'
<1>1. /\ version' = version + 1 /\ version < MaxVersion
      /\ UNCHANGED <<clock, versionAt, entry, used, uses, pending, load, value>>
      /\ UNCHANGED <<pc, key, awaits, reply, got, began, took, floor>>
  BY DEF Write, cache, calls
<1>2. version \in Nat
  BY BoundsAssumption DEF IInv, TypeOK
<1>3. TypeOK'
  BY <1>1, <1>2, BoundsAssumption DEF IInv, TypeOK
<1>4. MonotonicReads' /\ WritesBecomeVisible' /\ PendingSound' /\ Waiters'
  BY <1>1 DEF IInv, MonotonicReads, WritesBecomeVisible, PendingSound, Waiters, Owns
<1>5. Latest'
  <2>1. \A j \in Key : Known(j)' = Known(j)
    BY <1>1 DEF Known, Reads, Answered
  <2>2. \A j \in Key : entry[j] # None => entry[j].value <= version /\ entry[j].value \in Nat
    BY BoundsAssumption DEF IInv, TypeOK, Entry, Latest
  <2>3. \A d \in Call : value[d] <= version + 1 /\ got[d] <= version + 1 /\ floor[d] <= version + 1
    BY <1>2, BoundsAssumption DEF IInv, TypeOK, Latest
  <2> QED
    BY <1>1, <1>2, <2>1, <2>2, <2>3 DEF IInv, Latest
<1>6. Dated'
  <2>1. \A t \in 0..MaxTime : versionAt[t] <= version + 1
    BY <1>2, BoundsAssumption DEF IInv, TypeOK, Dated
  <2> QED
    BY <1>1, <2>1 DEF IInv, Dated
<1> QED
  BY <1>3, <1>4, <1>5, <1>6 DEF IInv

LEMMA TickInv == ASSUME IInv, Tick PROVE IInv'
<1>1. /\ clock' = clock + 1 /\ clock < MaxTime
      /\ versionAt' = [versionAt EXCEPT ![clock + 1] = version]
      /\ UNCHANGED <<version, entry, used, uses, pending, load, value>>
      /\ UNCHANGED <<pc, key, awaits, reply, got, began, took, floor>>
  BY DEF Tick, cache, calls
<1>2. clock \in Nat /\ clock + 1 \in 0..MaxTime
  BY <1>1, BoundsAssumption DEF IInv, TypeOK
<1>3. TypeOK'
  BY <1>1, <1>2 DEF IInv, TypeOK
<1>4. \A t \in 0..MaxTime : t <= clock => versionAt'[t] = versionAt[t]
  BY <1>1, <1>2 DEF IInv, TypeOK
<1>5. MonotonicReads' /\ PendingSound' /\ Waiters'
  BY <1>1 DEF IInv, MonotonicReads, PendingSound, Waiters, Owns
<1>6. Latest'
  BY <1>1 DEF IInv, Latest, Known, Reads, Answered
<1>7. WritesBecomeVisible'
  <2> SUFFICES ASSUME NEW c \in Call, NEW t \in 0..MaxTime,
                      reply[c] = "value", t <= began[c] - TTL - took[c]
               PROVE  versionAt'[t] <= got[c]
    BY <1>1 DEF WritesBecomeVisible
  <2>1. t <= clock
    BY <1>2, LimitsAssumption, BoundsAssumption, SMTT(30) DEF IInv, TypeOK, Dated
  <2> QED
    BY <1>4, <2>1 DEF IInv, WritesBecomeVisible
<1>8. Dated'
  <2>1. \A t \in 0..MaxTime : versionAt'[t] <= version
    BY <1>1, <1>2, BoundsAssumption DEF IInv, TypeOK, Dated
  <2>2. \A c \in Call : began[c] <= clock + 1
    BY <1>2, BoundsAssumption DEF IInv, TypeOK, Dated
  <2>3. \A c \in Call, t \in 0..MaxTime :
          (load[c] = "read" /\ t <= began[c]) => versionAt'[t] <= value[c]
    <3>1. \A c \in Call, t \in 0..MaxTime : t <= began[c] => t <= clock
      BY <1>2, BoundsAssumption DEF IInv, TypeOK, Dated
    <3> QED
      BY <1>4, <3>1 DEF IInv, Dated
  <2>4. ASSUME NEW k \in Key, entry[k] # None
        PROVE  /\ entry[k].expiresAt - TTL - entry[k].took <= clock + 1
               /\ \A t \in 0..MaxTime : t <= entry[k].expiresAt - TTL - entry[k].took =>
                    versionAt'[t] <= entry[k].value
    <3> DEFINE s == entry[k].expiresAt - TTL - entry[k].took
    <3>1. s \in Int /\ s <= clock
      BY <2>4, LimitsAssumption DEF IInv, TypeOK, Entry, Dated
    <3>2. s <= clock + 1 /\ \A t \in 0..MaxTime : t <= s => t <= clock
      BY <1>2, <3>1, BoundsAssumption
    <3> QED
      BY <1>4, <2>4, <3>2 DEF IInv, Dated
  <2> QED
    BY <1>1, <2>1, <2>2, <2>3, <2>4 DEF Dated
<1> QED
  BY <1>3, <1>5, <1>6, <1>7, <1>8 DEF IInv

-----------------------------------------------------------------------------
(* Theorems *)

LEMMA NextInv == ASSUME IInv, [Next]_vars PROVE IInv'
<1>1. CASE UNCHANGED vars
  BY <1>1, StutterInv
<1>2. CASE \E c \in Call : Hit(c) \/ Coalesce(c) \/ Saturated(c) \/ Miss(c)
  BY <1>2, HitInv, CoalesceInv, SaturatedInv, MissInv
<1>3. CASE \E c \in Call : Proceed(c)
  BY <1>3, ReadInv, FailLoadInv, StoreInv, ThrowInv, ReceiveInv DEF Proceed
<1>4. CASE Write \/ Tick
  BY <1>4, WriteInv, TickInv
<1> QED
  BY <1>1, <1>2, <1>3, <1>4 DEF Next

\* A load holds its key's place in pending exactly until its owner goes on, whether it ends
\* or fails, and what the cache stores for a key is the latest value known of it and is
\* not older than its expiry says: getOrLoad keeps all of IInv.
THEOREM Invariant == Spec => []IInv
<1>1. Init => IInv
  BY InitInv
<1>2. IInv /\ [Next]_vars => IInv'
  BY NextInv
<1> QED
  BY <1>1, <1>2, PTL DEF Spec

\* Whatever is evicted, coalesced, saturated or failing, a caller of getOrLoad is never
\* answered an older value of its key than an earlier caller was.
THEOREM ReadsNeverGoBack == Spec => []MonotonicReads
<1>1. IInv => MonotonicReads
  BY DEF IInv
<1> QED
  BY <1>1, Invariant, PTL

\* A caller of getOrLoad sees each write that is older than the TTL and the load its
\* answer comes from.
THEOREM WritesAreSeen == Spec => []WritesBecomeVisible
<1>1. IInv => WritesBecomeVisible
  BY DEF IInv
<1> QED
  BY <1>1, Invariant, PTL

\* No call waits in vain: the load it awaits is running, or has ended and the caller can go
\* on; and nothing is pending but what a caller is waiting for, so a failed load leaves no
\* place taken.  This is the safety half of EveryCallAnswered.
THEOREM NobodyWaitsInVain ==
  Spec => [](/\ \A c \in Call : pc[c] = "waiting" =>
                  load[awaits[c]] = "running" \/ Settled(awaits[c])
             /\ \A k \in Key : pending[k] # None =>
                  Owns(pending[k]) /\ key[pending[k]] = k)
<1>1. ASSUME IInv, NEW c \in Call, pc[c] = "waiting"
      PROVE  load[awaits[c]] = "running" \/ Settled(awaits[c])
  BY <1>1 DEF IInv, TypeOK, Waiters, Settled
<1>2. ASSUME IInv, NEW k \in Key, pending[k] # None
      PROVE  Owns(pending[k]) /\ key[pending[k]] = k
  BY <1>2 DEF IInv, PendingSound
<1>3. IInv => /\ \A c \in Call : pc[c] = "waiting" =>
                   load[awaits[c]] = "running" \/ Settled(awaits[c])
              /\ \A k \in Key : pending[k] # None =>
                   Owns(pending[k]) /\ key[pending[k]] = k
  BY <1>1, <1>2
<1> QED
  BY <1>3, Invariant, PTL

-----------------------------------------------------------------------------
(* The cache stays within its limits.  Evicting needs a least recently used *)
(* key to evict: natural numbers have a least one, because the intervals    *)
(* that end in them are finite sets ordered by inclusion.                   *)

LEMMA LeastNatural ==
  ASSUME NEW T \in SUBSET Nat, T # {}
  PROVE  \E x \in T : \A y \in T : x <= y
<1> DEFINE D == {0..x : x \in T}
<1>1. D \subseteq FiniteSubsetsOf(Nat)
  <2>1. \A x \in T : 0..x \in SUBSET Nat /\ IsFiniteSet(0..x)
    BY FS_Interval
  <2> QED
    BY <2>1 DEF FiniteSubsetsOf
<1>2. D # {}
  OBVIOUS
<1>3. PICK x \in T : \A e \in D : ~(<<e, 0..x>> \in StrictSubsetOrdering(Nat))
  <2> HIDE DEF D
  <2>1. PICK d \in D : \A e \in D : ~(<<e, d>> \in StrictSubsetOrdering(Nat))
    BY <1>1, <1>2, FS_StrictSubsetOrderingWellFounded, WFMin, Zenon
  <2>2. PICK x \in T : d = 0..x
    BY DEF D
  <2> QED
    BY <2>1, <2>2
<1>4. ASSUME NEW y \in T, y < x PROVE FALSE
  <2>1. 0..y \subseteq 0..x /\ x \in 0..x /\ x \notin 0..y /\ 0..x \subseteq Nat
    BY <1>4
  <2>2. <<0..y, 0..x>> \in StrictSubsetOrdering(Nat)
    BY <2>1, Zenon DEF StrictSubsetOrdering
  <2> QED
    BY <1>3, <2>2
<1> QED
  BY <1>4

\* The sizes of sets of keys.
LEMMA Sizes ==
  /\ IsFiniteSet(Cached) /\ IsFiniteSet(Pending)
  /\ Cardinality(Cached) \in Nat /\ Cardinality(Pending) \in Nat
BY KeysAssumption, FS_Subset, FS_CardinalityType DEF Cached, Pending

LEMMA FewerKeys ==
  ASSUME NEW S \in SUBSET Key, NEW T \in SUBSET S
  PROVE  Cardinality(T) <= Cardinality(S) /\ Cardinality(T) \in Nat /\ Cardinality(S) \in Nat
<1>1. IsFiniteSet(S) /\ IsFiniteSet(T)
  BY KeysAssumption, FS_Subset
<1> QED
  BY <1>1, FS_Subset, FS_CardinalityType

LEMMA OneMoreKey ==
  ASSUME NEW S \in SUBSET Key, NEW k \in Key
  PROVE  Cardinality(S \cup {k}) <= Cardinality(S) + 1
<1>1. IsFiniteSet(S)
  BY KeysAssumption, FS_Subset
<1>2. Cardinality(S \cup {k}) = IF k \in S THEN Cardinality(S) ELSE Cardinality(S) + 1
  BY <1>1, FS_AddElement, Zenon
<1>3. Cardinality(S) \in Nat
  BY <1>1, FS_CardinalityType
<1> QED
  BY <1>2, <1>3

\* No step but Miss takes a place in pending, and no step but Store one in entries.
LEMMA KeepsBounded ==
  ASSUME Bounded, Cached' \subseteq Cached, Pending' \subseteq Pending
  PROVE  Bounded'
<1>1. Cached \in SUBSET Key /\ Pending \in SUBSET Key
  BY DEF Cached, Pending
<1>2. Cardinality(Cached') <= Cardinality(Cached) /\ Cardinality(Cached') \in Nat
  BY <1>1, FewerKeys
<1>3. Cardinality(Pending') <= Cardinality(Pending) /\ Cardinality(Pending') \in Nat
  BY <1>1, FewerKeys
<1> QED
  BY <1>2, <1>3, Sizes, LimitsAssumption DEF Bounded

\* An entry that is not there takes no place.
LEMMA DropKeeps ==
  ASSUME IInv, NEW k \in Key, entry' = [entry EXCEPT ![k] = None]
  PROVE  Cached' \subseteq Cached
BY DEF Cached, IInv, TypeOK

LEMMA MissBounded ==
  ASSUME IInv, Bounded, NEW c \in Call, Miss(c)
  PROVE  Bounded'
<1>1. key[c] \in Key /\ Cached' \subseteq Cached
  BY DropKeeps DEF IInv, TypeOK, Miss, Absent
<1>2. Pending' \subseteq Pending \cup {key[c]}
  BY <1>1 DEF IInv, TypeOK, Miss, Pending
<1>3. /\ Cardinality(Pending) < MaxPending
      /\ Cardinality(Pending) \in Nat /\ MaxPending \in Nat /\ MaxEntries \in Nat
  BY Sizes, LimitsAssumption DEF Miss, Full
<1>4. Cardinality(Pending \cup {key[c]}) <= Cardinality(Pending) + 1
  BY <1>1, OneMoreKey DEF Pending
<1>5. Pending \cup {key[c]} \in SUBSET Key /\ Cached \in SUBSET Key
  BY <1>1 DEF Pending, Cached
<1>6. /\ Cardinality(Pending') <= Cardinality(Pending \cup {key[c]})
      /\ Cardinality(Pending') \in Nat /\ Cardinality(Pending \cup {key[c]}) \in Nat
  BY <1>2, <1>5, FewerKeys
<1>7. Cardinality(Cached') <= Cardinality(Cached) /\ Cardinality(Cached') \in Nat
  BY <1>1, <1>5, FewerKeys
<1> QED
  BY <1>3, <1>4, <1>6, <1>7, Sizes DEF Bounded

\* When there are too many entries, one of the others goes.
LEMMA SomeEvicted ==
  ASSUME IInv, NEW k \in Key, Cardinality(Cached \cup {k}) > MaxEntries
  PROVE  \E j \in Cached \ {k} : j \in Evicted(k)
<1>1. Cached \ {k} # {}
  <2> SUFFICES ASSUME Cached \ {k} = {} PROVE FALSE
    OBVIOUS
  <2>1. Cached \cup {k} = {k}
    OBVIOUS
  <2>2. Cardinality({k}) = 1
    BY FS_Singleton
  <2> QED
    BY <2>1, <2>2, LimitsAssumption
<1> DEFINE T == {used[j] : j \in Cached \ {k}}
<1>2. T \in SUBSET Nat /\ T # {}
  <2>1. \A j \in Cached \ {k} : used[j] \in Nat
    BY DEF IInv, TypeOK, Cached
  <2> QED
    BY <1>1, <2>1
<1>3. PICK x \in T : \A y \in T : x <= y
  <2> HIDE DEF T
  <2> QED
    BY <1>2, LeastNatural
<1>4. PICK j \in Cached \ {k} : used[j] = x
  OBVIOUS
<1>5. \A i \in Cached \ {k} : used[j] <= used[i]
  BY <1>3, <1>4
<1> QED
  BY <1>4, <1>5 DEF Evicted

LEMMA StoreBounded ==
  ASSUME IInv, Bounded, NEW c \in Call, Store(c)
  PROVE  Bounded'
<1> DEFINE k == key[c]
           W == Cached \cup {k}
<1>1. /\ k \in Key
      /\ pending' = [pending EXCEPT ![k] = None]
      /\ \A j \in Key \ {k} : j \in Evicted(k) => entry'[j] = None
      /\ \A j \in Key \ {k} : entry'[j] \in {entry[j], None}
  BY DEF Store, IInv, TypeOK
<1>2. Pending' \subseteq Pending /\ Pending \in SUBSET Key
  BY <1>1 DEF Pending, IInv, TypeOK
<1>3. Cardinality(Pending') <= Cardinality(Pending) /\ Cardinality(Pending') \in Nat
  BY <1>2, FewerKeys
<1>4. Cached' \subseteq W /\ W \in SUBSET Key
  BY <1>1 DEF Cached
<1>5. /\ IsFiniteSet(W) /\ Cardinality(W) \in Nat
      /\ Cardinality(W) <= Cardinality(Cached) + 1
      /\ MaxEntries \in Nat /\ MaxPending \in Nat
  <2>1. IsFiniteSet(W)
    BY <1>4, KeysAssumption, FS_Subset
  <2>2. Cardinality(W) <= Cardinality(Cached) + 1
    BY <1>1, OneMoreKey DEF Cached
  <2> QED
    BY <2>1, <2>2, FS_CardinalityType, LimitsAssumption
<1>6. Cardinality(Cached') <= MaxEntries
  <2>1. CASE Cardinality(W) <= MaxEntries
    <3>1. Cardinality(Cached') <= Cardinality(W) /\ Cardinality(Cached') \in Nat
      BY <1>4, FewerKeys
    <3> QED
      BY <2>1, <3>1, <1>5
  <2>2. CASE Cardinality(W) > MaxEntries
    <3>1. PICK j \in Cached \ {k} : j \in Evicted(k)
      BY <2>2, <1>1, SomeEvicted
    <3>2. Cached' \subseteq W \ {j}
      BY <3>1, <1>1, <1>4 DEF Cached
    <3>3. Cardinality(W \ {j}) = Cardinality(W) - 1
      BY <3>1, <1>5, FS_RemoveElement
    <3>4. /\ Cardinality(Cached') <= Cardinality(W \ {j})
          /\ Cardinality(Cached') \in Nat /\ Cardinality(W \ {j}) \in Nat
      BY <3>2, <1>4, FewerKeys
    <3> QED
      BY <3>3, <3>4, <1>5, Sizes DEF Bounded
  <2> QED
    BY <2>1, <2>2, <1>5
<1> QED
  BY <1>3, <1>5, <1>6, Sizes DEF Bounded

LEMMA NextBounded == IInv /\ Bounded /\ [Next]_vars => Bounded'
<1> SUFFICES ASSUME IInv, Bounded, [Next]_vars PROVE Bounded'
  OBVIOUS
<1>1. ASSUME NEW c \in Call, Hit(c) \/ Coalesce(c) \/ Saturated(c) PROVE Bounded'
  <2>1. Pending' \subseteq Pending
    BY <1>1 DEF Hit, Coalesce, Saturated, Pending
  <2>2. Cached' \subseteq Cached
    BY <1>1, DropKeeps DEF Hit, Coalesce, Saturated, Absent, IInv, TypeOK, Cached
  <2> QED
    BY <2>1, <2>2, KeepsBounded
<1>2. ASSUME NEW c \in Call, Read(c) \/ FailLoad(c) \/ Receive(c) PROVE Bounded'
  <2>1. Pending' \subseteq Pending /\ Cached' \subseteq Cached
    BY <1>2 DEF Read, FailLoad, Receive, cache, Pending, Cached
  <2> QED
    BY <2>1, KeepsBounded
<1>3. ASSUME NEW c \in Call, Throw(c) PROVE Bounded'
  <2>1. Pending' \subseteq Pending
    BY <1>3 DEF Throw, Freed, Pending, IInv, TypeOK
  <2>2. Cached' \subseteq Cached
    BY <1>3 DEF Throw, Cached
  <2> QED
    BY <2>1, <2>2, KeepsBounded
<1>4. CASE Write \/ Tick \/ UNCHANGED vars
  <2>1. Pending' \subseteq Pending /\ Cached' \subseteq Cached
    BY <1>4 DEF Write, Tick, vars, cache, Pending, Cached
  <2> QED
    BY <2>1, KeepsBounded
<1> QED
  BY <1>1, <1>2, <1>3, <1>4, MissBounded, StoreBounded DEF Next, Proceed

\* Neither stored entries nor running loads ever outnumber their limits, however calls,
\* loads, failures and expiries interleave.
THEOREM LimitsKept == Spec => []Bounded
<1>1. Init => Bounded
  <2> SUFFICES ASSUME Init PROVE Bounded
    OBVIOUS
  <2>1. Cached = {} /\ Pending = {}
    BY DEF Init, Cached, Pending
  <2> QED
    BY <2>1, FS_EmptySet, LimitsAssumption DEF Bounded
<1> QED
  BY <1>1, NextBounded, Invariant, PTL DEF Spec
================================================================================
