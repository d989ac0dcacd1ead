---------------------------------- MODULE TtlCache ----------------------------------
(***************************************************************************)
(* The cache in front of the storefront's queries and of the readiness     *)
(* probe (apps/api/src/cache/ttl-cache.ts): entries live for TTL and the   *)
(* least recently used one is evicted, concurrent calls for one key share  *)
(* one load, and no more than MaxPending loads run at once.                *)
(*                                                                         *)
(* The code between two awaits runs without interruption: a lookup is one  *)
(* step, and so is what follows the end of a load.  What a load reads is   *)
(* the number of the last write to the database; the load may end long     *)
(* after the read.  Definitions whose names begin with Wrong are not part  *)
(* of the model: each is a mistake the definition after it could have had. *)
(***************************************************************************)
EXTENDS Integers, FiniteSets

CONSTANTS
  Call,        \* calls of getOrLoad
  Key,
  Asked,       \* which keys the calls may ask for, a set of functions
  None,        \* no entry, no load
  MaxEntries, MaxPending, TTL,
  MaxTime,     \* bound on the clock
  MaxVersion   \* bound on writes to the database

ASSUME LimitsAssumption == MaxEntries \in Nat \ {0} /\ MaxPending \in Nat /\ TTL \in Nat
ASSUME BoundsAssumption == MaxTime \in Nat /\ MaxVersion \in Nat
ASSUME KeysAssumption == IsFiniteSet(Key) /\ Asked \subseteq [Call -> Key]
ASSUME NamesAssumption == None \notin Call /\ None \notin [value: Nat, expiresAt: Nat, took: Nat]

VARIABLES
  version, clock,
  entry,      \* entry[k]: what the Map entries holds
  used,       \* used[k]: its place in the Map's order, which is that of last use
  uses,       \* uses so far
  pending,    \* pending[k]: the call whose load the Map pending holds
  load,       \* load[c]: the promise of c's load: "none", "running", "read" or "failed"
  value,      \* value[c]: what it has read
  pc,         \* pc[c]: "idle", "waiting" or "done"
  key,        \* key[c]: the key c asks for
  awaits,     \* awaits[c]: the call whose promise c awaits
  reply,      \* reply[c]: "none", "value", "failed" or "saturated"
  got,        \* got[c]: the value c is answered
  began,      \* history: when c called
  took,       \* history: how long the load took that c's answer is from
  floor,      \* history: the latest value anyone was answered for the key before c called
  versionAt   \* history: versionAt[t] is the version when the clock reached t

cache == <<entry, used, uses, pending>>
calls == <<pc, key, awaits, reply, got, began, took, floor>>
vars == <<version, clock, versionAt, cache, load, value, calls>>

-----------------------------------------------------------------------------
Entry == [value: 0..MaxVersion, expiresAt: Nat, took: Nat]
Cached == {k \in Key : entry[k] # None}
Pending == {k \in Key : pending[k] # None}

\* entry.expiresAt > currentTime
WrongFresh(k) == entry[k] # None
Fresh(k) == entry[k] # None /\ entry[k].expiresAt > clock

\* The key is moved to the end of the Map.
Used(k) == used' = [used EXCEPT ![k] = uses + 1] /\ uses' = uses + 1

\* Ends call c.
Answer(c, what) == pc' = [pc EXCEPT ![c] = "done"] /\ reply' = [reply EXCEPT ![c] = what]

\* c is answered value v, from a load that took t.
AnswerValue(c, v, t) ==
  Answer(c, "value") /\ got' = [got EXCEPT ![c] = v] /\ took' = [took EXCEPT ![c] = t]

\* What a call remembers for the properties.
Answered(k) == {d \in Call : reply[d] = "value" /\ key[d] = k}
Begin(c) ==
  /\ pc[c] = "idle"
  /\ began' = [began EXCEPT ![c] = clock]
  /\ \E v \in {0} \cup {got[d] : d \in Answered(key[c])} :
       /\ \A d \in Answered(key[c]) : got[d] <= v
       /\ floor' = [floor EXCEPT ![c] = v]

Init ==
  /\ version = 0 /\ clock = 0 /\ versionAt = [t \in 0..MaxTime |-> 0]
  /\ entry = [k \in Key |-> None] /\ used = [k \in Key |-> 0] /\ uses = 0
  /\ pending = [k \in Key |-> None]
  /\ load = [c \in Call |-> "none"] /\ value = [c \in Call |-> 0]
  /\ pc = [c \in Call |-> "idle"] /\ key \in Asked
  /\ awaits = [c \in Call |-> None] /\ reply = [c \in Call |-> "none"]
  /\ got = [c \in Call |-> 0] /\ began = [c \in Call |-> 0]
  /\ took = [c \in Call |-> 0] /\ floor = [c \in Call |-> 0]

-----------------------------------------------------------------------------
(* A lookup; an expired entry is dropped by whoever finds it *)

Hit(c) ==
  LET k == key[c]
  IN  /\ Begin(c) /\ Fresh(k)
      /\ AnswerValue(c, entry[k].value, entry[k].took)
      /\ Used(k)
      /\ UNCHANGED <<version, clock, versionAt, entry, pending, load, value, key, awaits>>

Absent(c) ==
  /\ Begin(c) /\ ~Fresh(key[c])
  /\ entry' = [entry EXCEPT ![key[c]] = None]
  /\ UNCHANGED <<version, clock, versionAt, used, uses, value, key, got, took>>

\* The load already running for a key, if there is one.
WrongShared(k) == None
Shared(k) == pending[k]

Coalesce(c) ==
  /\ Absent(c) /\ Shared(key[c]) # None
  /\ awaits' = [awaits EXCEPT ![c] = Shared(key[c])]
  /\ pc' = [pc EXCEPT ![c] = "waiting"]
  /\ UNCHANGED <<pending, load, reply>>

WrongFull == Cardinality(Pending) > MaxPending
Full == Cardinality(Pending) >= MaxPending

Saturated(c) ==
  /\ Absent(c) /\ Shared(key[c]) = None /\ Full
  /\ Answer(c, "saturated")
  /\ UNCHANGED <<pending, load, awaits>>

Miss(c) ==
  /\ Absent(c) /\ Shared(key[c]) = None /\ ~Full
  /\ pending' = [pending EXCEPT ![key[c]] = c]
  /\ load' = [load EXCEPT ![c] = "running"]
  /\ awaits' = [awaits EXCEPT ![c] = c]
  /\ pc' = [pc EXCEPT ![c] = "waiting"]
  /\ UNCHANGED reply

-----------------------------------------------------------------------------
(* A load ends, and those who await its promise go on *)

Read(c) ==
  /\ load[c] = "running"
  /\ load' = [load EXCEPT ![c] = "read"]
  /\ value' = [value EXCEPT ![c] = version]
  /\ UNCHANGED <<version, clock, versionAt, cache, calls>>

FailLoad(c) ==
  /\ load[c] = "running"
  /\ load' = [load EXCEPT ![c] = "failed"]
  /\ UNCHANGED <<version, clock, versionAt, cache, value, calls>>

\* The caller whose load it is stores the value, and evicts the first key of the Map
\* when there are too many.
Evicted(k) ==
  {j \in Cached \ {k} : Cardinality(Cached \cup {k}) > MaxEntries
                          /\ \A i \in Cached \ {k} : used[j] <= used[i]}

Store(c) ==
  LET k == key[c]
      t == clock - began[c]
  IN  /\ pc[c] = "waiting" /\ awaits[c] = c /\ load[c] = "read"
      /\ pending' = [pending EXCEPT ![k] = None]
      /\ entry' = [j \in Key |->
                     IF j = k THEN [value |-> value[c], expiresAt |-> clock + TTL, took |-> t]
                     ELSE IF j \in Evicted(k) THEN None ELSE entry[j]]
      /\ Used(k)
      /\ AnswerValue(c, value[c], t)
      /\ UNCHANGED <<version, clock, versionAt, load, value, key, awaits, began, floor>>

\* After a failure nothing stays behind.
WrongFreed(k) == pending
Freed(k) == [pending EXCEPT ![k] = None]

Throw(c) ==
  /\ pc[c] = "waiting" /\ awaits[c] = c /\ load[c] = "failed"
  /\ pending' = Freed(key[c])
  /\ Answer(c, "failed")
  /\ UNCHANGED <<version, clock, versionAt, entry, used, uses, load, value, key, awaits, got,
                 began, took, floor>>

\* A coalesced caller.
Settled(d) == load[d] \in {"read", "failed"}

Receive(c) ==
  LET d == awaits[c]
  IN  /\ pc[c] = "waiting" /\ d # c /\ Settled(d)
      /\ \/ load[d] = "read" /\ AnswerValue(c, value[d], clock - began[d])
         \/ load[d] = "failed" /\ Answer(c, "failed") /\ UNCHANGED <<got, took>>
      /\ UNCHANGED <<version, clock, versionAt, cache, load, value, key, awaits, began, floor>>

-----------------------------------------------------------------------------
Write ==
  /\ version < MaxVersion /\ version' = version + 1
  /\ UNCHANGED <<clock, versionAt, cache, load, value, calls>>

Tick ==
  /\ clock < MaxTime /\ clock' = clock + 1
  /\ versionAt' = [versionAt EXCEPT ![clock + 1] = version]
  /\ UNCHANGED <<version, cache, load, value, calls>>

Proceed(c) == Read(c) \/ FailLoad(c) \/ Store(c) \/ Throw(c) \/ Receive(c)

Next ==
  \/ \E c \in Call : Hit(c) \/ Coalesce(c) \/ Saturated(c) \/ Miss(c) \/ Proceed(c)
  \/ Write \/ Tick

Spec == Init /\ [][Next]_vars

\* Loads end, and the event loop runs what awaits them.
FairSpec == Spec /\ \A c \in Call : WF_vars(Proceed(c))

-----------------------------------------------------------------------------
(* Properties *)

\* Every variable has its type.
TypeOK ==
  /\ version \in 0..MaxVersion /\ clock \in 0..MaxTime
  /\ versionAt \in [0..MaxTime -> 0..MaxVersion]
  /\ entry \in [Key -> Entry \cup {None}] /\ used \in [Key -> Nat] /\ uses \in Nat
  /\ pending \in [Key -> Call \cup {None}]
  /\ load \in [Call -> {"none", "running", "read", "failed"}]
  /\ value \in [Call -> 0..MaxVersion]
  /\ pc \in [Call -> {"idle", "waiting", "done"}] /\ key \in [Call -> Key]
  /\ awaits \in [Call -> Call \cup {None}]
  /\ reply \in [Call -> {"none", "value", "failed", "saturated"}]
  /\ got \in [Call -> 0..MaxVersion] /\ began \in [Call -> 0..MaxTime]
  /\ took \in [Call -> Nat] /\ floor \in [Call -> 0..MaxVersion]

\* The cache never outgrows its limits, whatever is loading, failing or expiring.
Bounded == Cardinality(Cached) <= MaxEntries /\ Cardinality(Pending) <= MaxPending

\* A call that begins after another was answered is never answered an older value for
\* that key: loads of one key never overlap, so none can store what a later one replaced.
MonotonicReads == \A c \in Call : reply[c] = "value" => floor[c] <= got[c]

\* A write is visible to every call that begins TTL, and the time of one load, after it:
\* hits do not prolong an entry, and a shared load is not older than that.
WritesBecomeVisible ==
  \A c \in Call, t \in 0..MaxTime :
    (reply[c] = "value" /\ t <= began[c] - TTL - took[c]) => versionAt[t] <= got[c]

\* Every call is answered, coalesced ones also when the shared load fails; and every
\* place that a load takes is given back, so that no failure blocks its key for ever
\* or lowers the number of loads there is room for.
EveryCallAnswered ==
  /\ \A c \in Call : pc[c] = "waiting" ~> pc[c] = "done"
  /\ \A k \in Key : pending[k] # None ~> pending[k] = None
-----------------------------------------------------------------------------
(* The inductive invariant behind MonotonicReads and WritesBecomeVisible *)

Owns(c) == pc[c] = "waiting" /\ awaits[c] = c

\* The loads for k that have read their value.
Reads(k) == {d \in Call : load[d] = "read" /\ key[d] = k}

\* A load occupies its place in pending until its owner goes on, and no longer; so
\* loads of one key never overlap, and nothing stays behind.
PendingSound ==
  /\ \A k \in Key : pending[k] # None =>
       Owns(pending[k]) /\ key[pending[k]] = k /\ load[pending[k]] # "none" /\ entry[k] = None
  /\ \A c \in Call : (Owns(c) \/ load[c] = "running") => pending[key[c]] = c

\* Whoever waits, waits for a load of its own key.
Waiters ==
  \A c \in Call :
    /\ (pc[c] = "waiting" => awaits[c] # None /\ key[awaits[c]] = key[c]
                               /\ load[awaits[c]] # "none")
    /\ (load[c] # "none" => pc[c] # "idle" /\ awaits[c] = c)
    /\ (pc[c] # "done" => reply[c] = "none")

\* The values of k that loads have read and callers were answered.
Known(k) == {value[d] : d \in Reads(k)} \cup {got[d] : d \in Answered(k)}

\* What is stored for a key, or about to be, is the latest value that is known.
Latest ==
  /\ \A k \in Key : \A v \in Known(k) :
       /\ (entry[k] # None => v <= entry[k].value)
       /\ (pending[k] # None /\ load[pending[k]] = "read" => v <= value[pending[k]])
  /\ \A c \in Call : value[c] <= version /\ got[c] <= version /\ floor[c] <= version
  /\ \A k \in Key : entry[k] # None => entry[k].value <= version
  /\ \A c \in Call : (pc[c] = "waiting" /\ load[awaits[c]] = "read") =>
       floor[c] <= value[awaits[c]]

\* A value is not older than the start of the load that read it.
Dated ==
  /\ \A t \in 0..MaxTime : versionAt[t] <= version
  /\ \A c \in Call : began[c] <= clock
  /\ \A c \in Call, t \in 0..MaxTime :
       (load[c] = "read" /\ t <= began[c]) => versionAt[t] <= value[c]
  /\ \A k \in Key : entry[k] # None =>
       /\ entry[k].expiresAt - TTL - entry[k].took <= clock
       /\ \A t \in 0..MaxTime :
            t <= entry[k].expiresAt - TTL - entry[k].took => versionAt[t] <= entry[k].value

\* The inductive invariant: what the proofs carry from step to step.
IInv ==
  /\ TypeOK /\ MonotonicReads /\ WritesBecomeVisible
  /\ PendingSound /\ Waiters /\ Latest /\ Dated
================================================================================
