------------------------ MODULE InvalidationProtocol ------------------------
(***************************************************************************)
(* What invalidating a cache before a change promises, without the tables, *)
(* the locks and the requests of PoolCache.  A writer announces a change,  *)
(* which empties the cache, and then makes or withdraws it; a reader that  *)
(* finds the cache empty computes the value anew and stores it.  The value *)
(* stored is beyond doubt if no change was announced at that moment and    *)
(* none was made since the reader started.                                 *)
(***************************************************************************)
CONSTANTS
    Writer, Reader,
    Value,          \* what may be cached
    Nothing         \* the cache is empty

VARIABLES
    truth,          \* what should be cached
    cached,
    doubt,          \* the cached value may differ from the truth
    announced,      \* writers whose change is to come
    reader          \* each reader: idle, clean, or overtaken by a change

vars == <<truth, cached, doubt, announced, reader>>

Init ==
    /\ truth \in Value
    /\ cached = Nothing /\ doubt = FALSE
    /\ announced = {}
    /\ reader = [r \in Reader |-> "idle"]

Announce(w) ==
    /\ w \notin announced
    /\ announced' = announced \cup {w}
    /\ cached' = Nothing /\ doubt' = FALSE
    /\ UNCHANGED <<truth, reader>>

Change(w) ==
    /\ w \in announced
    /\ announced' = announced \ {w}
    /\ truth' \in Value
    /\ reader' = [r \in Reader |-> IF reader[r] = "idle" THEN "idle" ELSE "overtaken"]
    /\ UNCHANGED <<cached, doubt>>

Withdraw(w) ==
    /\ w \in announced
    /\ announced' = announced \ {w}
    /\ UNCHANGED <<truth, cached, doubt, reader>>

Start(r) ==
    /\ reader[r] = "idle" /\ cached = Nothing
    /\ reader' = [reader EXCEPT ![r] = "clean"]
    /\ UNCHANGED <<truth, cached, doubt, announced>>

Store(r) ==
    /\ reader[r] # "idle"
    /\ cached' \in Value
    /\ doubt' = (reader[r] = "overtaken" \/ announced # {})
    /\ ~doubt' => cached' = truth
    /\ reader' = [reader EXCEPT ![r] = "idle"]
    /\ UNCHANGED <<truth, announced>>

GiveUp(r) ==
    /\ reader[r] # "idle"
    /\ reader' = [reader EXCEPT ![r] = "idle"]
    /\ UNCHANGED <<truth, cached, doubt, announced>>

Drop ==
    /\ cached # Nothing
    /\ cached' = Nothing /\ doubt' = FALSE
    /\ UNCHANGED <<truth, announced, reader>>

Next ==
    \/ \E w \in Writer : Announce(w) \/ Change(w) \/ Withdraw(w)
    \/ \E r \in Reader : Start(r) \/ Store(r) \/ GiveUp(r)
    \/ Drop

Spec == Init /\ [][Next]_vars

\* A value in the cache is the current one, or in doubt.
Coherent == cached \in {Nothing, truth} \/ doubt

=============================================================================
