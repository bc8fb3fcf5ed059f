-------------------------- MODULE HeaderCacheProofs --------------------------
(***************************************************************************)
(* Theorems about HeaderCache, for any number of requests, bots and edits  *)
(* and all lives and limits: the variables keep their types, and a title   *)
(* that a request is served is no older than its life and the duration of  *)
(* the reads behind it.                                                    *)
(*                                                                         *)
(* The age of a title is not bounded by anything a request can see.  What  *)
(* bounds it is followed along the way a row takes: from the database to   *)
(* the coroutine that read it (ReadsInv), from there to the dictionary and *)
(* through the entry's life (EntryInv).                                    *)
(***************************************************************************)
EXTENDS HeaderCache, TLAPS

Value == Name \cup {None}

Label == Resolving \cup {"idle", "upstream", "done"}

\* The types of functions, without which TypeOK is not inductive.
Typed ==
    /\ service \in {"app", "title"} /\ connected \in BOOLEAN
    /\ rw \in BOOLEAN /\ bot \in Value /\ edits \in 0..MaxEdits
    /\ cache # None => cache \in [value: Value, left: -1..Ttl, lag: 0..MaxLag]
    /\ pc \in [Req -> Label] /\ got \in [Req -> BOOLEAN \cup Value]
    /\ hdrs \in [Req -> Value] /\ timer \in [Req -> 0..Timeout]
    /\ lag \in [Req -> 0..MaxLag] /\ since \in [Req -> 0..MaxLag]
    /\ age \in [Facts -> 0..MaxAge]

\* What the databases hold is of no age.
HoldsInv == age[<<"rw", rw>>] = 0 /\ age[<<"bot", bot>>] = 0

\* A query returns a column's value, and the count of its delay begins with the
\* first read and runs no faster than the time limit's.
Query(r) ==
    /\ pc[r] = "rw_answered" => got[r] \in BOOLEAN
    /\ pc[r] = "bot_answered" => got[r] \in Value
    /\ pc[r] \notin {"rw_answered", "bot", "bot_answered"} => lag[r] = 0
    /\ service = "title" => lag[r] <= timer[r]

QueryInv == \A r \in Req : Query(r)

\* What a request has read was there when it read it.
Reads(r) ==
    lag[r] < MaxLag =>
        /\ pc[r] = "rw_answered" => age[<<"rw", got[r]>>] <= lag[r]
        /\ pc[r] \in {"bot", "bot_answered"} => age[<<"rw", TRUE>>] <= lag[r]
        /\ pc[r] = "bot_answered" => age[<<"bot", got[r]>>] <= lag[r]

ReadsInv == \A r \in Req : Reads(r)

\* By the ages given, the rows that explain a value were there n ticks ago.
Within(ages, value, n) ==
    /\ value = None => ages[<<"rw", FALSE>>] <= n \/ ages[<<"bot", None>>] <= n
    /\ value # None => ages[<<"rw", TRUE>>] <= n /\ ages[<<"bot", value>>] <= n

Life(value) == IF value = None THEN NullTtl ELSE Ttl

\* An entry that is alive has aged by the part of its life that is over.
Sound(entry, ages) ==
    Alive(entry) =>
        /\ entry.lag < MaxLag =>
            Within(ages, entry.value, Life(entry.value) - entry.left + entry.lag)
        /\ service = "title" => entry.lag <= Timeout

EntryInv == Sound(cache, age)

IInv == Typed /\ HoldsInv /\ QueryInv /\ ReadsInv /\ EntryInv

-----------------------------------------------------------------------------
\* The operators of the model.

LEMMA FactsAre ==
    /\ \A b \in BOOLEAN : <<"rw", b>> \in Facts
    /\ \A v \in Value : <<"bot", v>> \in Facts
BY DEF Facts, Value

LEMMA StoreTyped ==
    ASSUME NEW value \in Value, NEW l \in 0..MaxLag
    PROVE  Store(value, l) \in [value: Value, left: -1..Ttl, lag: 0..MaxLag]
BY ConstantsAssumption DEF Store

LEMMA LesserIs ==
    ASSUME NEW a \in Nat, NEW b \in Nat
    PROVE  /\ Lesser(a, b) \in Nat /\ Lesser(a, b) <= a
           /\ a <= b => Lesser(a, b) = a
BY DEF Lesser

\* No step but a tick lets anything age, and a tick by one at most.
LEMMA EditAge ==
    ASSUME Typed, Edit, NEW f \in Facts
    PROVE  age'[f] <= age[f]
<1>1. age[f] \in Nat
  BY ConstantsAssumption DEF Typed, MaxAge
<1>2. age'[f] = age[f] \/ age'[f] = 0
  BY DEF Typed, Edit
<1> QED BY <1>1, <1>2

LEMMA TickAge ==
    ASSUME Typed, Tick, NEW f \in Facts
    PROVE  age'[f] <= age[f] + 1
<1>1. age[f] \in Nat
  BY ConstantsAssumption DEF Typed, MaxAge
<1>2. age'[f] = 0 \/ age'[f] = age[f] + 1 \/ (age'[f] = MaxAge /\ MaxAge < age[f] + 1)
  <2>1. age'[f] = IF f \in Holds THEN 0 ELSE Lesser(age[f] + 1, MaxAge)
    BY DEF Tick
  <2> QED BY <1>1, <2>1, ConstantsAssumption DEF Lesser, MaxAge
<1> QED BY <1>1, <1>2, ConstantsAssumption DEF MaxAge

-----------------------------------------------------------------------------
\* The types.

LEMMA DecideTyped ==
    ASSUME Typed, NEW r \in Req, NEW value \in Value, NEW l \in 0..MaxLag,
           Decide(r, value, l)
    PROVE  /\ pc' \in [Req -> Label] /\ got' \in [Req -> BOOLEAN \cup Value]
           /\ hdrs' \in [Req -> Value] /\ timer' \in [Req -> 0..Timeout]
           /\ lag' \in [Req -> 0..MaxLag] /\ since' \in [Req -> 0..MaxLag]
<1> USE ConstantsAssumption
<1>1. got' \in [Req -> BOOLEAN \cup Value]
  BY DEF Decide, Typed, Value
<1>2. pc' \in [Req -> Label]
  BY DEF Decide, Typed, Label
<1> QED BY <1>1, <1>2 DEF Decide, Typed

LEMMA InitIInv == Init => IInv
<1> SUFFICES ASSUME Init PROVE IInv
  OBVIOUS
<1> USE ConstantsAssumption
<1>1. Typed
  <2>1. age \in [Facts -> 0..MaxAge]
    BY DEF Init, MaxAge
  <2> QED BY <2>1 DEF Init, Typed, Value, Label
<1>2. HoldsInv
  <2>1. rw \in BOOLEAN /\ bot \in Value
    BY DEF Init, Value
  <2> QED BY <2>1, FactsAre DEF Init, HoldsInv, Holds
<1>3. QueryInv
  <2> SUFFICES ASSUME NEW r \in Req
               PROVE  /\ pc[r] = "idle" /\ lag[r] = 0 /\ lag[r] <= timer[r]
    BY Zenon DEF QueryInv, Query
  <2> QED BY DEF Init
<1>4. ReadsInv
  BY DEF Init, ReadsInv, Reads
<1>5. EntryInv
  BY DEF Init, EntryInv, Sound, Alive
<1> QED BY <1>1, <1>2, <1>3, <1>4, <1>5 DEF IInv

LEMMA TypeStep == Typed /\ QueryInv /\ [Next]_vars => Typed'
<1> SUFFICES ASSUME Typed, QueryInv, [Next]_vars PROVE Typed'
  OBVIOUS
<1> USE ConstantsAssumption DEF Typed, Value, Label
<1>1. ASSUME NEW r \in Req, StartApp(r) PROVE Typed'
  BY <1>1 DEF StartApp, Begin, world
<1>2. ASSUME NEW r \in Req, AppUpstream(r) PROVE Typed'
  BY <1>2 DEF AppUpstream, Goto, world, Resolving
<1>3. ASSUME NEW r \in Req, StartTitle(r) PROVE Typed'
  <2>1. pc' \in [Req -> Label]
    BY <1>3 DEF StartTitle, Begin, Resolving
  <2> HIDE DEF Label
  <2> QED BY <1>3, <2>1 DEF StartTitle, Begin, world
<1>4. ASSUME NEW r \in Req, TitleUpstream(r) PROVE Typed'
  BY <1>4 DEF TitleUpstream, Goto, world
<1>5. ASSUME NEW r \in Req, Lookup(r) PROVE Typed'
  <2>1. CASE ~connected /\ Decide(r, None, MaxLag) /\ UNCHANGED cache
    BY <1>5, <2>1, DecideTyped DEF Lookup, world
  <2>2. CASE Alive(cache) /\ Decide(r, cache.value, cache.lag) /\ cache' = cache
    <3>1. cache.value \in Value /\ cache.lag \in 0..MaxLag
      BY <2>2 DEF Alive
    <3> QED BY <1>5, <2>2, <3>1, DecideTyped DEF Lookup, world
  <2>3. CASE Goto(r, "rw") /\ cache' = None /\ UNCHANGED <<got, lag>>
    BY <1>5, <2>3 DEF Lookup, Goto, world, Resolving
  <2> QED BY <1>5, <2>1, <2>2, <2>3 DEF Lookup, AfterHit
<1>6. ASSUME NEW r \in Req, ReadRw(r) PROVE Typed'
  BY <1>6 DEF ReadRw, Goto, world, Resolving
<1>7. ASSUME NEW r \in Req, ResumeRw(r) PROVE Typed'
  <2>1. CASE Goto(r, "bot") /\ UNCHANGED <<cache, got, lag>>
    BY <1>7, <2>1 DEF ResumeRw, Goto, world, Resolving
  <2>2. CASE Decide(r, None, lag[r]) /\ cache' = Store(None, lag[r])
    BY <1>7, <2>2, StoreTyped, DecideTyped DEF ResumeRw, world
  <2> QED BY <1>7, <2>1, <2>2 DEF ResumeRw
<1>8. ASSUME NEW r \in Req, ReadBot(r) PROVE Typed'
  BY <1>8 DEF ReadBot, Goto, world, Resolving
<1>9. ASSUME NEW r \in Req, ResumeBot(r) PROVE Typed'
  <2>1. got[r] \in Value /\ lag[r] \in 0..MaxLag
    BY <1>9 DEF QueryInv, Query, ResumeBot
  <2> QED BY <1>9, <2>1, StoreTyped, DecideTyped DEF ResumeBot, world
<1>10. ASSUME NEW r \in Req, QueryFails(r) PROVE Typed'
  BY <1>10 DEF QueryFails, AfterFailure, Decide, world
<1>11. ASSUME NEW r \in Req, WaitForTimeout(r) PROVE Typed'
  BY <1>11 DEF WaitForTimeout, Decide, world
<1>12. CASE Edit
  <2>1. age' \in [Facts -> 0..MaxAge]
    <3>1. 0 \in 0..MaxAge
      BY DEF MaxAge
    <3> QED BY <1>12, <3>1 DEF Edit
  <2>2. rw' \in BOOLEAN /\ bot' \in Value
    BY <1>12 DEF Edit
  <2> QED BY <1>12, <2>1, <2>2 DEF Edit, req
<1>13. CASE Tick
  <2>1. age' \in [Facts -> 0..MaxAge]
    <3>1. \A f \in Facts : (IF f \in Holds THEN 0 ELSE Lesser(age[f] + 1, MaxAge)) \in 0..MaxAge
      BY DEF MaxAge, Lesser
    <3> QED BY <1>13, <3>1 DEF Tick
  <2>2. /\ timer' \in [Req -> 0..Timeout]
        /\ lag' \in [Req -> 0..MaxLag]
    <3>1. \A r \in Req : Lesser(timer[r] + 1, Timeout) \in 0..Timeout
      BY DEF Lesser
    <3>2. \A r \in Req : Lesser(lag[r] + 1, MaxLag) \in 0..MaxLag
      BY DEF Lesser
    <3> QED BY <1>13, <3>1, <3>2 DEF Tick
  <2>3. cache' # None => cache' \in [value: Value, left: -1..Ttl, lag: 0..MaxLag]
    <3>1. CASE Alive(cache)
      <4>1. /\ cache' = [cache EXCEPT !.left = @ - 1]
            /\ cache \in [value: Value, left: -1..Ttl, lag: 0..MaxLag]
            /\ cache.left >= 0
        BY <1>13, <3>1 DEF Tick, Alive
      <4>2. cache.left - 1 \in -1..Ttl
        BY <4>1
      <4> QED BY <4>1, <4>2
    <3>2. CASE ~Alive(cache)
      BY <1>13, <3>2 DEF Tick
    <3> QED BY <3>1, <3>2
  <2> QED BY <1>13, <2>1, <2>2, <2>3 DEF Tick, world
<1>14. CASE UNCHANGED vars
  BY <1>14 DEF vars, world, req
<1> QED
  BY <1>1, <1>2, <1>3, <1>4, <1>5, <1>6, <1>7, <1>8, <1>9, <1>10, <1>11, <1>12,
     <1>13, <1>14 DEF Next

-----------------------------------------------------------------------------
\* What a request does leaves the databases, the clock and the others alone.

RequestStep(r) ==
    \/ StartApp(r) \/ AppUpstream(r) \/ StartTitle(r) \/ TitleUpstream(r)
    \/ Lookup(r) \/ ReadRw(r) \/ ResumeRw(r) \/ ReadBot(r) \/ ResumeBot(r)
    \/ QueryFails(r) \/ WaitForTimeout(r)

Same(x) ==
    /\ pc'[x] = pc[x] /\ got'[x] = got[x] /\ lag'[x] = lag[x]
    /\ timer'[x] = timer[x]

LEMMA Frame ==
    ASSUME Typed, NEW r \in Req, RequestStep(r)
    PROVE  /\ UNCHANGED <<world, age>>
           /\ \A x \in Req \ {r} : Same(x)
<1>1. UNCHANGED <<world, age>>
  BY DEF RequestStep, StartApp, AppUpstream, StartTitle, TitleUpstream, Begin,
         Lookup, ReadRw, ResumeRw, ReadBot, ResumeBot, QueryFails, WaitForTimeout
<1>2. ASSUME NEW x \in Req \ {r} PROVE Same(x)
  <2> USE <1>2 DEF Same, Typed
  <2>1. ASSUME NEW value, NEW l, Decide(r, value, l) PROVE Same(x)
    BY <2>1 DEF Decide
  <2>2. CASE StartApp(r) \/ StartTitle(r)
    BY <2>2 DEF StartApp, StartTitle, Begin
  <2>3. CASE AppUpstream(r) \/ TitleUpstream(r)
    BY <2>3 DEF AppUpstream, TitleUpstream, Goto
  <2>4. CASE Lookup(r)
    BY <2>1, <2>4 DEF Lookup, Goto
  <2>5. CASE ReadRw(r) \/ ReadBot(r)
    BY <2>5 DEF ReadRw, ReadBot, Goto
  <2>6. CASE ResumeRw(r)
    BY <2>1, <2>6 DEF ResumeRw, Goto
  <2>7. CASE ResumeBot(r) \/ QueryFails(r) \/ WaitForTimeout(r)
    BY <2>1, <2>7 DEF ResumeBot, QueryFails, WaitForTimeout
  <2> QED BY <2>2, <2>3, <2>4, <2>5, <2>6, <2>7 DEF RequestStep
<1> QED BY <1>1, <1>2

\* A request that has its headers counts no delay any more.
LEMMA Decided ==
    ASSUME Typed, NEW r \in Req, NEW value, NEW l, Decide(r, value, l)
    PROVE  /\ pc'[r] \notin Resolving /\ lag'[r] = 0 /\ timer'[r] = 0
           /\ hdrs'[r] = value /\ since'[r] = l
BY DEF Decide, Typed, Resolving

LEMMA HoldsStep == Typed /\ HoldsInv /\ [Next]_vars => HoldsInv'
<1> SUFFICES ASSUME Typed, HoldsInv, [Next]_vars PROVE HoldsInv'
  OBVIOUS
<1>0. <<"rw", rw>> \in Facts /\ <<"bot", bot>> \in Facts
  BY FactsAre DEF Typed
<1>1. ASSUME NEW r \in Req, RequestStep(r) PROVE HoldsInv'
  BY <1>1, Frame DEF HoldsInv, world
<1>2. CASE Edit
  <2>1. rw' \in BOOLEAN /\ bot' \in Value
    BY <1>2 DEF Edit, Typed, Value
  <2>2. <<"rw", rw'>> \in Facts /\ <<"bot", bot'>> \in Facts
    BY <2>1, FactsAre
  <2> QED BY <1>2, <2>2 DEF Edit, HoldsInv, Typed
<1>3. CASE Tick
  BY <1>0, <1>3 DEF Tick, HoldsInv, Holds, world
<1>4. CASE UNCHANGED vars
  BY <1>4 DEF vars, world, HoldsInv
<1> QED BY <1>1, <1>2, <1>3, <1>4 DEF Next, RequestStep

LEMMA QueryStep == Typed /\ QueryInv /\ [Next]_vars => QueryInv'
<1> SUFFICES ASSUME Typed, QueryInv, [Next]_vars PROVE QueryInv'
  OBVIOUS
<1> USE ConstantsAssumption
<1>1. ASSUME NEW r \in Req, RequestStep(r) PROVE QueryInv'
  <2>1. service' = service
    BY <1>1, Frame DEF world
  <2>2. ASSUME NEW x \in Req \ {r} PROVE Query(x)'
    <3>1. Same(x) /\ Query(x)
      BY <1>1, <2>2, Frame DEF QueryInv
    <3> QED BY <2>1, <3>1 DEF Query, Same
  <2>3. Query(r)
    BY DEF QueryInv
  <2>4. ASSUME NEW value, NEW l, Decide(r, value, l) PROVE Query(r)'
    <3>1. pc'[r] \notin Resolving /\ lag'[r] = 0 /\ lag'[r] <= timer'[r]
      BY <2>4, Decided
    <3> QED BY <3>1, Zenon DEF Query, Resolving
  <2>5. ASSUME Same(r) \/ (lag'[r] = lag[r] /\ timer'[r] = timer[r]),
               pc[r] \in {"idle", "done", "upstream", "lookup"},
               pc'[r] \in {"idle", "done", "upstream", "lookup", "rw"}
        PROVE  Query(r)'
    BY <2>1, <2>3, <2>5 DEF Query, Same
  <2>6. Query(r)'
    <3>1. CASE StartApp(r) \/ StartTitle(r)
      BY <2>5, <3>1 DEF StartApp, StartTitle, Begin, Typed
    <3>2. CASE AppUpstream(r) \/ TitleUpstream(r)
      BY <2>5, <3>2 DEF AppUpstream, TitleUpstream, Goto, Typed
    <3>3. CASE Lookup(r)
      BY <2>4, <2>5, <3>3 DEF Lookup, Goto, Typed
    <3>4. CASE ReadRw(r)
      BY <2>1, <2>3, <3>4 DEF ReadRw, Goto, Typed, Query
    <3>5. CASE ResumeRw(r)
      <4>1. CASE Goto(r, "bot") /\ UNCHANGED <<cache, got, lag>>
        BY <2>1, <2>3, <4>1 DEF Goto, Typed, Query
      <4> QED BY <2>4, <3>5, <4>1 DEF ResumeRw
    <3>6. CASE ReadBot(r)
      BY <2>1, <2>3, <3>6 DEF ReadBot, Goto, Typed, Query
    <3>7. CASE ResumeBot(r) \/ QueryFails(r) \/ WaitForTimeout(r)
      BY <2>4, <3>7 DEF ResumeBot, QueryFails, WaitForTimeout
    <3> QED BY <1>1, <3>1, <3>2, <3>3, <3>4, <3>5, <3>6, <3>7 DEF RequestStep
  <2> QED BY <2>2, <2>6 DEF QueryInv
<1>2. CASE Edit
  BY <1>2 DEF Edit, req, QueryInv, Query
<1>3. CASE Tick
  <2> SUFFICES ASSUME NEW r \in Req PROVE Query(r)'
    BY DEF QueryInv
  <2>1. Query(r) /\ service' = service /\ pc'[r] = pc[r] /\ got'[r] = got[r]
    BY <1>3 DEF QueryInv, Tick, world
  <2>2. /\ timer[r] \in 0..Timeout /\ lag[r] \in 0..MaxLag
        /\ timer'[r] \in {timer[r], Lesser(timer[r] + 1, Timeout)}
        /\ service = "title" /\ pc[r] \in Resolving
            => timer'[r] = Lesser(timer[r] + 1, Timeout)
        /\ pc[r] \in {"rw_answered", "bot", "bot_answered"}
            => lag'[r] = Lesser(lag[r] + 1, MaxLag)
        /\ pc[r] \notin {"rw_answered", "bot", "bot_answered"} => lag'[r] = lag[r]
    BY <1>3 DEF Tick, Typed
  <2>3. service = "title" /\ pc[r] \in Resolving => timer[r] # Timeout
    BY <1>3 DEF Tick, Overdue
  <2>4. service = "title" => lag'[r] <= timer'[r]
    <3> SUFFICES ASSUME service = "title" PROVE lag'[r] <= timer'[r]
      OBVIOUS
    <3>1. lag[r] <= timer[r]
      BY <2>1, Zenon DEF Query
    <3>2. /\ timer[r] \in Nat /\ lag[r] \in Nat /\ Timeout \in Nat /\ MaxLag \in Nat
          /\ timer[r] <= Timeout
      BY <2>2
    <3>3. CASE pc[r] \in {"rw_answered", "bot", "bot_answered"}
      <4>1. timer'[r] = Lesser(timer[r] + 1, Timeout) /\ timer[r] + 1 <= Timeout
        BY <2>2, <2>3, <3>2, <3>3 DEF Resolving
      <4>2. lag'[r] = Lesser(lag[r] + 1, MaxLag)
        BY <2>2, <3>3
      <4>3. timer[r] + 1 \in Nat /\ lag[r] + 1 \in Nat
        BY <3>2
      <4>4. timer'[r] = timer[r] + 1
        BY <3>2, <4>1, <4>3, LesserIs
      <4>5. lag'[r] \in Nat /\ lag'[r] <= lag[r] + 1
        BY <3>2, <4>2, <4>3 DEF Lesser
      <4> QED BY <3>1, <3>2, <4>4, <4>5
    <3>4. CASE pc[r] \notin {"rw_answered", "bot", "bot_answered"}
      <4>1. lag'[r] = lag[r]
        BY <2>2, <3>4
      <4>2. lag'[r] = 0
        BY <2>1, <3>4, <4>1, Zenon DEF Query
      <4>3. timer'[r] \in Nat
        BY <2>2, <3>2 DEF Lesser
      <4> QED BY <4>2, <4>3
    <3> QED BY <3>3, <3>4
  <2>5. pc[r] \notin {"rw_answered", "bot", "bot_answered"} => lag'[r] = 0
    BY <2>1, <2>2 DEF Query
  <2> QED BY <2>1, <2>4, <2>5, Zenon DEF Query
<1>4. CASE UNCHANGED vars
  BY <1>4 DEF vars, world, req, QueryInv, Query
<1> QED BY <1>1, <1>2, <1>3, <1>4 DEF Next, RequestStep

-----------------------------------------------------------------------------
\* What has been read, on its way to the dictionary.

LEMMA ReadsStep == IInv /\ [Next]_vars => ReadsInv'
<1> SUFFICES ASSUME IInv, [Next]_vars PROVE ReadsInv'
  OBVIOUS
<1> USE ConstantsAssumption
<1>0. Typed /\ HoldsInv /\ QueryInv /\ ReadsInv
  BY DEF IInv
<1>1. ASSUME NEW r \in Req, RequestStep(r) PROVE ReadsInv'
  <2>1. age' = age
    BY <1>0, <1>1, Frame
  <2>2. ASSUME NEW x \in Req \ {r} PROVE Reads(x)'
    <3>1. Same(x) /\ Reads(x)
      BY <1>0, <1>1, <2>2, Frame DEF ReadsInv
    <3> QED BY <2>1, <3>1 DEF Reads, Same
  <2>3. Reads(r) /\ Query(r)
    BY <1>0 DEF ReadsInv, QueryInv
  <2>4. ASSUME pc'[r] \notin {"rw_answered", "bot", "bot_answered"} PROVE Reads(r)'
    BY <2>4 DEF Reads
  <2>5. ASSUME NEW value, NEW l, Decide(r, value, l) PROVE Reads(r)'
    BY <1>0, <2>4, <2>5, Decided DEF Resolving
  <2>6. Reads(r)'
    <3>1. CASE StartApp(r) \/ StartTitle(r)
      BY <1>0, <2>4, <3>1 DEF StartApp, StartTitle, Begin, Typed
    <3>2. CASE AppUpstream(r) \/ TitleUpstream(r)
      BY <1>0, <2>4, <3>2 DEF AppUpstream, TitleUpstream, Goto, Typed
    <3>3. CASE Lookup(r)
      BY <1>0, <2>4, <2>5, <3>3 DEF Lookup, Goto, Typed
    <3>4. CASE ReadRw(r)
      <4>1. /\ pc'[r] = "rw_answered" /\ got'[r] = rw /\ lag'[r] = lag[r]
            /\ lag[r] \in Nat
        BY <1>0, <3>4 DEF ReadRw, Goto, Typed
      <4>2. age[<<"rw", got'[r]>>] = 0
        BY <1>0, <4>1 DEF HoldsInv
      <4> QED BY <2>1, <4>1, <4>2 DEF Reads
    <3>5. CASE ResumeRw(r)
      <4>1. CASE got[r] = TRUE /\ Goto(r, "bot") /\ UNCHANGED <<cache, got, lag>>
        <5>1. pc[r] = "rw_answered" /\ pc'[r] = "bot" /\ lag'[r] = lag[r]
          BY <1>0, <3>5, <4>1 DEF ResumeRw, Goto, Typed
        <5>2. lag[r] < MaxLag => age[<<"rw", TRUE>>] <= lag[r]
          BY <2>3, <4>1, <5>1 DEF Reads
        <5> QED BY <2>1, <5>1, <5>2 DEF Reads
      <4> QED BY <2>5, <3>5, <4>1 DEF ResumeRw
    <3>6. CASE ReadBot(r)
      <4>1. /\ pc[r] = "bot" /\ pc'[r] = "bot_answered" /\ got'[r] = bot
            /\ lag'[r] = lag[r] /\ lag[r] \in Nat
        BY <1>0, <3>6 DEF ReadBot, Goto, Typed
      <4>2. age[<<"bot", got'[r]>>] = 0
        BY <1>0, <4>1 DEF HoldsInv
      <4> QED BY <2>1, <2>3, <4>1, <4>2 DEF Reads
    <3>7. CASE ResumeBot(r) \/ QueryFails(r) \/ WaitForTimeout(r)
      BY <2>5, <3>7 DEF ResumeBot, QueryFails, WaitForTimeout
    <3> QED BY <1>1, <3>1, <3>2, <3>3, <3>4, <3>5, <3>6, <3>7 DEF RequestStep
  <2> QED BY <2>2, <2>6 DEF ReadsInv
<1>2. ASSUME NEW r \in Req
      PROVE  /\ pc[r] = "rw_answered" => <<"rw", got[r]>> \in Facts
             /\ <<"rw", TRUE>> \in Facts
             /\ pc[r] = "bot_answered" => <<"bot", got[r]>> \in Facts
  BY <1>0, <1>2, FactsAre DEF QueryInv, Query
<1>3. CASE Edit
  <2> SUFFICES ASSUME NEW r \in Req PROVE Reads(r)'
    BY DEF ReadsInv
  <2>1. /\ Reads(r) /\ pc' = pc /\ got' = got /\ lag' = lag /\ lag[r] \in Nat
    BY <1>0, <1>3 DEF Edit, req, ReadsInv, Typed
  <2>2. \A f \in Facts : age[f] \in Nat /\ age'[f] \in Nat /\ age'[f] <= age[f]
    <3>1. age \in [Facts -> 0..MaxAge] /\ age' \in [Facts -> 0..MaxAge] /\ MaxAge \in Nat
      BY <1>0, TypeStep DEF Typed, MaxAge
    <3> QED BY <1>0, <1>3, <3>1, EditAge
  <2> QED BY <1>2, <2>1, <2>2 DEF Reads
<1>4. CASE Tick
  <2> SUFFICES ASSUME NEW r \in Req PROVE Reads(r)'
    BY DEF ReadsInv
  <2>1. /\ Reads(r) /\ pc' = pc /\ got' = got /\ lag[r] \in Nat
    BY <1>0, <1>4 DEF Tick, ReadsInv, Typed
  <2>2. \A f \in Facts : age[f] \in Nat /\ age'[f] \in Nat /\ age'[f] <= age[f] + 1
    <3>1. age \in [Facts -> 0..MaxAge] /\ age' \in [Facts -> 0..MaxAge] /\ MaxAge \in Nat
      BY <1>0, TypeStep DEF Typed, MaxAge
    <3> QED BY <1>0, <1>4, <3>1, TickAge
  <2>3. pc[r] \in {"rw_answered", "bot", "bot_answered"} /\ lag'[r] < MaxLag
            => lag[r] < MaxLag /\ lag'[r] = lag[r] + 1
    BY <1>0, <1>4, <2>1 DEF Tick, Lesser, Typed
  <2> QED BY <1>2, <2>1, <2>2, <2>3 DEF Reads
<1>5. CASE UNCHANGED vars
  BY <1>0, <1>5 DEF vars, req, ReadsInv, Reads
<1> QED BY <1>1, <1>3, <1>4, <1>5 DEF Next, RequestStep

-----------------------------------------------------------------------------
\* The entry of the dictionary.

LEMMA Older ==
    ASSUME NEW a \in [Facts -> Nat], NEW b \in [Facts -> Nat],
           NEW value \in Value, NEW n \in Int, NEW d \in Int,
           \A f \in Facts : b[f] <= a[f] + d,
           Within(a, value, n)
    PROVE  Within(b, value, n + d)
<1>1. \A f \in Facts : a[f] \in Nat /\ b[f] \in Nat /\ (a[f] <= n => b[f] <= n + d)
  OBVIOUS
<1>2. CASE value = None
  <2>1. <<"rw", FALSE>> \in Facts /\ <<"bot", None>> \in Facts
    BY FactsAre DEF Value
  <2> QED BY <1>1, <1>2, <2>1 DEF Within
<1>3. CASE value # None
  <2>1. <<"rw", TRUE>> \in Facts /\ <<"bot", value>> \in Facts
    BY FactsAre
  <2> QED BY <1>1, <1>3, <2>1 DEF Within
<1> QED BY <1>2, <1>3

\* What a resolution has read is sound to store and to serve at once.
LEMMA Answered ==
    ASSUME IInv, NEW r \in Req, NEW value \in Value,
           \/ pc[r] = "rw_answered" /\ got[r] = FALSE /\ value = None
           \/ pc[r] = "bot_answered" /\ value = got[r]
    PROVE  /\ lag[r] < MaxLag => Within(age, value, lag[r])
           /\ service = "title" => lag[r] <= Timeout
<1>1. Reads(r) /\ Query(r) /\ lag[r] \in 0..MaxLag /\ timer[r] \in 0..Timeout
  BY DEF IInv, ReadsInv, QueryInv, Typed
<1>2. lag[r] < MaxLag => Within(age, value, lag[r])
  <2>1. CASE pc[r] = "rw_answered" /\ got[r] = FALSE /\ value = None
    <3>1. lag[r] < MaxLag => age[<<"rw", got[r]>>] <= lag[r]
      BY <1>1, <2>1 DEF Reads
    <3>2. lag[r] < MaxLag => age[<<"rw", FALSE>>] <= lag[r]
      BY <2>1, <3>1
    <3> QED BY <2>1, <3>2 DEF Within
  <2>2. CASE pc[r] = "bot_answered" /\ value = got[r]
    BY <1>1, <2>2 DEF Within, Reads
  <2> QED BY <2>1, <2>2
<1>3. service = "title" => lag[r] <= timer[r]
  BY <1>1, Zenon DEF Query
<1> QED BY <1>1, <1>2, <1>3, ConstantsAssumption

LEMMA Stored ==
    ASSUME NEW value \in Value, NEW l \in 0..MaxLag,
           l < MaxLag => Within(age, value, l),
           service = "title" => l <= Timeout
    PROVE  Sound(Store(value, l), age)
<1>1. Store(value, l).value = value /\ Store(value, l).lag = l
  BY DEF Store
<1>2. Life(value) - Store(value, l).left + l = l
  BY ConstantsAssumption DEF Store, Life
<1> QED BY <1>1, <1>2 DEF Sound

LEMMA EntryStep == IInv /\ [Next]_vars => EntryInv'
<1> SUFFICES ASSUME IInv, [Next]_vars PROVE EntryInv'
  OBVIOUS
<1> USE ConstantsAssumption
<1>0. /\ Typed /\ QueryInv /\ Sound(cache, age)
      /\ age \in [Facts -> Nat] /\ age' \in [Facts -> Nat]
  <2>1. Typed /\ Typed' /\ QueryInv /\ Sound(cache, age)
    BY TypeStep DEF IInv, EntryInv
  <2>2. /\ age \in [Facts -> 0..MaxAge] /\ age' \in [Facts -> 0..MaxAge]
        /\ MaxAge \in Nat
    BY <2>1 DEF Typed, MaxAge
  <2>3. \A f \in Facts : age[f] \in Nat /\ age'[f] \in Nat
    BY <2>2
  <2> QED BY <2>1, <2>2, <2>3
<1>1. ASSUME NEW r \in Req, RequestStep(r) PROVE EntryInv'
  <2>1. age' = age /\ service' = service
    BY <1>0, <1>1, Frame DEF world
  <2>2. SUFFICES Sound(cache', age)
    BY <2>1 DEF EntryInv, Sound
  <2>3. ASSUME cache' = cache PROVE Sound(cache', age)
    BY <1>0, <2>3
  <2>4. CASE Lookup(r)
    BY <1>0, <2>3, <2>4 DEF Lookup, AfterHit, Sound, Alive
  <2>5. CASE ResumeRw(r)
    <3>1. CASE got[r] = FALSE /\ cache' = Store(None, lag[r])
      <4>1. pc[r] = "rw_answered" /\ None \in Value /\ lag[r] \in 0..MaxLag
        BY <1>0, <2>5 DEF ResumeRw, Value, Typed
      <4> QED BY <3>1, <4>1, Answered, Stored
    <3> QED BY <2>3, <2>5, <3>1 DEF ResumeRw
  <2>6. CASE ResumeBot(r)
    <3>1. pc[r] = "bot_answered" /\ got[r] \in Value /\ lag[r] \in 0..MaxLag
      BY <1>0, <2>6 DEF ResumeBot, QueryInv, Query, Typed
    <3> QED BY <2>6, <3>1, Answered, Stored DEF ResumeBot
  <2>7. CASE \/ StartApp(r) \/ AppUpstream(r) \/ StartTitle(r) \/ TitleUpstream(r)
             \/ ReadRw(r) \/ ReadBot(r) \/ QueryFails(r) \/ WaitForTimeout(r)
    BY <2>3, <2>7 DEF StartApp, AppUpstream, StartTitle, TitleUpstream, Begin,
       ReadRw, ReadBot, QueryFails, AfterFailure, WaitForTimeout
  <2> QED BY <1>1, <2>4, <2>5, <2>6, <2>7 DEF RequestStep
<1>2. ASSUME Alive(cache)
      PROVE  /\ cache.value \in Value /\ cache.left \in Int /\ cache.lag \in Int
             /\ Life(cache.value) - cache.left + cache.lag \in Int
  BY <1>0, <1>2 DEF Typed, Alive, Life
<1>3. CASE Edit
  <2>1. \A f \in Facts : age'[f] <= age[f] + 0
    BY <1>0, <1>3, EditAge
  <2>2. cache' = cache /\ service' = service
    BY <1>3 DEF Edit
  <2>3. SUFFICES ASSUME Alive(cache), cache.lag < MaxLag
                 PROVE  Within(age', cache.value,
                               Life(cache.value) - cache.left + cache.lag)
    BY <1>0, <2>2 DEF EntryInv, Sound
  <2>4. Within(age, cache.value, Life(cache.value) - cache.left + cache.lag)
    BY <1>0, <2>3 DEF Sound
  <2>5. Within(age', cache.value, (Life(cache.value) - cache.left + cache.lag) + 0)
    BY <1>0, <1>2, <2>1, <2>3, <2>4, Older
  <2> QED BY <1>2, <2>3, <2>5
<1>4. CASE Tick
  <2>1. \A f \in Facts : age'[f] <= age[f] + 1
    BY <1>0, <1>4, TickAge
  <2>2. service' = service
    BY <1>4 DEF Tick, world
  <2>3. CASE ~Alive(cache)
    BY <1>4, <2>3 DEF Tick, EntryInv, Sound
  <2>4. CASE Alive(cache)
    <3>1. /\ cache' = [cache EXCEPT !.left = @ - 1]
          /\ cache \in [value: Value, left: -1..Ttl, lag: 0..MaxLag]
      BY <1>0, <1>4, <2>4 DEF Tick, Typed, Alive
    <3>2. /\ cache'.value = cache.value /\ cache'.lag = cache.lag
          /\ cache'.left = cache.left - 1
      BY <3>1
    <3>3. ASSUME cache.lag < MaxLag
          PROVE  Within(age', cache.value,
                        Life(cache.value) - (cache.left - 1) + cache.lag)
      <4>1. Within(age, cache.value, Life(cache.value) - cache.left + cache.lag)
        BY <1>0, <2>4, <3>3 DEF Sound
      <4>2. Within(age', cache.value, (Life(cache.value) - cache.left + cache.lag) + 1)
        BY <1>0, <1>2, <2>1, <2>4, <4>1, Older
      <4>3. Life(cache.value) \in Int
        BY DEF Life
      <4> QED BY <1>2, <2>4, <4>2, <4>3
    <3> QED BY <1>0, <2>2, <2>4, <3>2, <3>3 DEF EntryInv, Sound
  <2> QED BY <2>3, <2>4
<1>5. CASE UNCHANGED vars
  BY <1>0, <1>5 DEF vars, world, EntryInv, Sound
<1> QED BY <1>1, <1>3, <1>4, <1>5 DEF Next, RequestStep

-----------------------------------------------------------------------------
\* The theorems.

LEMMA Invariance == Spec => []IInv
<1>1. IInv /\ [Next]_vars => IInv'
  BY TypeStep, HoldsStep, QueryStep, ReadsStep, EntryStep DEF IInv
<1> QED BY InitIInv, <1>1, PTL DEF Spec

\* Every variable of the worker keeps its type, however many requests overlap.
THEOREM TypeCorrect == Spec => []TypeOK
<1>1. IInv => TypeOK
  BY DEF IInv, Typed, TypeOK, Value, Label
<1> QED BY Invariance, <1>1, PTL

\* The headers that end a resolution: those of the entry, those just read, or
\* none, after an error or a limit.
LEMMA Ends ==
    ASSUME IInv, NEW r \in Req, RequestStep(r), pc[r] \in Resolving,
           pc'[r] \notin Resolving
    PROVE  \/ since'[r] = MaxLag
           \/ /\ Alive(cache) /\ hdrs'[r] = cache.value /\ since'[r] = cache.lag
           \/ /\ hdrs'[r] \in Value /\ since'[r] = lag[r]
              /\ \/ pc[r] = "rw_answered" /\ got[r] = FALSE /\ hdrs'[r] = None
                 \/ pc[r] = "bot_answered" /\ hdrs'[r] = got[r]
<1>0. Typed /\ Query(r) /\ pc[r] \notin {"idle", "upstream", "done"}
  BY DEF IInv, QueryInv, Resolving
<1>1. CASE StartApp(r) \/ StartTitle(r) \/ AppUpstream(r) \/ TitleUpstream(r)
  BY <1>0, <1>1 DEF StartApp, StartTitle, Begin, AppUpstream, TitleUpstream
<1>2. CASE ReadRw(r) \/ ReadBot(r)
  BY <1>0, <1>2 DEF ReadRw, ReadBot, Goto, Typed, Resolving
<1>3. CASE Lookup(r)
  <2>1. ~Goto(r, "rw")
    BY <1>0 DEF Goto, Typed, Resolving
  <2> QED BY <1>0, <1>3, <2>1, Decided DEF Lookup
<1>4. CASE ResumeRw(r)
  <2>1. ~Goto(r, "bot")
    BY <1>0 DEF Goto, Typed, Resolving
  <2> QED BY <1>0, <1>4, <2>1, Decided DEF ResumeRw, Value
<1>5. CASE ResumeBot(r)
  BY <1>0, <1>5, Decided DEF ResumeBot, Query
<1>6. CASE QueryFails(r) \/ WaitForTimeout(r)
  BY <1>0, <1>6, Decided DEF QueryFails, WaitForTimeout
<1> QED BY <1>1, <1>2, <1>3, <1>4, <1>5, <1>6 DEF RequestStep

\* What is sound within an entry's life is recent.
LEMMA WithinIsRecent ==
    ASSUME Typed, NEW value \in Value, NEW left \in Nat, NEW l \in Nat,
           Within(age, value, Life(value) - left + l)
    PROVE  Recent(value, l)
<1>1. \A f \in Facts : age[f] \in Nat
  BY ConstantsAssumption DEF Typed, MaxAge
<1>2. CASE value = None
  <2>1. <<"rw", FALSE>> \in Facts /\ <<"bot", None>> \in Facts
    BY FactsAre DEF Value
  <2> QED BY <1>1, <1>2, <2>1, ConstantsAssumption DEF Within, Life, Recent
<1>3. CASE value # None
  <2>1. <<"rw", TRUE>> \in Facts /\ <<"bot", value>> \in Facts
    BY FactsAre
  <2> QED BY <1>1, <1>3, <2>1, ConstantsAssumption DEF Within, Life, Recent
<1> QED BY <1>2, <1>3

\* Whatever the requests of a worker overwrite in each other's entries, and
\* whenever the databases change: nobody is served a title that is older than
\* its life and the reads behind it.
THEOREM ServedIsRecentHolds == Spec => ServedIsRecent
<1> DEFINE Served ==
        \A r \in Req :
            (pc[r] \in Resolving /\ pc'[r] \notin Resolving)
            => \/ since'[r] = MaxLag
               \/ /\ Recent(hdrs'[r], since'[r])
                  /\ service = "title" => since'[r] <= Timeout
<1>1. IInv /\ [Next]_vars => [Served]_vars
  <2> SUFFICES ASSUME IInv, [Next]_vars, NEW r \in Req,
                      pc[r] \in Resolving, pc'[r] \notin Resolving,
                      since'[r] # MaxLag
               PROVE  /\ Recent(hdrs'[r], since'[r])
                      /\ service = "title" => since'[r] <= Timeout
    OBVIOUS
  <2> USE ConstantsAssumption
  <2>0. Typed /\ Sound(cache, age) /\ since'[r] \in 0..MaxLag
    BY TypeStep DEF IInv, EntryInv, Typed
  <2>1. RequestStep(r)
    <3>1. ~Edit /\ ~Tick /\ ~UNCHANGED vars
      BY DEF Edit, Tick, vars, req
    <3>2. ASSUME NEW x \in Req \ {r} PROVE ~RequestStep(x)
      BY <2>0, <3>2, Frame DEF Same
    <3> QED BY <3>1, <3>2 DEF Next, RequestStep
  <2>2. CASE Alive(cache) /\ hdrs'[r] = cache.value /\ since'[r] = cache.lag
    <3>1. cache.value \in Value /\ cache.left \in Nat /\ cache.lag \in 0..MaxLag
      BY <2>0, <2>2 DEF Typed, Alive
    <3>2. Within(age, cache.value, Life(cache.value) - cache.left + cache.lag)
      BY <2>0, <2>2, <3>1 DEF Sound
    <3>3. Recent(cache.value, cache.lag)
      BY <2>0, <3>1, <3>2, WithinIsRecent
    <3> QED BY <2>0, <2>2, <3>3 DEF Sound
  <2>3. CASE /\ hdrs'[r] \in Value /\ since'[r] = lag[r]
             /\ \/ pc[r] = "rw_answered" /\ got[r] = FALSE /\ hdrs'[r] = None
                \/ pc[r] = "bot_answered" /\ hdrs'[r] = got[r]
    <3>1. /\ lag[r] < MaxLag => Within(age, hdrs'[r], lag[r])
          /\ service = "title" => lag[r] <= Timeout
      BY <2>3, Answered
    <3>2. lag[r] \in Nat /\ lag[r] < MaxLag
      BY <2>0, <2>3
    <3>3. Life(hdrs'[r]) \in Nat /\ Life(hdrs'[r]) - Life(hdrs'[r]) + lag[r] = lag[r]
      BY <3>2 DEF Life
    <3>4. Recent(hdrs'[r], lag[r])
      BY <2>0, <2>3, <3>1, <3>2, <3>3, WithinIsRecent
    <3> QED BY <2>3, <3>1, <3>4
  <2> QED BY <2>1, <2>2, <2>3, Ends
<1>2. [][Served]_vars => ServedIsRecent
  BY PTL DEF ServedIsRecent
<1> HIDE DEF Served
<1> QED BY Invariance, <1>1, <1>2, PTL DEF Spec

==============================================================================
