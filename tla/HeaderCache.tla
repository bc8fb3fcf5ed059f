---------------------------- MODULE HeaderCache ----------------------------
(***************************************************************************)
(* The profile title a subscription is served with: resolve_bot_headers,   *)
(* which reads two foreign databases one after the other and keeps the     *)
(* answer in a dictionary of the worker, and the two routes that call it:  *)
(* proxy_all of the application, after the upstream has answered, and      *)
(* proxy of title_middleware.py, before it asks and with a time limit.     *)
(*                                                                         *)
(* One worker and one token: the dictionaries share nothing.  The requests *)
(* of a worker interleave at every await.  A query is two steps, the read  *)
(* in the database and the return to the coroutine, and may never be       *)
(* answered.  Time passes in Ticks; the clock is kept as what is left of   *)
(* the entry's life and as the ages of the values the databases have held. *)
(***************************************************************************)
EXTENDS Integers

CONSTANTS
    Req,            \* concurrent requests for the token
    Name,           \* names of bots
    None,           \* no header, or no such row
    Ttl, NullTtl,   \* life of a title and of a missing one, 300 and 30 s
    Timeout,        \* api_timeout + 0.5 of title_middleware
    MaxLag,         \* longer delays are not told apart
    MaxEdits        \* bound on changes to the two databases

VARIABLES
    service,        \* "app" or "title": whose worker this is
    connected,      \* both pools exist; the application starts without
    rw, bot,        \* databases: is the token known, the name of its bot
    edits,          \* changes so far
    cache,          \* the entry of the token, or None
    pc, got,        \* each request: next step, what its last query read
    hdrs,           \* bot_hdrs of each request
    timer,          \* ticks since the request began to resolve
    lag,            \* history: ticks since it read the first database
    since,          \* history: lag of the answer it was given
    age             \* history: ticks since a database last held a value

req == <<pc, got, hdrs, timer, lag, since>>
world == <<service, connected, rw, bot, edits>>
vars == <<world, cache, req, age>>

ASSUME ConstantsAssumption ==
    /\ None \notin Name /\ None \notin BOOLEAN
    /\ {Ttl, NullTtl, Timeout, MaxLag, MaxEdits} \subseteq Nat
    /\ NullTtl < Ttl /\ Timeout < MaxLag

\* The columns read from the two databases, of which age is kept.
Facts == {<<"rw", b>> : b \in BOOLEAN} \cup {<<"bot", n>> : n \in Name \cup {None}}

Holds == {<<"rw", rw>>, <<"bot", bot>>}

MaxAge == Ttl + MaxLag + 1

Lesser(a, b) == IF a < b THEN a ELSE b

Resolving == {"lookup", "rw", "rw_answered", "bot", "bot_answered"}

\* What the databases say now.
Truth == IF rw THEN bot ELSE None

Init ==
    /\ service \in {"app", "title"} /\ connected \in BOOLEAN
    /\ service = "title" => connected
    /\ rw \in BOOLEAN /\ bot \in Name \cup {None} /\ edits = 0
    /\ cache = None
    /\ pc = [r \in Req |-> "idle"] /\ got = [r \in Req |-> None]
    /\ hdrs = [r \in Req |-> None]
    /\ timer = [r \in Req |-> 0] /\ lag = [r \in Req |-> 0]
    /\ since = [r \in Req |-> 0]
    /\ age = [f \in Facts |-> IF f \in Holds THEN 0 ELSE MaxAge]

-----------------------------------------------------------------------------
\* The dictionary.

\* A faulty variant: nobody looks at the clock.
AliveForever(entry) == entry # None

\* time.monotonic() > expires_at: the last tick still counts.
Alive(entry) == entry # None /\ entry.left >= 0

\* A faulty variant: an entry lives on for as long as it is asked for.
ExtendOnHit(entry) == [entry EXCEPT !.left = Ttl]

AfterHit(entry) == entry

Store(value, l) ==
    [value |-> value, left |-> IF value = None THEN NullTtl ELSE Ttl, lag |-> l]

-----------------------------------------------------------------------------
\* Steps of a request.

\* The route goes on with the headers: the application has its body already.
Decide(r, value, l) ==
    /\ hdrs' = [hdrs EXCEPT ![r] = value]
    /\ since' = [since EXCEPT ![r] = l]
    /\ pc' = [pc EXCEPT ![r] = IF service = "title" THEN "upstream" ELSE "done"]
    /\ got' = [got EXCEPT ![r] = None]
    /\ timer' = [timer EXCEPT ![r] = 0] /\ lag' = [lag EXCEPT ![r] = 0]

Goto(r, label) ==
    pc' = [pc EXCEPT ![r] = label] /\ UNCHANGED <<hdrs, since, timer>>

Begin(r, first) ==
    /\ pc[r] \in {"idle", "done"}
    /\ pc' = [pc EXCEPT ![r] = first]
    /\ hdrs' = [hdrs EXCEPT ![r] = None] /\ since' = [since EXCEPT ![r] = MaxLag]
    /\ UNCHANGED <<world, cache, got, timer, lag, age>>

\* proxy_all asks the upstream first.
StartApp(r) == service = "app" /\ Begin(r, "upstream")

\* Only a subscription gets headers; an exception is answered with 502.
AppUpstream(r) ==
    /\ service = "app" /\ pc[r] = "upstream"
    /\ \E status \in {"200", "other", "exception"} :
            Goto(r, IF status = "200" THEN "lookup" ELSE "done")
    /\ UNCHANGED <<world, cache, got, lag, age>>

\* The proxy of title_middleware resolves first, under wait_for.
StartTitle(r) == service = "title" /\ Begin(r, "lookup")

\* Whatever the status, the headers found go with the answer.
TitleUpstream(r) ==
    /\ service = "title" /\ pc[r] = "upstream" /\ Goto(r, "done")
    /\ UNCHANGED <<world, cache, got, lag, age>>

Lookup(r) ==
    /\ pc[r] = "lookup"
    /\ \/ ~connected /\ Decide(r, None, MaxLag) /\ UNCHANGED cache
       \/ /\ connected /\ Alive(cache)
          /\ Decide(r, cache.value, cache.lag) /\ cache' = AfterHit(cache)
       \/ /\ connected /\ ~Alive(cache)
          /\ Goto(r, "rw") /\ cache' = None /\ UNCHANGED <<got, lag>>
    /\ UNCHANGED <<world, age>>

ReadRw(r) ==
    /\ pc[r] = "rw" /\ Goto(r, "rw_answered")
    /\ got' = [got EXCEPT ![r] = rw]
    /\ UNCHANGED <<world, cache, lag, age>>

ResumeRw(r) ==
    /\ pc[r] = "rw_answered"
    /\ \/ got[r] = TRUE /\ Goto(r, "bot") /\ UNCHANGED <<cache, got, lag>>
       \/ got[r] = FALSE /\ Decide(r, None, lag[r]) /\ cache' = Store(None, lag[r])
    /\ UNCHANGED <<world, age>>

ReadBot(r) ==
    /\ pc[r] = "bot" /\ Goto(r, "bot_answered")
    /\ got' = [got EXCEPT ![r] = bot]
    /\ UNCHANGED <<world, cache, lag, age>>

ResumeBot(r) ==
    /\ pc[r] = "bot_answered"
    /\ Decide(r, got[r], lag[r]) /\ cache' = Store(got[r], lag[r])
    /\ UNCHANGED <<world, age>>

\* A faulty variant: an error is remembered like a missing row.
RememberFailure == Store(None, 0)

\* What the handler of exceptions leaves in the dictionary.
AfterFailure == cache

QueryFails(r) ==
    /\ pc[r] \in {"rw", "bot"}
    /\ Decide(r, None, MaxLag) /\ cache' = AfterFailure
    /\ UNCHANGED <<world, age>>

\* A faulty variant: only the first query is under the time limit.
OverdueFirst(r) ==
    service = "title" /\ pc[r] \in {"lookup", "rw", "rw_answered"} /\ timer[r] = Timeout

Overdue(r) == service = "title" /\ pc[r] \in Resolving /\ timer[r] = Timeout

\* wait_for cancels the resolution, which stores nothing.
WaitForTimeout(r) ==
    /\ Overdue(r) /\ Decide(r, None, MaxLag)
    /\ UNCHANGED <<world, cache, age>>

-----------------------------------------------------------------------------
\* The databases and the clock.

Edit ==
    /\ edits < MaxEdits /\ edits' = edits + 1
    /\ \/ rw' = ~rw /\ UNCHANGED bot
       \/ bot' \in (Name \cup {None}) \ {bot} /\ UNCHANGED rw
    /\ age' = [age EXCEPT ![<<"rw", rw'>>] = 0, ![<<"bot", bot'>>] = 0]
    /\ UNCHANGED <<service, connected, cache, req>>

\* A limit that is due comes before more time passes.
Tick ==
    /\ \A r \in Req : ~Overdue(r)
    /\ cache' = IF Alive(cache) THEN [cache EXCEPT !.left = @ - 1] ELSE cache
    /\ timer' = [r \in Req |->
                    IF service = "title" /\ pc[r] \in Resolving
                    THEN Lesser(timer[r] + 1, Timeout) ELSE timer[r]]
    /\ lag' = [r \in Req |-> IF pc[r] \in {"rw_answered", "bot", "bot_answered"}
                             THEN Lesser(lag[r] + 1, MaxLag) ELSE lag[r]]
    /\ age' = [f \in Facts |-> IF f \in Holds THEN 0 ELSE Lesser(age[f] + 1, MaxAge)]
    /\ UNCHANGED <<world, pc, got, hdrs, since>>

Next ==
    \/ \E r \in Req :
        \/ StartApp(r) \/ AppUpstream(r) \/ StartTitle(r) \/ TitleUpstream(r)
        \/ Lookup(r) \/ ReadRw(r) \/ ResumeRw(r) \/ ReadBot(r) \/ ResumeBot(r)
        \/ QueryFails(r) \/ WaitForTimeout(r)
    \/ Edit \/ Tick

\* The event loop runs what is ready and its timers.  An upstream's answer is
\* assumed to end: httpx gives up on a silent upstream, not on a slow one.
\* Nothing makes a database answer.
Fairness ==
    /\ WF_vars(Tick)
    /\ \A r \in Req :
        /\ WF_vars(Lookup(r)) /\ WF_vars(ResumeRw(r)) /\ WF_vars(ResumeBot(r))
        /\ WF_vars(WaitForTimeout(r))
        /\ WF_vars(AppUpstream(r)) /\ WF_vars(TitleUpstream(r))

Spec == Init /\ [][Next]_vars /\ Fairness

-----------------------------------------------------------------------------
\* Properties.

\* Type correctness.
TypeOK ==
    /\ service \in {"app", "title"} /\ connected \in BOOLEAN
    /\ rw \in BOOLEAN /\ bot \in Name \cup {None} /\ edits \in 0..MaxEdits
    /\ cache # None => cache \in [value: Name \cup {None}, left: -1..Ttl, lag: 0..MaxLag]
    /\ \A r \in Req :
          /\ pc[r] \in Resolving \cup {"idle", "upstream", "done"}
          /\ hdrs[r] \in Name \cup {None} /\ timer[r] \in 0..Timeout
          /\ lag[r] \in 0..MaxLag /\ since[r] \in 0..MaxLag
    /\ age \in [Facts -> 0..MaxAge]

\* Both rows behind a title, or one that explains a missing title, were there
\* no longer ago than the life of an entry and the time the reads took.
Recent(value, l) ==
    IF value = None
    THEN \E f \in {<<"rw", FALSE>>, <<"bot", None>>} : age[f] <= NullTtl + l
    ELSE \A f \in {<<"rw", TRUE>>, <<"bot", value>>} : age[f] <= Ttl + l

\* The headers a request is given are recent, whichever of several overlapping
\* resolutions wrote the entry; in title_middleware the reads took no longer
\* than its limit.  An error or a limit gives no headers (since is MaxLag), and
\* is not remembered.  About resolve_bot_headers and its two lives.
ServedIsRecent ==
    [][\A r \in Req :
        (pc[r] \in Resolving /\ pc'[r] \notin Resolving)
        => \/ since'[r] = MaxLag
           \/ /\ Recent(hdrs'[r], since'[r])
              /\ service = "title" => since'[r] <= Timeout]_vars

\* Once the databases are left alone, the entry a lookup finds comes to be what
\* they say and stays so, however busy the token is: the life of an entry is
\* not extended, and resolutions that read old rows finish once.
CacheConverges == <>[](Alive(cache) => cache.value = Truth)

\* A request to title_middleware is answered even if a database never is.
TitleAlwaysAnswers ==
    \A r \in Req : (service = "title" /\ pc[r] # "idle") ~> pc[r] = "done"

=============================================================================
