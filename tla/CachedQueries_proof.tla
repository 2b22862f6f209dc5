------------------------- MODULE CachedQueries_proof -------------------------
(***************************************************************************)
(* Proofs about CachedQueries and PostgresConnections, for any callers,    *)
(* any clients and any number of failures.                                 *)
(***************************************************************************)
EXTENDS CachedQueries, SequenceTheorems, TLAPS

Statements == {"idle", "write", "get", "read", "answer", "store", "end", "remove", "failed"}
RunnerStates == [connection : {"none", "waiting", "connected", "refused"}, client : Clients \union {""},
                 holds : BOOLEAN, listed : BOOLEAN, released : BOOLEAN]

(***************************************************************************)
(* The inductive invariant, of the links and of where the callers are.  A  *)
(* runner waits for a client only if its caller waits for a statement that *)
(* needs it; it holds one only for a call that is under way, and that      *)
(* which stores only while it stores; it holds one when it is on the list. *)
(***************************************************************************)
Needs(q, step) == step # "idle" /\ ByRunner(step) /\ q = By(q[1], step)

RunnerSound(state, q, step) ==
  /\ state.connection = "waiting" => Needs(q, step) /\ ~state.released /\ ~state.holds
  /\ state.client # "" <=> state.connection = "connected"
  /\ state.holds => /\ state.connection = "connected" /\ ~state.released /\ step # "idle"
                    /\ q[2] = "store" => step = "store" /\ q[1] \notin Writers
  /\ (state.listed <=> state.holds)

LinksTyped(links) == links \in [runner : [Runners -> RunnerStates], requests : Seq(Runners)]

\* The requests are those of runners that wait, each once.
RequestsSound(links) ==
  /\ \A i \in 1..Len(links.requests) : links.runner[links.requests[i]].connection = "waiting"
  /\ \A i, j \in 1..Len(links.requests) : links.requests[i] = links.requests[j] => i = j

RunnersSound(links, at) == \A q \in Runners : RunnerSound(links.runner[q], q, at[q[1]])

Sound(links, at) == LinksTyped(links) /\ RequestsSound(links) /\ RunnersSound(links, at)

\* A client is held by one runner.
HeldOnce(states) ==
  \A p, q \in Runners : states[p].holds /\ states[q].holds /\ states[p].client = states[q].client => p = q

ConnectionsInv == pc \in [Callers -> Statements] /\ Sound(Links, pc) /\ HeldOnce(runner)

-----------------------------------------------------------------------------

\* Every caller has two runners.
LEMMA RunnersOfCallers ==
  /\ \A q \in Runners : q[1] \in Callers /\ (q = <<q[1], "main">> \/ q = <<q[1], "store">>)
  /\ \A c \in Callers : /\ <<c, "main">> \in Runners /\ <<c, "store">> \in Runners
                        /\ <<c, "main">>[1] = c /\ <<c, "store">>[1] = c
                        /\ <<c, "main">>[2] = "main" /\ <<c, "store">>[2] = "store"
                        /\ <<c, "main">> # <<c, "store">>
  /\ \A c \in Callers, step \in Statements : By(c, step) \in Runners /\ By(c, step)[1] = c
<1>1. Runners = Callers \X {"main", "store"}
  BY QueriesAssumption
<1>2. ASSUME NEW q \in Runners
      PROVE  q[1] \in Callers /\ (q = <<q[1], "main">> \/ q = <<q[1], "store">>)
  <2>1. PICK c \in Callers, s \in {"main", "store"} : q = <<c, s>>
    BY <1>1
  <2> QED
    BY <2>1
<1>3. ASSUME NEW c \in Callers
      PROVE  /\ <<c, "main">> \in Runners /\ <<c, "store">> \in Runners
             /\ <<c, "main">>[1] = c /\ <<c, "store">>[1] = c
             /\ <<c, "main">>[2] = "main" /\ <<c, "store">>[2] = "store"
             /\ <<c, "main">> # <<c, "store">>
  BY <1>1
<1>4. ASSUME NEW c \in Callers, NEW step \in Statements
      PROVE  By(c, step) \in Runners /\ By(c, step)[1] = c
  BY <1>3 DEF By, StoreRunner, Main
<1> QED
  BY <1>2, <1>3, <1>4

LEMMA MainRunners ==
  \A c \in Callers : Main(c) \in Runners /\ Main(c)[1] = c /\ Main(c)[2] = "main"
BY RunnersOfCallers DEF Main

\* A new runner is sound wherever its caller is.
LEMMA NewRunnerSound ==
  ASSUME NEW q, NEW step
  PROVE  NewRunner \in RunnerStates /\ RunnerSound(NewRunner, q, step) /\ ~NewRunner.holds
         /\ NewRunner.connection = "none"
BY DEF NewRunner, RunnerStates, RunnerSound

\* A runner that does not wait, before nor after, may change by itself.
LEMMA OneRunner ==
  ASSUME NEW links, NEW at, Sound(links, at), NEW q \in Runners, links.runner[q].connection # "waiting",
         NEW after, LinksTyped(after), after.requests = links.requests,
         \A p \in Runners : p # q => after.runner[p] = links.runner[p],
         after.runner[q].connection # "waiting", RunnerSound(after.runner[q], q, at[q[1]])
  PROVE  Sound(after, at)
<1>1. \A i \in 1..Len(links.requests) : links.requests[i] \in Runners /\ links.requests[i] # q
  BY ElementOfSeq DEF Sound, LinksTyped, RequestsSound
<1>2. RequestsSound(after)
  BY <1>1 DEF Sound, RequestsSound
<1>3. RunnersSound(after, at)
  BY DEF Sound, RunnersSound
<1> QED
  BY <1>2, <1>3 DEF Sound

\* Releasing a runner that does not wait changes no other, and leaves it without a client.
LEMMA ReleaseSound ==
  ASSUME NEW links, NEW at, Sound(links, at), NEW q \in Runners,
         links.runner[q].connection # "waiting"
  PROVE  /\ Sound(Release(links, q), at)
         /\ \A p \in Runners : p # q => Release(links, q).runner[p] = links.runner[p]
         /\ Release(links, q).runner[q].connection = links.runner[q].connection
         /\ Release(links, q).runner[q].client = links.runner[q].client
         /\ ~Release(links, q).runner[q].holds
<1>1. CASE links.runner[q].released
  BY <1>1 DEF Release, Sound, RunnersSound, RunnerSound
<1>2. CASE ~links.runner[q].released
  <2> DEFINE state == [links.runner[q] EXCEPT !.released = TRUE, !.holds = FALSE, !.listed = FALSE]
  <2>1. links.runner \in [Runners -> RunnerStates] /\ RunnerSound(links.runner[q], q, at[q[1]])
    BY DEF Sound, LinksTyped, RunnersSound
  <2>2. state \in RunnerStates
    BY <2>1 DEF RunnerStates
  <2>3. /\ state.connection = links.runner[q].connection /\ state.client = links.runner[q].client
        /\ ~state.holds /\ ~state.listed
    BY <2>1 DEF RunnerStates
  <2>4. Release(links, q) = [links EXCEPT !.runner = [@ EXCEPT ![q] = state]]
    BY <1>2 DEF Release
  <2> HIDE DEF state
  <2> SUFFICES ASSUME NEW after, after = [runner |-> [links.runner EXCEPT ![q] = state], requests |-> links.requests]
               PROVE  /\ Sound(after, at) /\ \A p \in Runners : p # q => after.runner[p] = links.runner[p]
                      /\ after.runner[q] = state
    <3>1. Release(links, q) = [runner |-> [links.runner EXCEPT ![q] = state], requests |-> links.requests]
      BY <2>4 DEF Sound, LinksTyped
    <3> QED
      BY <2>3, <3>1
  <2>5. /\ LinksTyped(after) /\ after.requests = links.requests /\ after.runner[q] = state
        /\ \A p \in Runners : p # q => after.runner[p] = links.runner[p]
    BY <2>1, <2>2 DEF Sound, LinksTyped
  <2>6. RunnerSound(state, q, at[q[1]])
    BY <2>1, <2>3 DEF RunnerSound
  <2>7. after.runner[q].connection # "waiting"
    BY <2>3, <2>5
  <2>8. RunnerSound(after.runner[q], q, at[q[1]])
    BY <2>5, <2>6
  <2> QED
    BY <2>5, <2>7, <2>8, OneRunner
<1> QED
  BY <1>1, <1>2

\* So does refusing it a statement.
LEMMA RefuseSound ==
  ASSUME NEW links, NEW at, Sound(links, at), NEW q \in Runners,
         links.runner[q].connection # "waiting", ~links.runner[q].holds
  PROVE  /\ Sound(Refuse(links, q), at)
         /\ \A p \in Runners : p # q => Refuse(links, q).runner[p] = links.runner[p]
         /\ Refuse(links, q).runner[q].connection = "refused"
<1> DEFINE state == [links.runner[q] EXCEPT !.connection = "refused", !.client = ""]
<1>1. links.runner \in [Runners -> RunnerStates] /\ RunnerSound(links.runner[q], q, at[q[1]])
  BY DEF Sound, LinksTyped, RunnersSound
<1>2. state \in RunnerStates
  BY <1>1 DEF RunnerStates
<1>3. /\ state.connection = "refused" /\ state.client = ""
      /\ ~state.holds /\ state.listed = links.runner[q].listed
  BY <1>1 DEF RunnerStates
<1>4. Refuse(links, q) = [links EXCEPT !.runner = [@ EXCEPT ![q] = state]]
  BY DEF Refuse
<1> HIDE DEF state
<1> SUFFICES ASSUME NEW after, after = [runner |-> [links.runner EXCEPT ![q] = state], requests |-> links.requests]
             PROVE  /\ Sound(after, at) /\ \A p \in Runners : p # q => after.runner[p] = links.runner[p]
                    /\ after.runner[q] = state
  <2>1. Refuse(links, q) = [runner |-> [links.runner EXCEPT ![q] = state], requests |-> links.requests]
    BY <1>4 DEF Sound, LinksTyped
  <2> QED
    BY <1>3, <2>1
<1>5. /\ LinksTyped(after) /\ after.requests = links.requests /\ after.runner[q] = state
      /\ \A p \in Runners : p # q => after.runner[p] = links.runner[p]
  BY <1>1, <1>2 DEF Sound, LinksTyped
<1>6. RunnerSound(state, q, at[q[1]])
  BY <1>1, <1>3 DEF RunnerSound
<1> QED
  BY <1>3, <1>5, <1>6, OneRunner

\* Asking for a statement changes no runner that is connected, unless it is released:
\* a runner without a client waits for one, once.
LEMMA ConnectSound ==
  ASSUME NEW links, NEW at, Sound(links, at), NEW q \in Runners, Needs(q, at[q[1]])
  PROVE  /\ Sound(Connect(links, q), at)
         /\ \A p \in Runners : p # q => Connect(links, q).runner[p] = links.runner[p]
         /\ Connect(links, q).runner[q].connection = "connected"
              => Connect(links, q).runner[q] = links.runner[q]
         /\ links.runner[q].connection = "connected" /\ ~links.runner[q].released
              => Connect(links, q).runner[q] = links.runner[q]
         /\ links.runner[q].connection = "refused" => Connect(links, q).runner[q].connection = "refused"
<1> DEFINE after == Connect(links, q)
<1>0. RunnerSound(links.runner[q], q, at[q[1]])
  BY DEF Sound, RunnersSound
<1>typed. links.runner \in [Runners -> RunnerStates] /\ links.requests \in Seq(Runners)
  BY DEF Sound, LinksTyped
<1>1. CASE links.runner[q].released
  <2>1. after = Refuse(links, q) /\ links.runner[q].connection # "waiting" /\ ~links.runner[q].holds
    BY <1>0, <1>1 DEF Connect, RunnerSound
  <2> QED
    BY <1>1, <2>1, RefuseSound
<1>2. CASE ~links.runner[q].released /\ links.runner[q].connection # "none"
  <2>1. after = links
    BY <1>2 DEF Connect
  <2> QED
    BY <2>1
<1>3. CASE ~links.runner[q].released /\ links.runner[q].connection = "none" /\ pool \in {"up", "closing"}
  <2> DEFINE state == [links.runner[q] EXCEPT !.connection = "waiting"]
  <2>1. after = [runner |-> [links.runner EXCEPT ![q] = state], requests |-> Append(links.requests, q)]
    BY <1>3 DEF Connect
  <2>2. /\ state \in RunnerStates /\ state.connection = "waiting" /\ state.client = ""
        /\ ~state.holds /\ ~state.listed /\ ~state.released
    BY <1>0, <1>3, <1>typed DEF RunnerStates, RunnerSound
  <2> HIDE DEF state
  <2>3. /\ Append(links.requests, q) \in Seq(Runners) /\ Len(Append(links.requests, q)) = Len(links.requests) + 1
        /\ \A i \in 1..Len(links.requests) : Append(links.requests, q)[i] = links.requests[i]
        /\ Append(links.requests, q)[Len(links.requests) + 1] = q
        /\ Len(links.requests) \in Nat
    BY <1>typed, AppendProperties, LenProperties
  <2>4. \A p \in Runners : after.runner[p] = IF p = q THEN state ELSE links.runner[p]
    BY <1>typed, <2>1
  <2>5. LinksTyped(after)
    <3>1. state \in RunnerStates
      BY <2>2
    <3>2. [links.runner EXCEPT ![q] = state] \in [Runners -> RunnerStates]
      BY <1>typed, <3>1
    <3> QED
    BY <2>1, <2>3, <3>2 DEF LinksTyped
  <2>6. \A i \in 1..Len(links.requests) : links.requests[i] \in Runners /\ links.requests[i] # q
    BY <1>typed, <1>3, ElementOfSeq DEF Sound, RequestsSound
  <2>7. RequestsSound(after)
    <3>1. \A i \in 1..Len(after.requests) : i = Len(links.requests) + 1 \/ i \in 1..Len(links.requests)
      BY <2>1, <2>3
    <3> QED
      <4>1. state.connection = "waiting"
        BY <2>2
      <4> QED
        BY <2>1, <2>3, <2>4, <2>6, <3>1, <4>1 DEF Sound, RequestsSound
  <2>8. RunnersSound(after, at)
    <3>1. RunnerSound(state, q, at[q[1]])
      BY <2>2 DEF RunnerSound
    <3> QED
      BY <2>4, <3>1 DEF Sound, RunnersSound
  <2> QED
    BY <1>3, <2>2, <2>4, <2>5, <2>7, <2>8 DEF Sound
<1>4. CASE ~links.runner[q].released /\ links.runner[q].connection = "none" /\ pool \notin {"up", "closing"}
  <2>1. after = Refuse(links, q) /\ ~links.runner[q].holds
    BY <1>0, <1>4 DEF Connect, RunnerSound
  <2> QED
    BY <1>4, <2>1, RefuseSound
<1> QED
  BY <1>1, <1>2, <1>3, <1>4

(***************************************************************************)
(* A caller leaves a statement when none of its runners waits, and the one *)
(* that stores has been released.                                          *)
(***************************************************************************)
Leaves(links, c) ==
  \A q \in Runners : q[1] = c =>
    links.runner[q].connection # "waiting" /\ (q[2] = "store" => ~links.runner[q].holds)

LEMMA NextStatement ==
  ASSUME NEW links, NEW c \in Callers, NEW step \in Statements, step # "idle",
         pc \in [Callers -> Statements], Sound(links, pc), Leaves(links, c)
  PROVE  Sound(links, [pc EXCEPT ![c] = step])
<1>1. ASSUME NEW q \in Runners
      PROVE  RunnerSound(links.runner[q], q, [pc EXCEPT ![c] = step][q[1]])
  <2>1. q[1] \in Callers /\ RunnerSound(links.runner[q], q, pc[q[1]])
    BY RunnersOfCallers DEF Sound, RunnersSound
  <2>2. CASE q[1] = c
    BY <2>1, <2>2 DEF RunnerSound, Leaves
  <2>3. CASE q[1] # c
    BY <2>1, <2>3
  <2> QED
    BY <2>2, <2>3
<1> QED
  BY <1>1 DEF Sound, RunnersSound

\* A call that ends gives back the runners that it had.
LEMMA FinishedSound ==
  ASSUME NEW links, NEW c \in Callers, pc \in [Callers -> Statements], Sound(links, pc), Leaves(links, c),
         ~links.runner[Main(c)].holds
  PROVE  /\ Sound(Finished(links, c), [pc EXCEPT ![c] = "idle"])
         /\ \A q \in Runners : Finished(links, c).runner[q] = IF q[1] = c THEN NewRunner ELSE links.runner[q]
<1> SUFFICES ASSUME NEW after, after = Finished(links, c)
             PROVE  /\ Sound(after, [pc EXCEPT ![c] = "idle"])
                    /\ \A q \in Runners : after.runner[q] = IF q[1] = c THEN NewRunner ELSE links.runner[q]
  OBVIOUS
<1>typed. links.runner \in [Runners -> RunnerStates] /\ links.requests \in Seq(Runners)
  BY DEF Sound, LinksTyped
<1>1. \A q \in Runners : q[1] = c => ~links.runner[q].holds
  BY RunnersOfCallers DEF Leaves, Main
<1>2. /\ after = [runner |-> after.runner, requests |-> links.requests]
      /\ after.requests = links.requests
      /\ after.runner = [q \in Runners |-> IF q[1] = c /\ ~links.runner[q].holds THEN NewRunner ELSE links.runner[q]]
  BY DEF Finished, Sound, LinksTyped
<1>3. \A q \in Runners : after.runner[q] = IF q[1] = c THEN NewRunner ELSE links.runner[q]
  BY <1>1, <1>2
<1>4. LinksTyped(after)
  <2>1. after.runner \in [Runners -> RunnerStates]
    <3>1. \A q \in Runners : (IF q[1] = c /\ ~links.runner[q].holds THEN NewRunner ELSE links.runner[q]) \in RunnerStates
      BY <1>typed, NewRunnerSound
    <3> QED
      BY <3>1, <1>2
  <2> QED
    BY <2>1, <1>2, <1>typed DEF LinksTyped
<1>5. RequestsSound(after)
  <2>1. \A i \in 1..Len(links.requests) : links.requests[i] \in Runners /\ links.requests[i][1] # c
    BY <1>typed, ElementOfSeq DEF Sound, RequestsSound, Leaves
  <2> QED
    BY <1>2, <1>3, <2>1 DEF Sound, RequestsSound
<1>6. RunnersSound(after, [pc EXCEPT ![c] = "idle"])
  <2>1. ASSUME NEW q \in Runners
        PROVE  RunnerSound(after.runner[q], q, [pc EXCEPT ![c] = "idle"][q[1]])
    <3>1. CASE q[1] = c
      BY <1>3, <3>1, NewRunnerSound
    <3>2. CASE q[1] # c
      <4>1. q[1] \in Callers /\ RunnerSound(links.runner[q], q, pc[q[1]])
        BY RunnersOfCallers DEF Sound, RunnersSound
      <4> QED
        BY <1>3, <3>2, <4>1
    <3> QED
      BY <3>1, <3>2
  <2> QED
    BY <2>1 DEF RunnersSound
<1> QED
  BY <1>3, <1>4, <1>5, <1>6 DEF Sound

(***************************************************************************)
(* Wherever a caller goes, the links are sound.  A runner that is          *)
(* connected afterwards was so before; the main one of the caller stays so *)
(* unless the call ends, and is new when it does; refused, it stays so too. *)
(***************************************************************************)
Stays(links, c, step) ==
  /\ \A q \in Runners : q[1] # c => runner'[q] = links.runner[q]
  /\ \A q \in Runners : runner'[q].connection = "connected" => runner'[q] = links.runner[q]
  /\ \A q \in Runners : q[1] = c /\ step = "idle" => runner'[q] = NewRunner
  /\ step # "idle" /\ links.runner[Main(c)].connection = "connected" /\ ~links.runner[Main(c)].released
       => runner'[Main(c)] = links.runner[Main(c)]
  /\ step # "idle" /\ links.runner[Main(c)].connection = "refused" => runner'[Main(c)].connection = "refused"

LEMMA GoSound ==
  ASSUME NEW c \in Callers, NEW step \in Statements, NEW links, NEW known,
         pc \in [Callers -> Statements], Sound(links, pc), Leaves(links, c), Go(c, step, links, known)
  PROVE  pc' = [pc EXCEPT ![c] = step] /\ Sound(Links', pc') /\ Stays(links, c, step)
<1>main. /\ Main(c) \in Runners /\ Main(c)[1] = c
         /\ By(c, step) \in Runners /\ By(c, step)[1] = c
  BY RunnersOfCallers, MainRunners
<1>pc. pc' = [pc EXCEPT ![c] = step] /\ pc'[c] = step
  BY DEF Go
<1>1. CASE step = "idle"
  <2>1. Become(Finished(Release(links, Main(c)), c))
    BY <1>1 DEF Go
  <2> DEFINE released == Release(links, Main(c))
  <2>2. /\ Sound(released, pc)
        /\ \A p \in Runners : p # Main(c) => released.runner[p] = links.runner[p]
        /\ released.runner[Main(c)].connection = links.runner[Main(c)].connection
        /\ ~released.runner[Main(c)].holds
    BY <1>main, ReleaseSound DEF Leaves
  <2> HIDE DEF released
  <2>3. Leaves(released, c)
    <3>1. ASSUME NEW q \in Runners, q[1] = c
          PROVE  released.runner[q].connection # "waiting" /\ (q[2] = "store" => ~released.runner[q].holds)
      <4>1. CASE q = Main(c)
        BY <1>main, <2>2, <4>1 DEF Leaves
      <4>2. CASE q # Main(c)
        BY <2>2, <3>1, <4>2 DEF Leaves
      <4> QED
        BY <4>1, <4>2
    <3> QED
      BY <3>1 DEF Leaves
  <2>4. /\ Sound(Finished(released, c), [pc EXCEPT ![c] = "idle"])
        /\ \A q \in Runners : Finished(released, c).runner[q] = IF q[1] = c THEN NewRunner ELSE released.runner[q]
    BY <2>2, <2>3, FinishedSound
  <2>5. Links' = Finished(released, c) /\ runner' = Finished(released, c).runner
    <3>1. runner' = Finished(released, c).runner /\ requests' = Finished(released, c).requests
      BY <2>1 DEF Become, released
    <3>2. Finished(released, c) = [runner |-> Finished(released, c).runner, requests |-> Finished(released, c).requests]
      BY <2>4 DEF Sound, LinksTyped
    <3> QED
      BY <3>1, <3>2 DEF Links
  <2>6. \A q \in Runners : runner'[q] = IF q[1] = c THEN NewRunner ELSE links.runner[q]
    BY <1>main, <2>2, <2>4, <2>5
  <2>7. Stays(links, c, step)
    BY <1>1, <2>6, NewRunnerSound DEF Stays
  <2> QED
    BY <1>1, <1>pc, <2>4, <2>5, <2>7
<1>2. CASE step # "idle" /\ ByRunner(step)
  <2>1. Become(Connect(links, By(c, step)))
    BY <1>2 DEF Go
  <2>2. Sound(links, pc')
    BY <1>2, <1>pc, NextStatement
  <2>3. Needs(By(c, step), pc'[By(c, step)[1]])
    BY <1>2, <1>main, <1>pc DEF Needs
  <2>4. /\ Sound(Connect(links, By(c, step)), pc')
        /\ \A p \in Runners : p # By(c, step) => Connect(links, By(c, step)).runner[p] = links.runner[p]
        /\ Connect(links, By(c, step)).runner[By(c, step)].connection = "connected"
             => Connect(links, By(c, step)).runner[By(c, step)] = links.runner[By(c, step)]
        /\ links.runner[By(c, step)].connection = "connected" /\ ~links.runner[By(c, step)].released
             => Connect(links, By(c, step)).runner[By(c, step)] = links.runner[By(c, step)]
        /\ links.runner[By(c, step)].connection = "refused"
             => Connect(links, By(c, step)).runner[By(c, step)].connection = "refused"
    BY <1>main, <2>2, <2>3, ConnectSound
  <2>5. Links' = Connect(links, By(c, step)) /\ runner' = Connect(links, By(c, step)).runner
    <3>1. Connect(links, By(c, step)) = [runner |-> Connect(links, By(c, step)).runner,
                                         requests |-> Connect(links, By(c, step)).requests]
      BY <2>4 DEF Sound, LinksTyped
    <3> QED
      BY <2>1, <3>1 DEF Become, Links
  <2>6. Stays(links, c, step)
    BY <1>2, <1>main, <2>4, <2>5 DEF Stays
  <2> QED
    BY <1>pc, <2>4, <2>5, <2>6
<1>3. CASE step # "idle" /\ ~ByRunner(step)
  <2>1. Become(links)
    BY <1>3 DEF Go
  <2>2. Sound(links, pc')
    BY <1>3, <1>pc, NextStatement
  <2>3. links = [runner |-> links.runner, requests |-> links.requests]
    BY DEF Sound, LinksTyped
  <2>4. Links' = links /\ runner' = links.runner
    BY <2>1, <2>3 DEF Become, Links
  <2> QED
    BY <1>3, <1>pc, <2>2, <2>4 DEF Stays
<1> QED
  BY <1>1, <1>2, <1>3

-----------------------------------------------------------------------------

\* The soundness of the links says nothing else of the variables than the kind of cache.
LEMMA SoundLater ==
  ASSUME Sound(Links', pc'), cacheType' = cacheType
  PROVE  Sound(Links, pc)'
BY DEF Sound, LinksTyped, RequestsSound, RunnersSound, RunnerSound, Needs, By, ByRunner, StoreRunner, Main

\* Runners that hold the clients that they held, if any, hold each once.
LEMMA HeldLater ==
  ASSUME ConnectionsInv, \A q \in Runners : runner'[q].holds => runner[q].holds /\ runner'[q].client = runner[q].client
  PROVE  HeldOnce(runner')
BY DEF ConnectionsInv, HeldOnce

\* A statement that has a client, or is refused one, leaves no runner of its caller waiting.
Answers(c, step) == ByRunner(step) => Connected(By(c, step)) \/ Refused(By(c, step))

LEMMA AnsweredLeaves ==
  ASSUME ConnectionsInv, NEW c \in Callers, NEW step \in Statements \ {"store"}, pc[c] = step,
         step # "idle" => Answers(c, step)
  PROVE  Sound(Links, pc) /\ Leaves(Links, c)
<1> SUFFICES ASSUME NEW q \in Runners, q[1] = c
             PROVE  /\ runner[q].connection # "waiting"
                    /\ q[2] = "store" => ~runner[q].holds
  BY DEF Leaves, Links, ConnectionsInv
<1>1. RunnerSound(runner[q], q, step)
  BY DEF ConnectionsInv, Sound, RunnersSound, Links
<1>2. ASSUME runner[q].connection = "waiting" PROVE FALSE
  <2>1. step # "idle" /\ ByRunner(step) /\ q = By(c, step)
    BY <1>1, <1>2 DEF RunnerSound, Needs
  <2> QED
    BY <1>2, <2>1 DEF Answers, Connected, Refused
<1>3. q[2] = "store" => ~runner[q].holds
  BY <1>1 DEF RunnerSound
<1> QED
  BY <1>2, <1>3

\* So does one that stores, after what it does to its runner.
LEMMA StoredLeaves ==
  ASSUME ConnectionsInv, NEW c \in Callers, NEW done, pc[c] = "store", Answers(c, "store")
  PROVE  /\ Sound(LinksAfterStore(c, done), pc) /\ Leaves(LinksAfterStore(c, done), c)
         /\ \A q \in Runners : q[1] # c \/ c \in Writers => LinksAfterStore(c, done).runner[q] = runner[q]
         /\ \A q \in Runners : LinksAfterStore(c, done).runner[q].holds
                                 => LinksAfterStore(c, done).runner[q] = runner[q]
<1>1. \A q \in Runners : RunnerSound(runner[q], q, pc[q[1]])
  BY DEF ConnectionsInv, Sound, RunnersSound, Links
<1>2. ASSUME NEW q \in Runners, q[1] = c, runner[q].connection = "waiting" PROVE FALSE
  <2>1. ByRunner("store") /\ q = By(c, "store")
    BY <1>1, <1>2 DEF RunnerSound, Needs
  <2> QED
    BY <1>2, <2>1 DEF Answers, Connected, Refused
<1>3. /\ Main(c) \in Runners /\ <<c, "store">> \in Runners /\ <<c, "store">>[1] = c
      /\ Main(c)[2] = "main" /\ Main(c) # <<c, "store">>
      /\ \A q \in Runners : q[1] = c => q = Main(c) \/ q = <<c, "store">>
  BY RunnersOfCallers DEF Main
<1>4. Sound(Links, pc) /\ Links.runner = runner
  BY DEF ConnectionsInv, Links
<1>5. CASE c \in Writers
  <2>1. LinksAfterStore(c, done) = Links
    BY <1>5 DEF LinksAfterStore, StoreRunner
  <2>2. \A q \in Runners : q[1] = c /\ q[2] = "store" => ~runner[q].holds
    BY <1>1, <1>5 DEF RunnerSound
  <2> QED
    BY <1>2, <1>4, <2>1, <2>2 DEF Leaves
<1>6. CASE c \notin Writers
  <2> DEFINE released == Release(Links, <<c, "store">>)
  <2>1. LinksAfterStore(c, done) = released
    BY <1>3, <1>6 DEF LinksAfterStore, StoreRunner
  <2>2. /\ Sound(released, pc)
        /\ \A p \in Runners : p # <<c, "store">> => released.runner[p] = runner[p]
        /\ released.runner[<<c, "store">>].connection = runner[<<c, "store">>].connection
        /\ ~released.runner[<<c, "store">>].holds
    BY <1>2, <1>3, <1>4, ReleaseSound
  <2> HIDE DEF released
  <2>3. \A q \in Runners : released.runner[q].connection = runner[q].connection
    BY <2>2
  <2>4. Leaves(released, c)
    BY <1>2, <1>3, <2>2, <2>3 DEF Leaves
  <2>5. \A q \in Runners : /\ q[1] # c => released.runner[q] = runner[q]
                           /\ released.runner[q].holds => released.runner[q] = runner[q]
    BY <1>3, <2>2
  <2> QED
    BY <1>6, <2>1, <2>2, <2>4, <2>5
<1> QED
  BY <1>5, <1>6

\* What a step of a caller has to show: the rest follows from where it goes.
LEMMA CallerSteps ==
  ASSUME ConnectionsInv, NEW c \in Callers, NEW step \in Statements, NEW links, NEW known,
         Sound(links, pc), Leaves(links, c),
         \A q \in Runners : links.runner[q].holds => links.runner[q] = runner[q],
         Go(c, step, links, known), cacheType' = cacheType
  PROVE  ConnectionsInv' /\ Stays(links, c, step)
<1>1. pc' = [pc EXCEPT ![c] = step] /\ Sound(Links', pc') /\ Stays(links, c, step)
  BY GoSound DEF ConnectionsInv
<1>2. Sound(Links, pc)' /\ pc' \in [Callers -> Statements]
  BY <1>1, SoundLater DEF ConnectionsInv
<1>3. ASSUME NEW q \in Runners, runner'[q].holds PROVE runner'[q] = runner[q]
  <2>1. runner'[q].connection = "connected"
    BY <1>1, <1>3 DEF Sound, RunnersSound, RunnerSound, Links
  <2>2. runner'[q] = links.runner[q]
    BY <1>1, <2>1 DEF Stays
  <2> QED
    BY <1>3, <2>2
<1>4. HeldOnce(runner)'
  BY <1>3, HeldLater DEF HeldOnce
<1> QED
  BY <1>1, <1>2, <1>4 DEF ConnectionsInv

\* Whether it is done or not.
LEMMA AnswerOf ==
  ASSUME NEW c \in Callers, NEW step, Able(c, step) \/ Fails(c, step)
  PROVE  pc[c] = step /\ Answers(c, step)
BY DEF Able, Fails, Served, Connected, Refused, Answers

LEMMA AnsweredSteps ==
  ASSUME ConnectionsInv, NEW c \in Callers, pc[c] \in Statements \ {"store"},
         pc[c] # "idle" => Answers(c, pc[c]), NEW step \in Statements, NEW known,
         Go(c, step, Links, known), cacheType' = cacheType
  PROVE  ConnectionsInv' /\ Stays(Links, c, step)
<1>1. Sound(Links, pc) /\ Leaves(Links, c) /\ Links.runner = runner
  BY AnsweredLeaves DEF Links
<1> QED
  BY <1>1, CallerSteps

LEMMA StoredSteps ==
  ASSUME ConnectionsInv, NEW c \in Callers, pc[c] = "store", Answers(c, "store"), NEW step \in Statements,
         NEW known, NEW done, Go(c, step, LinksAfterStore(c, done), known), cacheType' = cacheType
  PROVE  /\ ConnectionsInv' /\ Stays(LinksAfterStore(c, done), c, step)
         /\ \A q \in Runners : q[1] # c \/ c \in Writers => LinksAfterStore(c, done).runner[q] = runner[q]
BY StoredLeaves, CallerSteps

LEMMA AfterResultsStatement == \A c : AfterResults(c) \in {"idle", "end"} /\ (c \in Writers <=> AfterResults(c) = "end")
BY DEF AfterResults

LEMMA BeginKeeps ==
  ASSUME ConnectionsInv, NEW c \in Callers, Begin(c)
  PROVE  ConnectionsInv'
<1> DEFINE step == IF c \in Writers THEN "write" ELSE IF c \in Removers THEN "remove" ELSE "get"
<1>1. pc[c] = "idle" /\ Go(c, step, Links, NoCall) /\ cacheType' = cacheType
  BY DEF Begin, optionVars
<1>2. step \in Statements /\ pc[c] \in Statements \ {"store"}
  BY <1>1 DEF Statements
<1> HIDE DEF step
<1> QED
  BY <1>1, <1>2, AnsweredSteps

LEMMA WriteKeeps ==
  ASSUME ConnectionsInv, NEW c \in Callers, Write(c)
  PROVE  ConnectionsInv'
<1>1. (Able(c, "write") \/ Fails(c, "write")) /\ cacheType' = cacheType
  BY DEF Write, optionVars
<1>2. pc[c] = "write" /\ Answers(c, "write")
  BY <1>1, AnswerOf
<1>3. PICK step \in {"get", "end"} : Go(c, step, Links, NoCall)
  BY DEF Write
<1> QED
  BY <1>1, <1>2, <1>3, AnsweredSteps DEF Statements

LEMMA GetKeeps ==
  ASSUME ConnectionsInv, NEW c \in Callers, Get(c)
  PROVE  ConnectionsInv'
<1>1. (Able(c, "get") \/ Fails(c, "get")) /\ cacheType' = cacheType
  BY DEF Get, optionVars
<1>2. pc[c] = "get" /\ Answers(c, "get")
  BY <1>1, AnswerOf
<1>3. \E step, known : step \in {"read", AfterResults(c)} /\ Go(c, step, Links, known)
  <2> DEFINE Goes(step, known) == step \in {"read", AfterResults(c)} /\ Go(c, step, Links, known)
  <2> SUFFICES \E step, known : Goes(step, known)
    OBVIOUS
  <2>1. CASE Go(c, "read", Links, call[c])
    <3>1. Goes("read", call[c])
      BY <2>1
    <3> QED
      BY <3>1
  <2>2. ASSUME NEW known, Go(c, AfterResults(c), Links, known)
        PROVE  \E step, any : Goes(step, any)
    <3>1. Goes(AfterResults(c), known)
      BY <2>2
    <3> QED
      BY <3>1
  <2>3. ASSUME NEW known, Go(c, "read", Links, known)
        PROVE  \E step, any : Goes(step, any)
    <3>1. Goes("read", known)
      BY <2>3
    <3> QED
      BY <3>1
  <2> HIDE DEF Goes
  <2> QED
    BY <2>1, <2>2, <2>3 DEF Get
<1>4. PICK step, known : step \in {"read", AfterResults(c)} /\ Go(c, step, Links, known)
  BY <1>3
<1>5. step \in Statements
  BY <1>4, AfterResultsStatement DEF Statements
<1> QED
  BY <1>1, <1>2, <1>4, <1>5, AnsweredSteps DEF Statements

\* A caller goes on by itself.
LEMMA WaitsKeeps ==
  ASSUME ConnectionsInv, NEW c \in Callers, pc[c] \in Statements \ {"store", "idle"}, Answers(c, pc[c]),
         NEW step \in Statements, step # "idle", pc' = [pc EXCEPT ![c] = step],
         UNCHANGED connectionVars, cacheType' = cacheType
  PROVE  ConnectionsInv'
<1>1. Sound(Links, pc) /\ Leaves(Links, c) /\ Links' = Links /\ runner' = runner
  BY AnsweredLeaves DEF Links, connectionVars
<1>2. Sound(Links', pc') /\ pc' \in [Callers -> Statements]
  BY <1>1, NextStatement DEF ConnectionsInv
<1> QED
  BY <1>1, <1>2, SoundLater DEF ConnectionsInv, HeldOnce

LEMMA ReadKeeps ==
  ASSUME ConnectionsInv, NEW c \in Callers, Read(c)
  PROVE  ConnectionsInv'
<1>1. (Able(c, "read") \/ Fails(c, "read")) /\ cacheType' = cacheType
  BY DEF Read, optionVars
<1>2. pc[c] = "read" /\ Answers(c, "read")
  BY <1>1, AnswerOf
<1>3. CASE pc' = [pc EXCEPT ![c] = "answer"] /\ UNCHANGED connectionVars
  BY <1>1, <1>2, <1>3, WaitsKeeps DEF Statements
<1>4. CASE Go(c, AfterResults(c), Links, NoCall)
  BY <1>1, <1>2, <1>4, AnsweredSteps, AfterResultsStatement DEF Statements
<1> QED
  BY <1>3, <1>4 DEF Read

LEMMA AnswerKeeps ==
  ASSUME ConnectionsInv, NEW c \in Callers, Answer(c)
  PROVE  ConnectionsInv'
<1>1. pc[c] = "answer" /\ Answers(c, "answer") /\ cacheType' = cacheType
  BY DEF Answer, Answers, By, optionVars
<1>2. \E step, known : step \in {"store", AfterResults(c)} /\ Go(c, step, Links, known)
  BY DEF Answer
<1>3. PICK step, known : step \in {"store", AfterResults(c)} /\ Go(c, step, Links, known)
  BY <1>2
<1>4. step \in Statements
  BY <1>3, AfterResultsStatement DEF Statements
<1> QED
  BY <1>1, <1>3, <1>4, AnsweredSteps DEF Statements

LEMMA StoreKeeps ==
  ASSUME ConnectionsInv, NEW c \in Callers, Store(c)
  PROVE  ConnectionsInv'
<1>1. (Able(c, "store") \/ Fails(c, "store")) /\ cacheType' = cacheType
  BY DEF Store, optionVars
<1>2. pc[c] = "store" /\ Answers(c, "store")
  BY <1>1, AnswerOf
<1>3. \E done, known : Go(c, AfterResults(c), LinksAfterStore(c, done), known)
  BY DEF Store
<1>4. PICK done, known : Go(c, AfterResults(c), LinksAfterStore(c, done), known)
  BY <1>3
<1> QED
  BY <1>1, <1>2, <1>4, StoredSteps, AfterResultsStatement DEF Statements

LEMMA EndKeeps ==
  ASSUME ConnectionsInv, NEW c \in Callers, End(c)
  PROVE  ConnectionsInv'
<1>1. pc[c] = "end" /\ Answers(c, "end") /\ cacheType' = cacheType /\ Go(c, "idle", Links, call[c])
  BY DEF End, Answers, By, Served, Connected, Refused, optionVars
<1> QED
  BY <1>1, AnsweredSteps DEF Statements

LEMMA DeleteKeeps ==
  ASSUME ConnectionsInv, NEW c \in Callers, Delete(c)
  PROVE  ConnectionsInv'
<1>1. (Able(c, "remove") \/ Fails(c, "remove")) /\ cacheType' = cacheType
  BY DEF Delete, optionVars
<1>2. pc[c] = "remove" /\ Answers(c, "remove")
  BY <1>1, AnswerOf
<1>3. CASE Go(c, "idle", Links, NoCall)
  BY <1>1, <1>2, <1>3, AnsweredSteps DEF Statements
<1>4. CASE pc' = [pc EXCEPT ![c] = "failed"] /\ UNCHANGED connectionVars
  BY <1>1, <1>2, <1>4, WaitsKeeps DEF Statements
<1> QED
  BY <1>3, <1>4 DEF Delete

-----------------------------------------------------------------------------

\* What the pool and the connections do changes the links only.
LEMMA EnvironmentSteps ==
  ASSUME ConnectionsInv, Sound(Links', pc), pc' = pc, cacheType' = cacheType, HeldOnce(runner')
  PROVE  ConnectionsInv'
BY SoundLater DEF ConnectionsInv, HeldOnce

LEMMA RunnersTyped ==
  ASSUME ConnectionsInv
  PROVE  /\ runner \in [Runners -> RunnerStates] /\ requests \in Seq(Runners) /\ Len(requests) \in Nat
         /\ \A q \in Runners : RunnerSound(runner[q], q, pc[q[1]])
         /\ \A q \in Runners : runner[q].connection = "connected" => runner[q].client \in Clients
<1>1. /\ runner \in [Runners -> RunnerStates] /\ requests \in Seq(Runners)
      /\ \A q \in Runners : RunnerSound(runner[q], q, pc[q[1]])
  BY DEF ConnectionsInv, Sound, LinksTyped, RunnersSound, Links
<1>2. Len(requests) \in Nat
  BY <1>1, LenProperties
<1>3. \A q \in Runners : runner[q].client \in Clients \union {""}
  BY <1>1 DEF RunnerStates
<1> QED
  BY <1>1, <1>2, <1>3 DEF RunnerSound

\* One of the runners that hold a client is released by closePool.
LEMMA ReleaseListedKeeps ==
  ASSUME ConnectionsInv, NEW q \in Runners, ReleaseListed(q), pc' = pc, cacheType' = cacheType
  PROVE  ConnectionsInv'
<1>1. runner[q].connection = "connected" /\ Become(Release(Links, q))
  BY RunnersTyped DEF ReleaseListed, Listed, RunnerSound
<1>2. /\ Sound(Release(Links, q), pc) /\ \A p \in Runners : p # q => Release(Links, q).runner[p] = runner[p]
      /\ ~Release(Links, q).runner[q].holds
  BY <1>1, ReleaseSound DEF ConnectionsInv, Links
<1>3. Links' = Release(Links, q) /\ runner' = Release(Links, q).runner
  <2>1. Release(Links, q) = [runner |-> Release(Links, q).runner, requests |-> Release(Links, q).requests]
    BY <1>2 DEF Sound, LinksTyped
  <2> QED
    BY <1>1, <2>1 DEF Become, Links
<1>4. HeldOnce(runner')
  <2>1. \A p \in Runners : runner'[p].holds => runner'[p] = runner[p]
    BY <1>2, <1>3
  <2> QED
    BY <2>1, HeldLater
<1> QED
  BY <1>2, <1>3, <1>4, EnvironmentSteps

\* Runners whose clients are gone have none, and the others are as they were.
LEMMA LostKeeps ==
  ASSUME ConnectionsInv, NEW gone \in SUBSET Clients, Become(Lost(Links, gone)), pc' = pc, cacheType' = cacheType
  PROVE  /\ ConnectionsInv'
         /\ \A q \in Runners : /\ runner[q].client \notin gone => runner'[q] = runner[q]
                               /\ runner[q].client \in gone => runner'[q].connection = "refused"
<1> DEFINE lost(q) == [runner[q] EXCEPT !.connection = "refused", !.client = "", !.holds = FALSE,
                                        !.listed = FALSE, !.released = TRUE]
           state(q) == IF runner[q].client \notin gone THEN runner[q] ELSE lost(q)
<1>1. runner' = [q \in Runners |-> state(q)] /\ requests' = requests
  BY DEF Become, Lost, Links
<1>2. \A q \in Runners : /\ lost(q) \in RunnerStates /\ RunnerSound(lost(q), q, pc[q[1]])
                         /\ lost(q).connection = "refused" /\ ~lost(q).holds
  <2> TAKE q \in Runners
  <2>1. runner[q] \in RunnerStates
    BY RunnersTyped
  <2>2. lost(q) \in RunnerStates
    BY <2>1 DEF RunnerStates
  <2>3. /\ lost(q).connection = "refused" /\ lost(q).client = "" /\ ~lost(q).holds /\ ~lost(q).listed
    BY <2>1 DEF RunnerStates
  <2> HIDE DEF lost
  <2>4. RunnerSound(lost(q), q, pc[q[1]])
    BY <2>3 DEF RunnerSound
  <2> QED
    BY <2>2, <2>3, <2>4
<1> HIDE DEF lost
<1>3. \A q \in Runners : state(q) \in RunnerStates /\ RunnerSound(state(q), q, pc[q[1]])
  BY <1>2, RunnersTyped
<1>4. \A q \in Runners : /\ runner[q].client \notin gone => runner'[q] = runner[q]
                         /\ runner[q].client \in gone => runner'[q].connection = "refused" /\ ~runner'[q].holds
  BY <1>1, <1>2
<1>5. \A q \in Runners : runner[q].connection = "waiting" => runner'[q] = runner[q]
  BY <1>4, RunnersTyped, ClientsAssumption DEF RunnerSound
<1>6. \A i \in 1..Len(requests) : requests[i] \in Runners
  BY RunnersTyped, ElementOfSeq
<1>7. LinksTyped(Links')
  BY <1>1, <1>3, RunnersTyped DEF LinksTyped, Links
<1>8. RequestsSound(Links')
  BY <1>1, <1>5, <1>6 DEF ConnectionsInv, Sound, RequestsSound, Links
<1>9. RunnersSound(Links', pc)
  BY <1>1, <1>3 DEF RunnersSound, Links
<1>10. HeldOnce(runner')
  BY <1>4, HeldLater
<1> QED
  BY <1>4, <1>7, <1>8, <1>9, <1>10, EnvironmentSteps DEF Sound

\* The first of the requests gets a client that is free.
LEMMA GrantKeeps ==
  ASSUME ConnectionsInv, Grant, pc' = pc, cacheType' = cacheType
  PROVE  ConnectionsInv' /\ \A p \in Runners :
           /\ runner'[p] = runner[p] \/ runner'[p].holds
           /\ runner[p].connection # "waiting" => runner'[p] = runner[p]
<1> DEFINE q == Head(requests)
<1>typed. runner \in [Runners -> RunnerStates] /\ requests \in Seq(Runners)
  BY RunnersTyped
<1>k. PICK k \in Free :
        runner' = [runner EXCEPT ![q] = [@ EXCEPT !.connection = "connected", !.client = k, !.holds = TRUE, !.listed = TRUE]]
  BY DEF Grant
<1> DEFINE state == [runner[q] EXCEPT !.connection = "connected", !.client = k, !.holds = TRUE, !.listed = TRUE]
<1>0. requests # <<>> /\ runner' = [runner EXCEPT ![q] = state] /\ requests' = Tail(requests)
  BY <1>k DEF Grant
<1>1. /\ q \in Runners /\ q = requests[1] /\ Len(requests) \in Nat \ {0}
      /\ Tail(requests) \in Seq(Runners) /\ Len(Tail(requests)) = Len(requests) - 1
      /\ \A i \in 1..Len(Tail(requests)) : Tail(requests)[i] = requests[i + 1]
  BY <1>typed, <1>0, HeadTailProperties, EmptySeq
<1>2. /\ \A i \in 1..Len(requests) : requests[i] \in Runners /\ runner[requests[i]].connection = "waiting"
      /\ \A i, j \in 1..Len(requests) : requests[i] = requests[j] => i = j
  BY <1>typed, ElementOfSeq DEF ConnectionsInv, Sound, RequestsSound, Links
<1>3. RunnerSound(runner[q], q, pc[q[1]]) /\ runner[q].connection = "waiting"
  BY <1>1, <1>2, RunnersTyped
<1>free. k \in Clients /\ k # "" /\ \A p \in Runners : runner[p].holds => runner[p].client # k
  BY ClientsAssumption DEF Free, Holding
<1>state. state \in RunnerStates
  <2>1. runner[q] \in RunnerStates /\ k \in Clients \union {""}
    BY <1>typed, <1>1, <1>free
  <2> HIDE DEF q
  <2> QED
    BY <2>1 DEF RunnerStates
<1>fields. /\ state.connection = "connected" /\ state.client = k /\ state.holds /\ state.listed
           /\ state.released = runner[q].released
  BY <1>typed, <1>1 DEF RunnerStates
<1> HIDE DEF state
<1>4. RunnerSound(state, q, pc[q[1]])
  <2>1. Needs(q, pc[q[1]]) /\ ~runner[q].released
    BY <1>3 DEF RunnerSound
  <2>2. q[2] = "store" => pc[q[1]] = "store" /\ q[1] \notin Writers
    <3>1. q[1] \in Callers /\ <<q[1], "main">>[2] = "main"
      BY <1>1, RunnersOfCallers
    <3> QED
      BY <2>1, <3>1 DEF Needs, By, StoreRunner, Main
  <2>3. pc[q[1]] # "idle"
    BY <2>1 DEF Needs
  <2> QED
    BY <1>fields, <1>free, <2>1, <2>2, <2>3 DEF RunnerSound
<1> HIDE DEF q
<1>5. \A p \in Runners : runner'[p] = IF p = q THEN state ELSE runner[p]
  BY <1>typed, <1>0
<1>6. LinksTyped(Links')
  BY <1>typed, <1>0, <1>1, <1>state DEF LinksTyped, Links
<1>7. RequestsSound(Links')
  <2>1. \A i \in 1..Len(requests') : i + 1 \in 1..Len(requests) /\ requests'[i] = requests[i + 1] /\ i + 1 # 1
    BY <1>0, <1>1
  <2>2. \A i \in 1..Len(requests') : requests'[i] \in Runners /\ requests'[i] # q
                                    /\ runner[requests'[i]].connection = "waiting"
    BY <1>1, <1>2, <2>1
  <2>3. \A i \in 1..Len(requests') : runner'[requests'[i]].connection = "waiting"
    BY <1>5, <2>2
  <2>4. \A i, j \in 1..Len(requests') : requests'[i] = requests'[j] => i = j
    <3> SUFFICES ASSUME NEW i \in 1..Len(requests'), NEW j \in 1..Len(requests'), requests'[i] = requests'[j]
                 PROVE  i = j
      OBVIOUS
    <3>1. i + 1 = j + 1
      BY <1>2, <2>1
    <3>2. i \in Int /\ j \in Int
      BY <1>0, <1>1
    <3> QED
      BY <3>1, <3>2
  <2> QED
    BY <2>3, <2>4 DEF RequestsSound, Links
<1>8. RunnersSound(Links', pc)
  BY <1>4, <1>5, RunnersTyped DEF RunnersSound, Links
<1>9. HeldOnce(runner')
  BY <1>5, <1>fields, <1>free DEF ConnectionsInv, HeldOnce
<1>10. \A p \in Runners : /\ runner'[p] = runner[p] \/ runner'[p].holds
                          /\ runner[p].connection # "waiting" => runner'[p] = runner[p]
  BY <1>3, <1>5, <1>fields
<1> QED
  BY <1>6, <1>7, <1>8, <1>9, <1>10, EnvironmentSteps DEF Sound

\* A request that is taken out of the queue leaves the others in it.
LEMMA TimeoutKeeps ==
  ASSUME ConnectionsInv, NEW q \in Runners, ConnectTimeout(q), pc' = pc, cacheType' = cacheType
  PROVE  /\ ConnectionsInv'
         /\ \A p \in Runners : runner'[p] # runner[p] =>
              runner'[p].connection = "refused" /\ runner[p].connection = "waiting"
<1> DEFINE state == [runner[q] EXCEPT !.connection = "refused"]
<1>typed. runner \in [Runners -> RunnerStates] /\ requests \in Seq(Runners) /\ Len(requests) \in Nat
  BY RunnersTyped
<1>0. runner[q].connection = "waiting" /\ runner' = [runner EXCEPT ![q] = state]
  BY DEF ConnectTimeout
<1>1. PICK k \in 1..Len(requests) :
        requests[k] = q /\ requests' = SubSeq(requests, 1, k - 1) \o SubSeq(requests, k + 1, Len(requests))
  BY DEF ConnectTimeout
<1>2. /\ \A i \in 1..Len(requests) : requests[i] \in Runners /\ runner[requests[i]].connection = "waiting"
      /\ \A i, j \in 1..Len(requests) : requests[i] = requests[j] => i = j
  BY <1>typed, ElementOfSeq DEF ConnectionsInv, Sound, RequestsSound, Links
<1>3. PICK n \in Nat : n = Len(requests) /\ k \in 1..n
  BY <1>typed
<1>4. /\ SubSeq(requests, 1, k - 1) \in Seq(Runners) /\ Len(SubSeq(requests, 1, k - 1)) = k - 1
      /\ \A i \in 1..(k - 1) : SubSeq(requests, 1, k - 1)[i] = requests[i]
  <2>1. \A i \in 1..(k - 1) : requests[i] \in Runners
    BY <1>2, <1>3
  <2>2. /\ SubSeq(requests, 1, k - 1) \in Seq(Runners)
        /\ Len(SubSeq(requests, 1, k - 1)) = IF 1 <= k - 1 THEN k - 1 - 1 + 1 ELSE 0
        /\ \A i \in 1..(k - 1 - 1 + 1) : SubSeq(requests, 1, k - 1)[i] = requests[1 + i - 1]
    BY <1>3, <2>1, SubSeqProperties
  <2>3. k - 1 - 1 + 1 = k - 1 /\ \A i \in 1..(k - 1) : 1 + i - 1 = i
    BY <1>3
  <2>4. Len(SubSeq(requests, 1, k - 1)) = k - 1
    BY <1>3, <2>2
  <2> QED
    BY <2>2, <2>3, <2>4
<1>5. /\ SubSeq(requests, k + 1, n) \in Seq(Runners) /\ Len(SubSeq(requests, k + 1, n)) = n - k
      /\ \A i \in 1..(n - k) : SubSeq(requests, k + 1, n)[i] = requests[k + i]
  <2>1. \A i \in (k + 1)..n : requests[i] \in Runners
    BY <1>2, <1>3
  <2>2. /\ SubSeq(requests, k + 1, n) \in Seq(Runners)
        /\ Len(SubSeq(requests, k + 1, n)) = IF k + 1 <= n THEN n - (k + 1) + 1 ELSE 0
        /\ \A i \in 1..(n - (k + 1) + 1) : SubSeq(requests, k + 1, n)[i] = requests[k + 1 + i - 1]
    BY <1>3, <2>1, SubSeqProperties
  <2>3. n - (k + 1) + 1 = n - k /\ \A i \in 1..(n - k) : k + 1 + i - 1 = k + i
    BY <1>3
  <2>4. Len(SubSeq(requests, k + 1, n)) = n - k
    BY <1>3, <2>2
  <2> QED
    BY <2>2, <2>3, <2>4
<1> DEFINE old(i) == IF i < k THEN i ELSE i + 1
<1>6. /\ requests' \in Seq(Runners) /\ Len(requests') = n - 1
      /\ \A i \in 1..(n - 1) : requests'[i] = requests[old(i)] /\ old(i) \in 1..n /\ old(i) # k
  <2>1. /\ requests' \in Seq(Runners) /\ Len(requests') = (k - 1) + (n - k)
        /\ \A i \in 1..((k - 1) + (n - k)) :
             requests'[i] = IF i <= k - 1 THEN SubSeq(requests, 1, k - 1)[i]
                            ELSE SubSeq(requests, k + 1, n)[i - (k - 1)]
    <3> DEFINE before == SubSeq(requests, 1, k - 1)
    <3> DEFINE after == SubSeq(requests, k + 1, n)
    <3>1. requests' = before \o after
      BY <1>1, <1>3
    <3>2. before \in Seq(Runners) /\ after \in Seq(Runners) /\ Len(before) = k - 1 /\ Len(after) = n - k
      BY <1>4, <1>5
    <3> HIDE DEF before, after
    <3>3. /\ before \o after \in Seq(Runners) /\ Len(before \o after) = Len(before) + Len(after)
          /\ \A i \in 1..(Len(before) + Len(after)) : (before \o after)[i] =
               IF i <= Len(before) THEN before[i] ELSE after[i - Len(before)]
      BY <3>2, ConcatProperties
    <3> QED
      BY <3>1, <3>2, <3>3 DEF before, after
  <2>2. (k - 1) + (n - k) = n - 1
    BY <1>3
  <2>3. ASSUME NEW i \in 1..(n - 1)
        PROVE  requests'[i] = requests[old(i)] /\ old(i) \in 1..n /\ old(i) # k
    <3>1. CASE i < k
      <4>1. i \in 1..(k - 1) /\ i <= k - 1
        BY <1>3, <3>1
      <4> QED
        BY <1>3, <1>4, <2>1, <2>2, <3>1, <4>1
    <3>2. CASE ~(i < k)
      <4>1. i - (k - 1) \in 1..(n - k) /\ ~(i <= k - 1) /\ k + (i - (k - 1)) = i + 1
        BY <1>3, <3>2
      <4>2. requests'[i] = requests[i + 1]
        BY <1>5, <2>1, <2>2, <4>1
      <4> QED
        BY <1>3, <3>2, <4>2
    <3> QED
      BY <3>1, <3>2
  <2> QED
    BY <2>1, <2>2, <2>3
<1>7. \A i, j \in 1..(n - 1) : old(i) = old(j) => i = j
  BY <1>3
<1> HIDE DEF old
<1>8. /\ state \in RunnerStates /\ state.connection = "refused" /\ state.client = ""
      /\ ~state.holds /\ ~state.listed
  <2>1. runner[q] \in RunnerStates /\ RunnerSound(runner[q], q, pc[q[1]])
    BY RunnersTyped
  <2> QED
    BY <1>0, <2>1 DEF RunnerStates, RunnerSound
<1> HIDE DEF state
<1>9. \A p \in Runners : runner'[p] = IF p = q THEN state ELSE runner[p]
  BY <1>typed, <1>0
<1>10. LinksTyped(Links')
  BY <1>typed, <1>0, <1>6, <1>8 DEF LinksTyped, Links
<1>11. RequestsSound(Links')
  <2>1. \A i \in 1..(n - 1) : /\ requests'[i] \in Runners /\ requests'[i] # q
                               /\ runner[requests'[i]].connection = "waiting"
    <3> SUFFICES ASSUME NEW i \in 1..(n - 1)
                 PROVE  /\ requests'[i] \in Runners /\ requests'[i] # q
                        /\ runner[requests'[i]].connection = "waiting"
      OBVIOUS
    <3>1. requests'[i] = requests[old(i)] /\ old(i) \in 1..Len(requests) /\ old(i) # k
      BY <1>3, <1>6
    <3> QED
      BY <1>1, <1>2, <3>1
  <2>2. \A i \in 1..(n - 1) : runner'[requests'[i]].connection = "waiting"
    BY <1>9, <2>1
  <2>3. \A i, j \in 1..(n - 1) : requests'[i] = requests'[j] => i = j
    BY <1>2, <1>3, <1>6, <1>7
  <2> QED
    BY <1>6, <2>2, <2>3 DEF RequestsSound, Links
<1>12. RunnersSound(Links', pc)
  <2>1. RunnerSound(state, q, pc[q[1]])
    BY <1>8 DEF RunnerSound
  <2> QED
    BY <1>9, <2>1 DEF ConnectionsInv, Sound, RunnersSound, Links
<1>13. HeldOnce(runner')
  <2>1. \A p \in Runners : runner'[p].holds => runner'[p] = runner[p]
    BY <1>8, <1>9
  <2> QED
    BY <2>1, HeldLater
<1>14. \A p \in Runners : runner'[p] # runner[p] =>
         runner'[p].connection = "refused" /\ runner[p].connection = "waiting"
  <2>1. runner[q].connection = "waiting" /\ state.connection = "refused"
    BY <1>0, <1>8
  <2> SUFFICES ASSUME NEW p \in Runners
               PROVE  runner'[p] # runner[p] =>
                        runner'[p].connection = "refused" /\ runner[p].connection = "waiting"
    OBVIOUS
  <2>2. CASE p = q
    <3>1. runner'[p] = state
      BY <1>9, <2>2
    <3> QED
      BY <2>1, <2>2, <3>1
  <2>3. CASE p # q
    BY <1>9, <2>3
  <2> QED
    BY <2>2, <2>3
<1> QED
  BY <1>10, <1>11, <1>12, <1>13, <1>14, EnvironmentSteps DEF Sound

-----------------------------------------------------------------------------

LEMMA InitConnections == Init => ConnectionsInv
<1> SUFFICES ASSUME Init PROVE ConnectionsInv
  OBVIOUS
<1>1. Links = [runner |-> [q \in Runners |-> NewRunner], requests |-> <<>>] /\ runner = [q \in Runners |-> NewRunner]
  BY DEF Init, ConnectionsInit, Links
<1>2. LinksTyped(Links) /\ RequestsSound(Links)
  BY <1>1, NewRunnerSound, EmptySeq DEF LinksTyped, RequestsSound
<1>3. RunnersSound(Links, pc)
  BY <1>1, NewRunnerSound DEF RunnersSound
<1>4. pc \in [Callers -> Statements]
  BY DEF Init, Statements
<1>5. HeldOnce(runner)
  BY <1>1, NewRunnerSound DEF HeldOnce
<1> QED
  BY <1>2, <1>3, <1>4, <1>5 DEF ConnectionsInv, Sound

LEMMA StepConnections ==
  ASSUME ConnectionsInv, [Next]_vars
  PROVE  ConnectionsInv'
<1>1. ASSUME NEW c \in Callers, Begin(c) \/ Step(c) PROVE ConnectionsInv'
  BY <1>1, BeginKeeps, WriteKeeps, GetKeeps, ReadKeeps, AnswerKeeps, StoreKeeps, EndKeeps, DeleteKeeps DEF Step
<1>2. ASSUME NEW k \in Clients, Break(k) PROVE ConnectionsInv'
  BY <1>2, LostKeeps DEF Break, RolledBack, optionVars
<1>3. ASSUME NEW q \in Runners, Timeout(q) PROVE ConnectionsInv'
  BY <1>3, TimeoutKeeps DEF Timeout, optionVars
<1>4. ASSUME UNCHANGED <<runner, requests, pc, cacheType>> PROVE ConnectionsInv'
  <2>1. Links' = Links /\ Sound(Links', pc) /\ HeldOnce(runner')
    BY <1>4 DEF ConnectionsInv, Links, HeldOnce
  <2> QED
    BY <1>4, <2>1, EnvironmentSteps
<1>5. CASE Change \/ Tick
  BY <1>4, <1>5 DEF Change, Tick, connectionVars, optionVars
<1>6. CASE Serve
  BY <1>6, GrantKeeps DEF Serve, optionVars
<1>7. CASE Destroy
  BY <1>4, <1>7 DEF Destroy, Disconnect, optionVars
<1>8. CASE Closing
  <2>1. ASSUME NEW q \in Runners, ReleaseListed(q), UNCHANGED <<pc, optionVars>> PROVE ConnectionsInv'
    BY <2>1, ReleaseListedKeeps DEF optionVars
  <2>2. CASE EndPool /\ RolledBack(Free)
    <3>1. Free \in SUBSET Clients
      BY DEF Free
    <3> QED
      BY <2>2, <3>1, LostKeeps DEF EndPool, RolledBack, optionVars
  <2>3. CASE PoolEnded /\ UNCHANGED <<pc, optionVars>>
    BY <1>4, <2>3 DEF PoolEnded, optionVars
  <2> QED
    BY <1>8, <2>1, <2>2, <2>3 DEF Closing
<1>9. CASE UNCHANGED vars
  BY <1>4, <1>9 DEF vars, connectionVars, optionVars
<1> QED
  BY <1>1, <1>2, <1>3, <1>5, <1>6, <1>7, <1>8, <1>9 DEF Next

\* Runners and requests agree with where the callers are, and no client is held twice,
\* whatever fails.
THEOREM ConnectionsInvariance == Spec => []ConnectionsInv
<1>1. ConnectionsInv /\ [Next]_vars => ConnectionsInv'
  BY StepConnections
<1> QED
  BY <1>1, InitConnections, PTL DEF Spec

\* Whatever fails, breaks or is destroyed, a client of the pool is out only for a call
\* that is under way, or for a remove that has failed.
THEOREM ClientsAlwaysReturned == Spec => []OnlyRemoveKeepsClients
<1>1. ConnectionsInv => OnlyRemoveKeepsClients
  BY RunnersTyped DEF RunnerSound, OnlyRemoveKeepsClients, Holding
<1> QED
  BY <1>1, ConnectionsInvariance, PTL

(***************************************************************************)
(* How old is what the cache serves.  The inductive invariant follows the  *)
(* time with the result: from then to now, what is kept of a result, in a  *)
(* call or in a row, has been the truth at that time, less its lag; for a  *)
(* version is committed after all others, and a client whose transaction   *)
(* has one is the only one.                                                *)
(***************************************************************************)
Values == [result : Nat, time : Nat, lag : Nat]
CallRecords == [saved : BOOLEAN, cacheError : BOOLEAN, result : Nat, time : Nat, lag : Nat,
                served : BOOLEAN, at : Nat]
Transactions == [open : BOOLEAN, version : Nat, aborted : BOOLEAN]
Tables == Seq([version : Nat, at : Nat])

\* The version after result, if any, came no earlier than lag before time.
TrueSince(result, time, lag, table, now) ==
  /\ time <= now
  /\ \A i \in 1..(Len(table) - 1) : table[i].version = result => table[i + 1].at + lag >= time

ValueTrue(value, table, now) ==
  value \in Values /\ TrueSince(value.result, value.time, value.lag, table, now)

RowShaped(row) == row = [n |-> row.n, value |-> row.value, new |-> row.new, by |-> row.by]

RowTyped(row) == RowShaped(row) /\ row.by \in Clients \union {""}

RowTrue(row, table, now) ==
  RowTyped(row) /\ ValueTrue(row.value, table, now) /\ ValueTrue(row.new, table, now)

CallTrue(record, table, now) ==
  /\ record \in CallRecords
  /\ TrueSince(record.result, record.time, record.lag, table, now)
  /\ record.at <= now
  /\ record.served => \A i \in 1..(Len(table) - 1) : table[i].version = record.result
                        => table[i + 1].at + Duration + record.lag >= record.at

TableSound(table, now, newest) ==
  \A i \in 1..Len(table) :
    /\ table[i].at <= now /\ table[i].version <= newest
    /\ \A j \in 1..Len(table) : i < j => table[i].version < table[j].version

\* A client that has written holds the newest version, which is not committed yet.
OwnerSound(k, owned, table, newest) ==
  owned[k].version # 0 =>
    /\ owned[k].version = newest
    /\ \A j \in Clients : owned[j].version # 0 => j = k
    /\ \A i \in 1..Len(table) : table[i].version < newest

\* A call that has nothing of the cache has what was true when it was read.
CallFresh(record, step) == step \in {"get", "read", "answer"} => ~record.served /\ record.lag = 0

DataTyped ==
  /\ committed \in Tables /\ committed # <<>> /\ written \in Nat /\ clock \in Nat
  /\ transaction \in [Clients -> Transactions] /\ call \in [Callers -> CallRecords]

TimesInv ==
  /\ DataTyped
  /\ TableSound(committed, clock, written)
  /\ \A k \in Clients : OwnerSound(k, transaction, committed, written)
  /\ \A row \in rows : RowTrue(row, committed, clock)
  /\ \A c \in Callers : CallTrue(call[c], committed, clock) /\ CallFresh(call[c], pc[c])

LEMMA TableEntries ==
  ASSUME NEW table \in Tables
  PROVE  /\ Len(table) \in Nat
         /\ \A i \in 1..Len(table) : table[i].version \in Nat /\ table[i].at \in Nat
         /\ \A i \in 1..(Len(table) - 1) : i \in 1..Len(table) /\ i + 1 \in 1..Len(table) /\ table[i + 1].at \in Nat
<1> DEFINE S == [version : Nat, at : Nat]
<1>1. Len(table) \in Nat /\ \A i \in 1..Len(table) : table[i] \in S
  BY LenProperties, ElementOfSeq DEF Tables
<1>2. \A i \in 1..(Len(table) - 1) : i \in 1..Len(table) /\ i + 1 \in 1..Len(table)
  BY <1>1
<1> QED
  BY <1>1, <1>2

LEMMA TableExtended ==
  ASSUME NEW table \in Tables, NEW v \in Nat, NEW now \in Nat
  PROVE  LET longer == Append(table, [version |-> v, at |-> now])
         IN /\ longer \in Tables /\ longer # <<>> /\ Len(longer) = Len(table) + 1
            /\ \A i \in 1..Len(table) : longer[i] = table[i]
            /\ longer[Len(table) + 1].version = v /\ longer[Len(table) + 1].at = now
<1> DEFINE S == [version : Nat, at : Nat]
           e == [version |-> v, at |-> now]
<1>1. e \in S /\ e.version = v /\ e.at = now
  OBVIOUS
<1> HIDE DEF S, e
<1>2. table \in Seq(S)
  BY DEF Tables, S
<1>3. /\ Append(table, e) \in Seq(S) /\ Append(table, e) # <<>> /\ Len(Append(table, e)) = Len(table) + 1
      /\ \A i \in 1..Len(table) : Append(table, e)[i] = table[i]
      /\ Append(table, e)[Len(table) + 1] = e
  BY <1>1, <1>2, AppendProperties
<1> QED
  BY <1>1, <1>3 DEF Tables, S, e

(***************************************************************************)
(* A table gets longer by a version, now, or time goes by.                 *)
(***************************************************************************)
Extends(longer, table, now) ==
  \/ longer = table
  \/ \E v \in Nat : longer = Append(table, [version |-> v, at |-> now])

LEMMA ExtendedBy ==
  ASSUME NEW table \in Tables, NEW longer, NEW now \in Nat, Extends(longer, table, now), table # <<>>
  PROVE  /\ longer \in Tables /\ longer # <<>>
         /\ \A i \in 1..(Len(longer) - 1) :
              /\ longer[i] = table[i]
              /\ \/ longer[i + 1].at = now
                 \/ i \in 1..(Len(table) - 1) /\ longer[i + 1] = table[i + 1]
<1>0. Len(table) \in Nat
  BY TableEntries
<1>1. CASE longer = table
  <2>1. Len(longer) = Len(table)
    BY <1>1
  <2> QED
    BY <1>0, <1>1, <2>1
<1>2. ASSUME NEW v \in Nat, longer = Append(table, [version |-> v, at |-> now])
      PROVE  /\ longer \in Tables /\ longer # <<>>
             /\ \A i \in 1..(Len(longer) - 1) :
                  /\ longer[i] = table[i]
                  /\ \/ longer[i + 1].at = now
                     \/ i \in 1..(Len(table) - 1) /\ longer[i + 1] = table[i + 1]
  <2>1. /\ longer \in Tables /\ longer # <<>> /\ Len(longer) = Len(table) + 1
        /\ \A i \in 1..Len(table) : longer[i] = table[i]
        /\ longer[Len(table) + 1].at = now
    BY <1>2, TableExtended
  <2>2. ASSUME NEW i \in 1..(Len(longer) - 1)
        PROVE  /\ longer[i] = table[i]
               /\ \/ longer[i + 1].at = now
                  \/ i \in 1..(Len(table) - 1) /\ longer[i + 1] = table[i + 1]
    <3>1. i \in 1..Len(table)
      BY <1>0, <2>1
    <3>2. CASE i = Len(table)
      BY <2>1, <3>1, <3>2
    <3>3. CASE i # Len(table)
      <4>1. i \in 1..(Len(table) - 1) /\ i + 1 \in 1..Len(table)
        BY <1>0, <3>1, <3>3
      <4> QED
        BY <2>1, <3>1, <4>1
    <3> QED
      BY <3>2, <3>3
  <2> QED
    BY <2>1, <2>2
<1> QED
  BY <1>1, <1>2 DEF Extends

\* What has been true stays so when time goes by and when a version is committed.
LEMMA TrueLater ==
  ASSUME NEW table \in Tables, NEW longer, NEW now \in Nat, NEW later \in Nat, now <= later,
         Extends(longer, table, now), table # <<>>,
         NEW result, NEW time \in Nat, NEW lag \in Nat, TrueSince(result, time, lag, table, now)
  PROVE  TrueSince(result, time, lag, longer, later)
<1>1. time <= now /\ time <= later
  BY DEF TrueSince
<1>2. ASSUME NEW i \in 1..(Len(longer) - 1), longer[i].version = result
      PROVE  longer[i + 1].at + lag >= time
  <2>1. /\ longer[i] = table[i]
        /\ \/ longer[i + 1].at = now
           \/ i \in 1..(Len(table) - 1) /\ longer[i + 1] = table[i + 1]
    BY ExtendedBy
  <2>2. CASE longer[i + 1].at = now
    BY <1>1, <2>2
  <2>3. CASE i \in 1..(Len(table) - 1) /\ longer[i + 1] = table[i + 1]
    BY <1>2, <2>1, <2>3 DEF TrueSince
  <2> QED
    BY <2>1, <2>2, <2>3
<1> QED
  BY <1>1, <1>2 DEF TrueSince

LEMMA ValueTrueLater ==
  ASSUME NEW table \in Tables, NEW longer, NEW now \in Nat, NEW later \in Nat, now <= later,
         Extends(longer, table, now), table # <<>>, NEW value, ValueTrue(value, table, now)
  PROVE  ValueTrue(value, longer, later)
<1>1. value \in Values /\ value.time \in Nat /\ value.lag \in Nat
  BY DEF ValueTrue, Values
<1>2. TrueSince(value.result, value.time, value.lag, table, now)
  BY DEF ValueTrue
<1>3. TrueSince(value.result, value.time, value.lag, longer, later)
  BY <1>1, <1>2, TrueLater
<1> QED
  BY <1>1, <1>3 DEF ValueTrue

LEMMA RowTrueLater ==
  ASSUME NEW table \in Tables, NEW longer, NEW now \in Nat, NEW later \in Nat, now <= later,
         Extends(longer, table, now), table # <<>>, NEW row, RowTrue(row, table, now)
  PROVE  RowTrue(row, longer, later)
BY ValueTrueLater DEF RowTrue

LEMMA CallTrueLater ==
  ASSUME NEW table \in Tables, NEW longer, NEW now \in Nat, NEW later \in Nat, now <= later,
         Extends(longer, table, now), table # <<>>, NEW record, CallTrue(record, table, now)
  PROVE  CallTrue(record, longer, later)
<1>1. /\ record \in CallRecords /\ record.result \in Nat /\ record.time \in Nat
      /\ record.lag \in Nat /\ record.at \in Nat
  BY DEF CallTrue, CallRecords
<1>2. TrueSince(record.result, record.time, record.lag, table, now) /\ record.at <= now
  BY DEF CallTrue
<1>3. TrueSince(record.result, record.time, record.lag, longer, later) /\ record.at <= later
  BY <1>1, <1>2, TrueLater
<1>4. ASSUME record.served, NEW i \in 1..(Len(longer) - 1), longer[i].version = record.result
      PROVE  longer[i + 1].at + Duration + record.lag >= record.at
  <2>0. Duration \in Nat
    BY QueriesAssumption
  <2>1. /\ longer[i] = table[i]
        /\ \/ longer[i + 1].at = now
           \/ i \in 1..(Len(table) - 1) /\ longer[i + 1] = table[i + 1]
    BY ExtendedBy
  <2>2. CASE longer[i + 1].at = now
    BY <1>1, <1>2, <2>0, <2>2
  <2>3. CASE i \in 1..(Len(table) - 1) /\ longer[i + 1] = table[i + 1]
    BY <1>4, <2>1, <2>3 DEF CallTrue
  <2> QED
    BY <2>1, <2>2, <2>3
<1> QED
  BY <1>1, <1>3, <1>4 DEF CallTrue

\* A version that is committed last is newer than all.
LEMMA TableLater ==
  ASSUME NEW table \in Tables, NEW v \in Nat, NEW now \in Nat, NEW newest \in Nat,
         TableSound(table, now, newest), \A i \in 1..Len(table) : table[i].version < v, NEW next \in Nat,
         newest <= next, v <= next
  PROVE  TableSound(Append(table, [version |-> v, at |-> now]), now, next)
<1> DEFINE longer == Append(table, [version |-> v, at |-> now])
<1>1. /\ Len(table) \in Nat
      /\ \A i \in 1..Len(table) : table[i].version \in Nat /\ table[i].at \in Nat
  BY TableEntries
<1>2. /\ Len(longer) = Len(table) + 1
      /\ \A i \in 1..Len(table) : longer[i] = table[i]
      /\ longer[Len(table) + 1].version = v /\ longer[Len(table) + 1].at = now
  BY TableExtended
<1> HIDE DEF longer
<1>3. \A i \in 1..Len(longer) : i \in 1..Len(table) \/ i = Len(table) + 1
  BY <1>1, <1>2
<1>4. \A i \in 1..Len(longer) : longer[i].at <= now /\ longer[i].version <= next
  BY <1>1, <1>2, <1>3 DEF TableSound
<1>5. \A i, j \in 1..Len(longer) : i < j => longer[i].version < longer[j].version
  BY <1>1, <1>2, <1>3 DEF TableSound
<1>6. TableSound(longer, now, next)
  BY <1>4, <1>5 DEF TableSound
<1> QED
  BY <1>6 DEF longer

LEMMA NothingKnown ==
  ASSUME NEW table \in Tables, NEW now \in Nat
  PROVE  /\ CallTrue(NoCall, table, now) /\ ValueTrue(NoValue, table, now)
         /\ \A step : CallFresh(NoCall, step)
<1>1. \A i \in 1..(Len(table) - 1) : table[i + 1].at \in Nat
  BY TableEntries
<1>2. TrueSince(0, 0, 0, table, now)
  BY <1>1 DEF TrueSince
<1>3. /\ NoCall.result = 0 /\ NoCall.time = 0 /\ NoCall.lag = 0 /\ NoCall.at = 0 /\ NoCall.served = FALSE
      /\ NoCall \in CallRecords
  BY DEF NoCall, CallRecords
<1>4. NoValue.result = 0 /\ NoValue.time = 0 /\ NoValue.lag = 0 /\ NoValue \in Values
  BY DEF NoValue, Values
<1>5. CallTrue(NoCall, table, now)
  BY <1>2, <1>3 DEF CallTrue
<1> QED
  BY <1>2, <1>3, <1>4, <1>5 DEF ValueTrue, CallFresh

\* What a step has to show of the times: of what is known before it, the rest follows.
LEMMA TimesLater ==
  ASSUME TimesInv, clock' \in Nat, clock <= clock', written' \in Nat, Extends(committed', committed, clock),
         TableSound(committed', clock', written'), transaction' \in [Clients -> Transactions],
         \A k \in Clients : OwnerSound(k, transaction', committed', written'),
         \A row \in rows' : RowTrue(row, committed, clock), call' \in [Callers -> CallRecords],
         \A c \in Callers : CallTrue(call'[c], committed, clock) /\ CallFresh(call'[c], pc'[c])
  PROVE  TimesInv'
<1>1. committed \in Tables /\ committed # <<>> /\ clock \in Nat
  BY DEF TimesInv, DataTyped
<1>2. committed' \in Tables /\ committed' # <<>>
  BY <1>1, ExtendedBy
<1>3. \A row \in rows' : RowTrue(row, committed', clock')
  BY <1>1, RowTrueLater
<1>4. \A c \in Callers : CallTrue(call'[c], committed', clock')
  BY <1>1, CallTrueLater
<1>5. DataTyped'
  BY <1>2 DEF DataTyped
<1>6. TableSound(committed, clock, written)'
  BY DEF TableSound
<1>7. (\A k \in Clients : OwnerSound(k, transaction, committed, written))'
  BY DEF OwnerSound
<1>8. (\A row \in rows : RowTrue(row, committed, clock))'
  BY <1>3 DEF RowTrue, RowTyped, ValueTrue, TrueSince
<1>9. (\A c \in Callers : CallTrue(call[c], committed, clock) /\ CallFresh(call[c], pc[c]))'
  BY <1>4 DEF CallTrue, CallFresh, TrueSince
<1> QED
  BY <1>5, <1>6, <1>7, <1>8, <1>9 DEF TimesInv

\* A transaction may lose its version, by which no other one becomes wrong.
LEMMA OwnersLater ==
  ASSUME TimesInv, NEW owned, \A k \in Clients : owned[k].version \in {0, transaction[k].version}
  PROVE  \A k \in Clients : OwnerSound(k, owned, committed, written)
BY DEF TimesInv, OwnerSound

\* Where a caller goes, with what it knows.
LEMMA Went ==
  ASSUME TimesInv, pc \in [Callers -> Statements], NEW c \in Callers, NEW step, NEW links, NEW known,
         Go(c, step, links, known), CallTrue(known, committed, clock), CallFresh(known, step)
  PROVE  /\ call' \in [Callers -> CallRecords]
         /\ \A d \in Callers : CallTrue(call'[d], committed, clock) /\ CallFresh(call'[d], pc'[d])
<1> DEFINE next == IF step = "idle" /\ ~known.served THEN NoCall ELSE known
<1>1. pc' = [pc EXCEPT ![c] = step] /\ call' = [call EXCEPT ![c] = next]
  BY DEF Go
<1>2. /\ call \in [Callers -> CallRecords] /\ committed \in Tables /\ clock \in Nat
      /\ \A d \in Callers : CallTrue(call[d], committed, clock) /\ CallFresh(call[d], pc[d])
  BY DEF TimesInv, DataTyped
<1>3. CallTrue(NoCall, committed, clock) /\ CallFresh(NoCall, step)
  BY <1>2, NothingKnown
<1>4. CallTrue(next, committed, clock) /\ CallFresh(next, step)
  BY <1>3
<1> HIDE DEF next
<1>5. next \in CallRecords
  BY <1>4 DEF CallTrue
<1>6. \A d \in Callers : /\ pc'[d] = IF d = c THEN step ELSE pc[d]
                         /\ call'[d] = IF d = c THEN next ELSE call[d]
  BY <1>1, <1>2
<1> QED
  BY <1>1, <1>2, <1>4, <1>5, <1>6

\* A step of a caller that commits nothing and writes no version.
LEMMA CallTimes ==
  ASSUME TimesInv, pc \in [Callers -> Statements], NEW c \in Callers, NEW step, NEW links, NEW known,
         Go(c, step, links, known), CallTrue(known, committed, clock), CallFresh(known, step),
         UNCHANGED <<committed, written, clock>>, transaction' \in [Clients -> Transactions],
         \A k \in Clients : transaction'[k].version \in {0, transaction[k].version},
         \A row \in rows' : RowTrue(row, committed, clock)
  PROVE  TimesInv'
<1>1. clock \in Nat /\ clock <= clock /\ written \in Nat /\ Extends(committed, committed, clock)
      /\ TableSound(committed, clock, written)
  BY DEF TimesInv, DataTyped, Extends
<1>2. \A k \in Clients : OwnerSound(k, transaction', committed, written)
  BY OwnersLater
<1>3. /\ call' \in [Callers -> CallRecords]
      /\ \A d \in Callers : CallTrue(call'[d], committed, clock) /\ CallFresh(call'[d], pc'[d])
  BY Went
<1> QED
  BY <1>1, <1>2, <1>3, TimesLater

LEMMA TimesTyped ==
  ASSUME TimesInv
  PROVE  /\ committed \in Tables /\ committed # <<>> /\ written \in Nat /\ clock \in Nat
         /\ transaction \in [Clients -> Transactions]
         /\ \A k \in Clients : transaction[k].version \in Nat
         /\ \A row \in rows : RowTrue(row, committed, clock)
         /\ \A c \in Callers : call[c] \in CallRecords /\ CallTrue(call[c], committed, clock)
         /\ CallTrue(NoCall, committed, clock)
<1>1. /\ committed \in Tables /\ committed # <<>> /\ written \in Nat /\ clock \in Nat
      /\ transaction \in [Clients -> Transactions]
      /\ \A row \in rows : RowTrue(row, committed, clock)
      /\ \A c \in Callers : call[c] \in CallRecords /\ CallTrue(call[c], committed, clock)
  BY DEF TimesInv, DataTyped
<1>2. \A k \in Clients : transaction[k].version \in Nat
  BY <1>1 DEF Transactions
<1> QED
  BY <1>1, <1>2, NothingKnown

\* A client sends its statements by one of the clients, if any.
LEMMA ClientTyped ==
  ASSUME ConnectionsInv, NEW c \in Callers, NEW step \in Statements
  PROVE  /\ Client(c, step) \in Clients \union {""}
         /\ ByRunner(step) /\ Served(By(c, step)) => Client(c, step) \in Clients
<1>1. By(c, step) \in Runners
  BY RunnersOfCallers
<1>2. runner[By(c, step)] \in RunnerStates
  BY <1>1, RunnersTyped
<1>3. runner[By(c, step)].client \in Clients \union {""}
  BY <1>2 DEF RunnerStates
<1> QED
  BY <1>1, <1>3, RunnersTyped DEF Client, Served, Connected

\* A statement that fails aborts a transaction, which keeps its version.
LEMMA FailsTyped ==
  ASSUME TimesInv, NEW c, NEW step, Fails(c, step)
  PROVE  /\ transaction' \in [Clients -> Transactions] /\ clock' = clock
         /\ \A k \in Clients : /\ transaction'[k].version \in {0, transaction[k].version}
                               /\ transaction'[k].version = transaction[k].version
                               /\ transaction'[k].open = transaction[k].open
<1> DEFINE after(k) == IF k = Client(c, step) /\ Open(k)
                       THEN [transaction[k] EXCEPT !.aborted = TRUE] ELSE transaction[k]
<1>1. transaction' = [k \in Clients |-> after(k)] /\ clock' = clock
  BY DEF Fails
<1>2. \A k \in Clients : after(k) \in Transactions /\ after(k).version = transaction[k].version
                         /\ after(k).open = transaction[k].open
  BY TimesTyped DEF Transactions
<1> HIDE DEF after
<1> QED
  BY <1>1, <1>2

LEMMA BeginTimes ==
  ASSUME ConnectionsInv, TimesInv, NEW c \in Callers, Begin(c)
  PROVE  TimesInv'
<1> DEFINE step == IF c \in Writers THEN "write" ELSE IF c \in Removers THEN "remove" ELSE "get"
<1>1. Go(c, step, Links, NoCall) /\ UNCHANGED <<rows, transaction, committed, written, clock>>
  BY DEF Begin, dataVars
<1> HIDE DEF step
<1> QED
  BY <1>1, TimesTyped, NothingKnown, CallTimes DEF ConnectionsInv

LEMMA WriteTimes ==
  ASSUME ConnectionsInv, TimesInv, NEW c \in Callers, Write(c)
  PROVE  TimesInv'
<1> DEFINE k == Client(c, "write")
           begun(version) == [transaction[k] EXCEPT !.open = TRUE, !.version = version]
<1>0. /\ committed \in Tables /\ clock \in Nat /\ clock <= clock /\ written \in Nat
      /\ transaction \in [Clients -> Transactions] /\ pc \in [Callers -> Statements]
      /\ CallTrue(NoCall, committed, clock)
      /\ \A step : CallFresh(NoCall, step)
  BY TimesTyped, NothingKnown DEF ConnectionsInv
<1>1. ASSUME Able(c, "write") PROVE k \in Clients
  BY <1>1, ClientTyped DEF Able, ByRunner, Statements
<1>2. CASE /\ Able(c, "write")
           /\ \A j \in Clients \ {k} : transaction[j].version = 0
           /\ written' = written + 1 /\ transaction' = [transaction EXCEPT ![k] = begun(written + 1)]
           /\ Go(c, "get", Links, NoCall) /\ UNCHANGED <<rows, committed, clock>>
  <2>k. k \in Clients
    BY <1>1, <1>2
  <2> HIDE DEF k
  <2>0. begun(written + 1) \in Transactions /\ begun(written + 1).version = written + 1
    <3>1. transaction[k] \in Transactions /\ written + 1 \in Nat
      BY <1>0, <2>k
    <3> DEFINE v == written + 1
    <3> HIDE DEF v
    <3>2. begun(v) \in Transactions /\ begun(v).version = v
      BY <3>1 DEF Transactions, v
    <3> QED
      BY <3>2 DEF v
  <2> HIDE DEF begun
  <2>1. TableSound(committed, clock, written + 1) /\ \A i \in 1..Len(committed) : committed[i].version < written + 1
    <3>1. \A i \in 1..Len(committed) : committed[i].version \in Nat
      BY <1>0, TableEntries
    <3>2. TableSound(committed, clock, written)
      BY DEF TimesInv
    <3> QED
      BY <1>0, <3>1, <3>2 DEF TableSound
  <2>2. /\ transaction' \in [Clients -> Transactions]
        /\ \A j \in Clients : transaction'[j].version = IF j = k THEN written + 1 ELSE 0
    BY <1>0, <1>2, <2>0, <2>k
  <2>3. \A j \in Clients : OwnerSound(j, transaction', committed, written + 1)
    BY <2>1, <2>2 DEF OwnerSound
  <2>4. /\ call' \in [Callers -> CallRecords]
        /\ \A d \in Callers : CallTrue(call'[d], committed, clock) /\ CallFresh(call'[d], pc'[d])
    BY <1>0, <1>2, Went
  <2>5. Extends(committed, committed, clock) /\ \A row \in rows : RowTrue(row, committed, clock)
    BY TimesTyped DEF Extends
  <2>6. written + 1 \in Nat
    BY <1>0
  <2> QED
    BY <1>0, <1>2, <2>1, <2>2, <2>3, <2>4, <2>5, <2>6, TimesLater
<1>3. CASE /\ Able(c, "write") /\ transaction' = [transaction EXCEPT ![k] = begun(transaction[k].version)]
           /\ Go(c, "end", Links, NoCall) /\ UNCHANGED <<rows, committed, written, clock>>
  <2>k. k \in Clients
    BY <1>1, <1>3
  <2> HIDE DEF k
  <2>0. begun(transaction[k].version) \in Transactions /\ begun(transaction[k].version).version = transaction[k].version
    BY <1>0, <2>k DEF Transactions
  <2> HIDE DEF begun
  <2>1. /\ transaction' \in [Clients -> Transactions]
        /\ \A j \in Clients : transaction'[j].version \in {0, transaction[j].version}
    BY <1>0, <1>3, <2>0, <2>k
  <2> QED
    BY <1>0, <1>3, <2>1, TimesTyped, CallTimes
<1>4. CASE Fails(c, "write") /\ Go(c, "end", Links, NoCall) /\ UNCHANGED <<rows, committed, written>>
  BY <1>0, <1>4, FailsTyped, TimesTyped, CallTimes
<1> HIDE DEF k, begun
<1>5. /\ Write(c) => \/ Able(c, "write") /\ (\A j \in Clients \ {k} : transaction[j].version = 0)
                        /\ written' = written + 1 /\ transaction' = [transaction EXCEPT ![k] = begun(written + 1)]
                        /\ Go(c, "get", Links, NoCall) /\ UNCHANGED <<rows, committed, clock>>
                     \/ Able(c, "write") /\ transaction' = [transaction EXCEPT ![k] = begun(transaction[k].version)]
                        /\ Go(c, "end", Links, NoCall) /\ UNCHANGED <<rows, committed, written, clock>>
                     \/ Fails(c, "write") /\ Go(c, "end", Links, NoCall) /\ UNCHANGED <<rows, committed, written>>
  BY DEF Write, boundVars, k, begun
<1> QED
  BY <1>2, <1>3, <1>4, <1>5

\* What a caller may be served has been true since it was read.
LEMMA SeenTrue ==
  ASSUME TimesInv, NEW k, NEW row \in Seen(k)
  PROVE  ValueTrue(Value(row, k), committed, clock)
BY TimesTyped DEF Seen, Value, RowTrue

\* A row that is not expired is the truth of no more than its duration and its lag ago.
LEMMA ServedTrue ==
  ASSUME TimesInv, NEW value, ValueTrue(value, committed, clock), Fresh(value), NEW known,
         known = [NoCall EXCEPT !.result = value.result, !.lag = value.lag, !.served = TRUE, !.at = clock]
  PROVE  CallTrue(known, committed, clock)
<1>1. /\ known.result = value.result /\ known.time = 0 /\ known.lag = value.lag
      /\ known.at = clock /\ known.served = TRUE
  BY DEF NoCall
<1>2. /\ committed \in Tables /\ clock \in Nat /\ Duration \in Nat
      /\ value.result \in Nat /\ value.time \in Nat /\ value.lag \in Nat
  BY TimesTyped, QueriesAssumption DEF ValueTrue, Values
<1>3. \A i \in 1..(Len(committed) - 1) : committed[i + 1].at \in Nat
  BY <1>2, TableEntries
<1>4. TrueSince(value.result, value.time, value.lag, committed, clock)
  BY DEF ValueTrue
<1>5. known \in CallRecords
  BY <1>2 DEF NoCall, CallRecords
<1>6. TrueSince(known.result, known.time, known.lag, committed, clock)
  BY <1>1, <1>2, <1>3 DEF TrueSince
<1>7. ASSUME NEW i \in 1..(Len(committed) - 1), committed[i].version = known.result
      PROVE  committed[i + 1].at + Duration + known.lag >= known.at
  <2>1. committed[i + 1].at + value.lag >= value.time
    BY <1>1, <1>4, <1>7 DEF TrueSince
  <2>2. value.time + Duration >= clock
    BY DEF Fresh
  <2> QED
    BY <1>1, <1>2, <1>3, <2>1, <2>2
<1> QED
  BY <1>1, <1>2, <1>5, <1>6, <1>7 DEF CallTrue

\* What a call notes down besides results does not matter.
LEMMA NotedTrue ==
  ASSUME NEW record \in CallRecords, NEW noted \in CallRecords, NEW table, NEW now, CallTrue(record, table, now),
         noted.result = record.result, noted.time = record.time, noted.lag = record.lag,
         noted.served = record.served, noted.at = record.at
  PROVE  CallTrue(noted, table, now)
BY DEF CallTrue

LEMMA GetTimes ==
  ASSUME ConnectionsInv, TimesInv, NEW c \in Callers, Get(c)
  PROVE  TimesInv'
<1>0. /\ pc \in [Callers -> Statements] /\ transaction \in [Clients -> Transactions]
      /\ \A k \in Clients : transaction[k].version \in {0, transaction[k].version}
      /\ \A row \in rows : RowTrue(row, committed, clock)
  BY TimesTyped DEF ConnectionsInv
<1>1. AfterResults(c) \notin {"get", "read", "answer"}
  BY AfterResultsStatement
<1>2. /\ call[c] \in CallRecords /\ CallTrue(call[c], committed, clock)
      /\ ~call[c].served /\ call[c].lag = 0
  BY TimesTyped DEF TimesInv, CallFresh, Get, Able, Fails
<1>3. ASSUME NEW step, NEW noted \in CallRecords, Go(c, step, Links, noted),
             UNCHANGED <<rows, committed, written, clock>>, transaction' \in [Clients -> Transactions],
             \A k \in Clients : transaction'[k].version \in {0, transaction[k].version},
             noted.result = call[c].result, noted.time = call[c].time, noted.lag = call[c].lag,
             noted.served = call[c].served, noted.at = call[c].at
      PROVE  TimesInv'
  <2>1. CallTrue(noted, committed, clock)
    BY <1>2, <1>3, NotedTrue
  <2>2. CallFresh(noted, step)
    BY <1>2, <1>3 DEF CallFresh
  <2> QED
    BY <1>0, <1>3, <2>1, <2>2, CallTimes
<1>4. CASE Go(c, "read", Links, call[c]) /\ UNCHANGED <<dataVars, clock>>
  BY <1>0, <1>2, <1>3, <1>4 DEF dataVars
<1>5. ASSUME NEW row \in Seen(Client(c, "get")), Fresh(Value(row, Client(c, "get"))), UNCHANGED <<dataVars, clock>>,
             NEW known, known = [NoCall EXCEPT !.result = Value(row, Client(c, "get")).result,
                                               !.lag = Value(row, Client(c, "get")).lag, !.served = TRUE, !.at = clock],
             Go(c, AfterResults(c), Links, known)
      PROVE  TimesInv'
  <2>1. CallTrue(known, committed, clock) /\ CallFresh(known, AfterResults(c))
    <3>1. ValueTrue(Value(row, Client(c, "get")), committed, clock)
      BY SeenTrue
    <3> QED
      BY <1>1, <1>5, <3>1, ServedTrue DEF CallFresh
  <2> QED
    BY <1>0, <1>5, <2>1, CallTimes DEF dataVars
<1>6. CASE Go(c, "read", Links, [call[c] EXCEPT !.saved = TRUE]) /\ UNCHANGED <<dataVars, clock>>
  <2> DEFINE known == [call[c] EXCEPT !.saved = TRUE]
  <2>1. /\ known.result = call[c].result /\ known.time = call[c].time /\ known.lag = call[c].lag
        /\ known.at = call[c].at /\ known.served = call[c].served /\ known \in CallRecords
    BY <1>2 DEF CallRecords
  <2>2. Go(c, "read", Links, known)
    BY <1>6
  <2> HIDE DEF known
  <2> QED
    BY <1>0, <1>3, <1>6, <2>1, <2>2 DEF dataVars
<1>7. ASSUME NEW step, Go(c, step, Links, [call[c] EXCEPT !.cacheError = TRUE]),
             Fails(c, "get"), UNCHANGED <<rows, committed, written>>
      PROVE  TimesInv'
  <2> DEFINE known == [call[c] EXCEPT !.cacheError = TRUE]
  <2>1. /\ known.result = call[c].result /\ known.time = call[c].time /\ known.lag = call[c].lag
        /\ known.at = call[c].at /\ known.served = call[c].served /\ known \in CallRecords
    BY <1>2 DEF CallRecords
  <2>2. Go(c, step, Links, known)
    BY <1>7
  <2> HIDE DEF known
  <2>3. /\ transaction' \in [Clients -> Transactions] /\ clock' = clock
        /\ \A k \in Clients : transaction'[k].version \in {0, transaction[k].version}
    BY <1>7, FailsTyped
  <2> QED
    BY <1>3, <1>7, <2>1, <2>2, <2>3
<1>8. CASE /\ Fails(c, "get") /\ UNCHANGED <<rows, committed, written>>
           /\ Go(c, IF ignoreErrors THEN "read" ELSE AfterResults(c), Links, [call[c] EXCEPT !.cacheError = TRUE])
  BY <1>7, <1>8
<1>9. CASE /\ UNCHANGED <<dataVars, clock>>
           /\ \/ Go(c, "read", Links, call[c])
              \/ \E row \in Seen(Client(c, "get")) :
                   \/ /\ Fresh(Value(row, Client(c, "get")))
                      /\ Go(c, AfterResults(c), Links,
                            [NoCall EXCEPT !.result = Value(row, Client(c, "get")).result,
                                           !.lag = Value(row, Client(c, "get")).lag, !.served = TRUE, !.at = clock])
                   \/ Go(c, "read", Links, [call[c] EXCEPT !.saved = TRUE])
  BY <1>4, <1>5, <1>6, <1>9
<1> QED
  BY <1>8, <1>9 DEF Get, boundVars

\* What is read is true now: the newest committed version, or one that is not committed.
LEMMA TruthIsTrue ==
  ASSUME TimesInv, NEW k \in Clients
  PROVE  Truth(k) \in Nat /\ TrueSince(Truth(k), clock, 0, committed, clock)
<1>1. /\ committed \in Tables /\ committed # <<>> /\ clock \in Nat /\ Len(committed) \in Nat
      /\ \A i \in 1..Len(committed) : committed[i].version \in Nat
  BY TimesTyped, TableEntries
<1>last. Len(committed) \in 1..Len(committed)
  <2>1. Len(committed) # 0
    BY <1>1, EmptySeq DEF Tables
  <2> QED
    BY <1>1, <2>1
<1>2. transaction[k].version \in Nat
  BY TimesTyped
<1>3. ASSUME NEW i \in 1..(Len(committed) - 1) PROVE committed[i].version # Truth(k)
  <2>0. i \in 1..Len(committed) /\ i < Len(committed)
    BY <1>1
  <2>1. CASE transaction[k].version = 0
    <3>1. committed[i].version < committed[Len(committed)].version
      BY <1>last, <2>0 DEF TimesInv, TableSound
    <3> QED
      BY <1>1, <1>last, <2>0, <2>1, <3>1 DEF Truth
  <2>2. CASE transaction[k].version # 0
    <3>1. committed[i].version < transaction[k].version
      BY <2>0, <2>2 DEF TimesInv, OwnerSound
    <3> QED
      BY <1>1, <1>2, <2>0, <2>2, <3>1 DEF Truth
  <2> QED
    BY <2>1, <2>2
<1> QED
  BY <1>1, <1>2, <1>3, <1>last DEF TrueSince, Truth

LEMMA ReadTimes ==
  ASSUME ConnectionsInv, TimesInv, NEW c \in Callers, Read(c)
  PROVE  TimesInv'
<1> DEFINE k == Client(c, "read")
           known == [call[c] EXCEPT !.result = Truth(k), !.time = clock]
<1>0. /\ pc \in [Callers -> Statements] /\ transaction \in [Clients -> Transactions]
      /\ \A row \in rows : RowTrue(row, committed, clock)
      /\ clock \in Nat /\ written \in Nat
  BY TimesTyped DEF ConnectionsInv
<1>1. CASE /\ Fails(c, "read") /\ Go(c, AfterResults(c), Links, NoCall)
           /\ UNCHANGED <<rows, committed, written>>
  <2>1. CallFresh(NoCall, AfterResults(c))
    BY TimesTyped, NothingKnown
  <2> QED
    BY <1>0, <1>1, <2>1, TimesTyped, FailsTyped, CallTimes
<1>2. CASE /\ Able(c, "read") /\ pc' = [pc EXCEPT ![c] = "answer"]
           /\ call' = [call EXCEPT ![c] = known] /\ UNCHANGED <<dataVars, clock>>
  <2>1. k \in Clients
    BY <1>2, ClientTyped DEF Able, ByRunner, Statements
  <2>2. /\ call[c] \in CallRecords /\ CallTrue(call[c], committed, clock)
        /\ ~call[c].served /\ call[c].lag = 0 /\ call \in [Callers -> CallRecords]
    BY <1>2, TimesTyped DEF TimesInv, DataTyped, CallFresh, Able
  <2>3. /\ known.result = Truth(k) /\ known.time = clock /\ known.lag = 0 /\ ~known.served
        /\ known.at = call[c].at /\ known \in CallRecords
    BY <1>0, <2>1, <2>2, TruthIsTrue DEF CallRecords
  <2> HIDE DEF known, k
  <2>4. CallTrue(known, committed, clock) /\ CallFresh(known, "answer")
    BY <2>1, <2>2, <2>3, TruthIsTrue DEF CallTrue, CallFresh
  <2>5. \A d \in Callers : /\ pc'[d] = IF d = c THEN "answer" ELSE pc[d]
                           /\ call'[d] = IF d = c THEN known ELSE call[d]
    BY <1>0, <1>2, <2>2
  <2>6. \A d \in Callers : CallTrue(call'[d], committed, clock) /\ CallFresh(call'[d], pc'[d])
    BY <2>4, <2>5 DEF TimesInv
  <2>7. call' \in [Callers -> CallRecords]
    BY <1>2, <2>2, <2>3
  <2>8. Extends(committed, committed, clock) /\ clock <= clock /\ TableSound(committed, clock, written)
        /\ \A j \in Clients : OwnerSound(j, transaction, committed, written)
    BY <1>0 DEF Extends, TimesInv
  <2> QED
    BY <1>0, <1>2, <2>6, <2>7, <2>8, TimesLater DEF dataVars
<1> HIDE DEF known, k
<1>3. \/ Able(c, "read") /\ pc' = [pc EXCEPT ![c] = "answer"]
         /\ call' = [call EXCEPT ![c] = known] /\ UNCHANGED <<dataVars, clock>>
      \/ Fails(c, "read") /\ Go(c, AfterResults(c), Links, NoCall)
         /\ UNCHANGED <<rows, committed, written>>
  BY DEF Read, boundVars, known, k
<1> QED
  BY <1>1, <1>2, <1>3

\* The time is later than that of the reading, by the lag.
LEMMA AnsweredTrue ==
  ASSUME TimesInv, NEW c \in Callers, pc[c] = "answer"
  PROVE  CallTrue(Answered(call[c]), committed, clock)
<1>1. /\ call[c] \in CallRecords /\ CallTrue(call[c], committed, clock) /\ ~call[c].served /\ call[c].lag = 0
      /\ committed \in Tables /\ clock \in Nat
  BY TimesTyped DEF TimesInv, CallFresh
<1>2. /\ call[c].time \in Nat /\ call[c].time <= clock /\ call[c].at <= clock
      /\ TrueSince(call[c].result, call[c].time, 0, committed, clock)
  BY <1>1 DEF CallTrue, CallRecords, TrueSince
<1>3. clock - call[c].time \in Nat
  BY <1>1, <1>2
<1> DEFINE known == Answered(call[c])
<1>4. /\ known.result = call[c].result /\ known.time = clock /\ known.lag = clock - call[c].time
      /\ known.served = call[c].served /\ known.at = call[c].at /\ known \in CallRecords
  BY <1>1, <1>3 DEF Answered, CallRecords
<1> HIDE DEF known
<1>5. TrueSince(known.result, known.time, known.lag, committed, clock)
  <2>1. \A i \in 1..(Len(committed) - 1) : committed[i + 1].at \in Nat
    BY <1>1, TableEntries
  <2> QED
    BY <1>1, <1>2, <1>4, <2>1 DEF TrueSince
<1>6. CallTrue(known, committed, clock)
  BY <1>1, <1>2, <1>4, <1>5 DEF CallTrue
<1> QED
  BY <1>6 DEF known

LEMMA AnswerTimes ==
  ASSUME ConnectionsInv, TimesInv, NEW c \in Callers, Answer(c)
  PROVE  TimesInv'
<1>0. /\ pc \in [Callers -> Statements] /\ transaction \in [Clients -> Transactions]
      /\ \A row \in rows : RowTrue(row, committed, clock)
      /\ CallTrue(NoCall, committed, clock) /\ \A step : CallFresh(NoCall, step)
      /\ \A k \in Clients : transaction[k].version \in {0, transaction[k].version}
  BY TimesTyped, NothingKnown DEF ConnectionsInv
<1>1. pc[c] = "answer" /\ UNCHANGED <<rows, committed, written, transaction, clock>>
  BY DEF Answer, dataVars, boundVars
<1>2. CASE Go(c, IF call[c].cacheError THEN AfterResults(c) ELSE "store", Links, Answered(call[c]))
  <2>1. CallFresh(Answered(call[c]), IF call[c].cacheError THEN AfterResults(c) ELSE "store")
    BY AfterResultsStatement DEF CallFresh
  <2> QED
    BY <1>0, <1>1, <1>2, <2>1, AnsweredTrue, CallTimes
<1>3. CASE Go(c, AfterResults(c), Links, NoCall)
  BY <1>0, <1>1, <1>3, CallTimes
<1> QED
  BY <1>2, <1>3 DEF Answer

\* A row that is written has another value, for all or for the transaction of a client.
LEMMA PutFields ==
  ASSUME NEW row, RowShaped(row),
         NEW k, NEW value, NEW put, put = Put(row, k, value)
  PROVE  /\ RowShaped(put)
         /\ put.value \in {row.value, value} /\ put.new \in {row.new, value} /\ put.by \in {row.by, k}
<1>1. CASE Open(k)
  <2>1. put = [n |-> row.n, value |-> row.value, new |-> value, by |-> k]
    BY <1>1 DEF Put, RowShaped
  <2> QED
    BY <2>1 DEF RowShaped
<1>2. CASE ~Open(k)
  <2>1. put = [n |-> row.n, value |-> value, new |-> row.new, by |-> row.by]
    BY <1>2 DEF Put, RowShaped
  <2> QED
    BY <2>1 DEF RowShaped
<1> QED
  BY <1>1, <1>2

\* A deleted row has nothing left of what it had where it is seen.
LEMMA DeletedFields ==
  ASSUME NEW row, RowShaped(row),
         NEW k, NEW deleted, deleted = Deleted(row, k)
  PROVE  /\ RowShaped(deleted)
         /\ deleted.value \in {row.value, NoValue} /\ deleted.new \in {row.new, NoValue} /\ deleted.by \in {row.by, k}
<1>1. CASE Open(k)
  <2>1. deleted = [n |-> row.n, value |-> row.value, new |-> NoValue, by |-> k]
    BY <1>1 DEF Deleted, RowShaped
  <2> QED
    BY <2>1 DEF RowShaped
<1>2. CASE ~Open(k)
  <2>1. deleted = [n |-> row.n, value |-> NoValue, new |-> row.new, by |-> row.by]
    BY <1>2 DEF Deleted, RowShaped
  <2> QED
    BY <2>1 DEF RowShaped
<1> QED
  BY <1>1, <1>2

\* A row that a statement writes takes a value that is true.
LEMMA PutTrue ==
  ASSUME NEW row, NEW k \in Clients \union {""}, NEW value, NEW table, NEW now,
         RowTrue(row, table, now), ValueTrue(value, table, now)
  PROVE  RowTrue(Put(row, k, value), table, now)
<1> SUFFICES ASSUME NEW put, put = Put(row, k, value) PROVE RowTrue(put, table, now)
  OBVIOUS
<1>1. /\ RowShaped(row)
      /\ row.by \in Clients \union {""} /\ ValueTrue(row.value, table, now) /\ ValueTrue(row.new, table, now)
  BY DEF RowTrue, RowTyped
<1>2. /\ RowShaped(put)
      /\ put.value \in {row.value, value} /\ put.new \in {row.new, value} /\ put.by \in {row.by, k}
  BY <1>1, PutFields
<1>3. ValueTrue(put.value, table, now) /\ ValueTrue(put.new, table, now)
  BY <1>1, <1>2
<1>4. put.by \in Clients \union {""}
  BY <1>1, <1>2
<1> QED
  BY <1>2, <1>3, <1>4 DEF RowTrue, RowTyped

LEMMA BlankTrue ==
  ASSUME TimesInv, NEW n, NEW value, ValueTrue(value, committed, clock), NEW row,
         row = [n |-> n, value |-> value, new |-> NoValue, by |-> ""]
  PROVE  RowTrue(row, committed, clock)
<1>1. ValueTrue(NoValue, committed, clock)
  BY TimesTyped, NothingKnown
<1>2. row.n = n /\ row.value = value /\ row.new = NoValue /\ row.by = ""
  OBVIOUS
<1> QED
  BY <1>1, <1>2 DEF RowTrue, RowTyped, RowShaped

\* What a statement that stores makes of the rows.
LEMMA RowsAfterTrue ==
  ASSUME ConnectionsInv, TimesInv, NEW c \in Callers
  PROVE  \A row \in RowsAfter(c) : RowTrue(row, committed, clock)
<1> DEFINE k == Client(c, "store")
<1>k. k \in Clients \union {""}
  BY ClientTyped DEF Statements
<1> DEFINE stored == Stored(c)
<1>1. ValueTrue(stored, committed, clock) /\ \A row \in rows : RowTrue(row, committed, clock)
  <2>1. call[c] \in CallRecords /\ CallTrue(call[c], committed, clock)
    BY TimesTyped
  <2>2. /\ stored.result = call[c].result /\ stored.time = call[c].time /\ stored.lag = call[c].lag
        /\ stored \in Values
    BY <2>1 DEF Stored, Values, CallRecords
  <2> HIDE DEF stored
  <2> QED
    BY <2>1, <2>2, TimesTyped DEF CallTrue, ValueTrue
<1>2. RowsAfter(c) = IF cacheType = "redis" THEN {[n |-> 1, value |-> stored, new |-> NoValue, by |-> ""]}
                     ELSE IF call[c].saved THEN {IF row \in Seen(k) THEN Put(row, k, stored) ELSE row : row \in rows}
                     ELSE rows \union {Put(NewRow, k, stored)}
  BY DEF RowsAfter
<1> HIDE DEF k, stored
<1>3. CASE cacheType = "redis"
  BY <1>1, <1>2, <1>3, BlankTrue
<1>4. CASE cacheType # "redis" /\ call[c].saved
  <2>1. ASSUME NEW old \in rows, NEW row, row = IF old \in Seen(k) THEN Put(old, k, stored) ELSE old
        PROVE  RowTrue(row, committed, clock)
    BY <1>k, <1>1, <2>1, PutTrue
  <2> QED
    BY <1>2, <1>4, <2>1
<1>5. CASE cacheType # "redis" /\ ~call[c].saved
  <2>1. PICK n : NewRow = [n |-> n, value |-> NoValue, new |-> NoValue, by |-> ""]
    BY DEF NewRow
  <2>2. RowTrue(NewRow, committed, clock)
    BY <2>1, TimesTyped, NothingKnown, BlankTrue
  <2>3. RowTrue(Put(NewRow, k, stored), committed, clock)
    BY <1>k, <1>1, <2>2, PutTrue
  <2> QED
    BY <1>1, <1>2, <1>5, <2>3
<1> QED
  BY <1>3, <1>4, <1>5

LEMMA StoreTimes ==
  ASSUME ConnectionsInv, TimesInv, NEW c \in Callers, Store(c)
  PROVE  TimesInv'
<1>0. /\ pc \in [Callers -> Statements] /\ transaction \in [Clients -> Transactions]
      /\ \A row \in rows : RowTrue(row, committed, clock)
      /\ CallTrue(NoCall, committed, clock) /\ CallTrue(call[c], committed, clock)
      /\ \A k \in Clients : transaction[k].version \in {0, transaction[k].version}
  BY TimesTyped, NothingKnown DEF ConnectionsInv
<1>1. \A known : CallFresh(known, AfterResults(c))
  BY AfterResultsStatement DEF CallFresh
<1>2. CASE /\ rows' = RowsAfter(c) /\ Go(c, AfterResults(c), LinksAfterStore(c, TRUE), call[c])
           /\ UNCHANGED <<transaction, committed, written, clock>>
  BY <1>0, <1>1, <1>2, RowsAfterTrue, CallTimes
<1>3. CASE /\ Fails(c, "store") /\ UNCHANGED <<rows, committed, written>>
           /\ Go(c, AfterResults(c), LinksAfterStore(c, FALSE), IF ignoreErrors THEN call[c] ELSE NoCall)
  <2>1. CallTrue(IF ignoreErrors THEN call[c] ELSE NoCall, committed, clock)
    BY <1>0
  <2> QED
    BY <1>0, <1>1, <1>3, <2>1, FailsTyped, CallTimes
<1> QED
  BY <1>2, <1>3 DEF Store, boundVars

\* The end of transactions puts values in other places, but makes none.
LEMMA AfterEndTrue ==
  ASSUME TimesInv, NEW ks, NEW commit \in BOOLEAN
  PROVE  \A row \in AfterEnd(ks, commit) : RowTrue(row, committed, clock)
<1>0. SUFFICES ASSUME NEW old \in rows, NEW row,
                    row = IF old.by \notin ks THEN old
                          ELSE [old EXCEPT !.value = IF commit THEN old.new ELSE old.value, !.new = NoValue, !.by = ""]
             PROVE  RowTrue(row, committed, clock)
  BY DEF AfterEnd, Without
<1>1. RowTrue(old, committed, clock)
  BY TimesTyped
<1>2. CASE old.by \notin ks
  BY <1>0, <1>1, <1>2
<1>3. CASE old.by \in ks
  <2> DEFINE value == IF commit THEN old.new ELSE old.value
  <2>1. row = [n |-> old.n, value |-> value, new |-> NoValue, by |-> ""]
    BY <1>0, <1>1, <1>3 DEF RowTrue, RowTyped, RowShaped
  <2>2. ValueTrue(value, committed, clock)
    BY <1>1 DEF RowTrue
  <2> HIDE DEF value
  <2> QED
    BY <2>1, <2>2, BlankTrue
<1> QED
  BY <1>2, <1>3

LEMMA EndTimes ==
  ASSUME ConnectionsInv, TimesInv, NEW c \in Callers, End(c)
  PROVE  TimesInv'
<1> DEFINE k == Client(c, "end")
<1>0. /\ pc \in [Callers -> Statements] /\ transaction \in [Clients -> Transactions]
      /\ committed \in Tables /\ clock \in Nat /\ written \in Nat /\ clock <= clock
      /\ \A row \in rows : RowTrue(row, committed, clock)
      /\ CallTrue(call[c], committed, clock) /\ CallFresh(call[c], "idle")
      /\ \A j \in Clients : transaction[j].version \in Nat /\ transaction[j].version \in {0, transaction[j].version}
      /\ NoTransaction \in Transactions /\ NoTransaction.version = 0
      /\ TableSound(committed, clock, written)
      /\ \A j \in Clients : OwnerSound(j, transaction, committed, written)
  BY TimesTyped DEF ConnectionsInv, CallFresh, NoTransaction, Transactions, TimesInv
<1>1. pc[c] = "end" /\ Go(c, "idle", Links, call[c]) /\ UNCHANGED <<written, clock>>
  BY DEF End, boundVars
<1>2. CASE UNCHANGED <<rows, committed, transaction>>
  BY <1>0, <1>1, <1>2, CallTimes
<1>3. ASSUME Served(Main(c)), NEW commit \in BOOLEAN, rows' = AfterEnd({k}, commit),
             committed' = IF commit /\ transaction[k].version # 0
                          THEN Append(committed, [version |-> transaction[k].version, at |-> clock]) ELSE committed,
             transaction' = [transaction EXCEPT ![k] = NoTransaction]
      PROVE  TimesInv'
  <2>k. k \in Clients
    BY <1>3, ClientTyped DEF ByRunner, Statements, By
  <2>1. \A row \in rows' : RowTrue(row, committed, clock)
    BY <1>3, AfterEndTrue
  <2> HIDE DEF k
  <2>2. /\ transaction' \in [Clients -> Transactions]
        /\ \A j \in Clients : transaction'[j].version = IF j = k THEN 0 ELSE transaction[j].version
    BY <1>0, <1>3, <2>k
  <2>3. CASE committed' = committed
    <3>1. \A j \in Clients : transaction'[j].version \in {0, transaction[j].version}
      BY <2>2
    <3> QED
      BY <1>0, <1>1, <2>1, <2>2, <2>3, <3>1, CallTimes
  <2>4. CASE /\ transaction[k].version # 0
             /\ committed' = Append(committed, [version |-> transaction[k].version, at |-> clock])
    <3>1. /\ transaction[k].version = written /\ \A j \in Clients \ {k} : transaction[j].version = 0
          /\ \A i \in 1..Len(committed) : committed[i].version < written
      BY <1>0, <2>k, <2>4 DEF OwnerSound
    <3>2. written <= written
      BY <1>0
    <3>3. TableSound(committed', clock, written)
      BY <1>0, <2>4, <3>1, <3>2, TableLater
    <3>4. \A j \in Clients : OwnerSound(j, transaction', committed', written)
      BY <2>2, <3>1 DEF OwnerSound
    <3>5. Extends(committed', committed, clock)
      BY <1>0, <2>4, <2>k DEF Extends
    <3>6. /\ call' \in [Callers -> CallRecords]
          /\ \A d \in Callers : CallTrue(call'[d], committed, clock) /\ CallFresh(call'[d], pc'[d])
      BY <1>0, <1>1, Went
    <3> QED
      BY <1>0, <1>1, <2>1, <2>2, <3>3, <3>4, <3>5, <3>6, TimesLater
  <2> QED
    BY <1>3, <2>3, <2>4
<1> HIDE DEF k
<1>4. \/ UNCHANGED <<rows, committed, transaction>>
      \/ /\ Served(Main(c)) /\ transaction' = [transaction EXCEPT ![k] = NoTransaction]
         /\ \E commit \in BOOLEAN :
              /\ rows' = AfterEnd({k}, commit)
              /\ committed' = IF commit /\ transaction[k].version # 0
                              THEN Append(committed, [version |-> transaction[k].version, at |-> clock]) ELSE committed
  BY DEF End, k
<1> QED
  BY <1>2, <1>3, <1>4

LEMMA DeletedTrue ==
  ASSUME TimesInv, NEW row \in rows, NEW k \in Clients \union {""}
  PROVE  RowTrue(Deleted(row, k), committed, clock)
<1> SUFFICES ASSUME NEW deleted, deleted = Deleted(row, k) PROVE RowTrue(deleted, committed, clock)
  OBVIOUS
<1>1. /\ RowShaped(row) /\ row.by \in Clients \union {""}
      /\ ValueTrue(row.value, committed, clock) /\ ValueTrue(row.new, committed, clock)
      /\ ValueTrue(NoValue, committed, clock)
  BY TimesTyped, NothingKnown DEF RowTrue, RowTyped
<1>2. /\ RowShaped(deleted)
      /\ deleted.value \in {row.value, NoValue} /\ deleted.new \in {row.new, NoValue} /\ deleted.by \in {row.by, k}
  BY <1>1, DeletedFields
<1>3. ValueTrue(deleted.value, committed, clock) /\ ValueTrue(deleted.new, committed, clock)
  BY <1>1, <1>2
<1>4. deleted.by \in Clients \union {""}
  BY <1>1, <1>2
<1> QED
  BY <1>2, <1>3, <1>4 DEF RowTrue, RowTyped

LEMMA DeleteTimes ==
  ASSUME ConnectionsInv, TimesInv, NEW c \in Callers, Delete(c)
  PROVE  TimesInv'
<1> DEFINE k == Client(c, "remove")
<1>0. /\ pc \in [Callers -> Statements] /\ transaction \in [Clients -> Transactions]
      /\ clock \in Nat /\ written \in Nat /\ clock <= clock
      /\ \A row \in rows : RowTrue(row, committed, clock)
      /\ CallTrue(NoCall, committed, clock) /\ CallFresh(NoCall, "idle")
      /\ \A j \in Clients : transaction[j].version \in {0, transaction[j].version}
  BY TimesTyped, NothingKnown DEF ConnectionsInv
<1>k. k \in Clients \union {""}
  BY ClientTyped DEF Statements
<1> HIDE DEF k
<1>1. CASE /\ rows' = Without({IF row \in Seen(k) THEN Deleted(row, k) ELSE row : row \in rows})
           /\ Go(c, "idle", Links, NoCall) /\ UNCHANGED <<transaction, committed, written, clock>>
  <2>1. ASSUME NEW old \in rows, NEW row, row = IF old \in Seen(k) THEN Deleted(old, k) ELSE old
        PROVE  RowTrue(row, committed, clock)
    BY <1>0, <1>k, <2>1, DeletedTrue
  <2>2. \A row \in rows' : RowTrue(row, committed, clock)
    BY <1>1, <2>1 DEF Without
  <2> QED
    BY <1>0, <1>1, <2>2, CallTimes
<1>2. CASE /\ Fails(c, "remove") /\ pc' = [pc EXCEPT ![c] = "failed"]
           /\ UNCHANGED <<call, rows, committed, written>>
  <2>1. /\ transaction' \in [Clients -> Transactions] /\ clock' = clock
        /\ \A j \in Clients : transaction'[j].version \in {0, transaction[j].version}
    BY <1>2, FailsTyped
  <2>2. \A j \in Clients : OwnerSound(j, transaction', committed, written)
    BY <2>1, OwnersLater
  <2>3. call \in [Callers -> CallRecords] /\ TableSound(committed, clock, written)
        /\ Extends(committed, committed, clock)
    BY DEF TimesInv, DataTyped, Extends
  <2>4. \A d \in Callers : CallTrue(call[d], committed, clock) /\ CallFresh(call[d], pc'[d])
    <3>1. \A d \in Callers : pc'[d] = pc[d] \/ pc'[d] = "failed"
      BY <1>0, <1>2
    <3> QED
      BY <3>1 DEF TimesInv, CallFresh
  <2> QED
    BY <1>0, <1>2, <2>1, <2>2, <2>3, <2>4, TimesLater
<1>3. \/ /\ rows' = Without({IF row \in Seen(k) THEN Deleted(row, k) ELSE row : row \in rows})
         /\ Go(c, "idle", Links, NoCall) /\ UNCHANGED <<transaction, committed, written, clock>>
      \/ /\ Fails(c, "remove") /\ pc' = [pc EXCEPT ![c] = "failed"]
         /\ UNCHANGED <<call, rows, committed, written>>
  BY DEF Delete, boundVars, k
<1> QED
  BY <1>1, <1>2, <1>3

\* What happens besides the calls changes no call.
LEMMA OtherTimes ==
  ASSUME TimesInv, UNCHANGED <<pc, call>>, clock' \in Nat, clock <= clock', written' \in Nat,
         Extends(committed', committed, clock), TableSound(committed', clock', written'),
         transaction' \in [Clients -> Transactions],
         \A k \in Clients : OwnerSound(k, transaction', committed', written'),
         \A row \in rows' : RowTrue(row, committed, clock)
  PROVE  TimesInv'
<1>1. call' \in [Callers -> CallRecords]
      /\ \A c \in Callers : CallTrue(call'[c], committed, clock) /\ CallFresh(call'[c], pc'[c])
  BY DEF TimesInv, DataTyped
<1> QED
  BY <1>1, TimesLater

LEMMA ChangeTimes ==
  ASSUME TimesInv, Change
  PROVE  TimesInv'
<1>1. /\ written' = written + 1 /\ committed' = Append(committed, [version |-> written + 1, at |-> clock])
      /\ UNCHANGED <<pc, call, rows, transaction, clock>> /\ \A k \in Clients : transaction[k].version = 0
  BY DEF Change, boundVars
<1>2. /\ committed \in Tables /\ clock \in Nat /\ clock <= clock /\ written \in Nat /\ written + 1 \in Nat
      /\ transaction \in [Clients -> Transactions] /\ \A row \in rows : RowTrue(row, committed, clock)
  BY TimesTyped
<1>3. TableSound(committed', clock, written + 1)
  <2>1. \A i \in 1..Len(committed) : committed[i].version < written + 1
    <3>1. \A i \in 1..Len(committed) : committed[i].version \in Nat
      BY <1>2, TableEntries
    <3> QED
      BY <1>2, <3>1 DEF TimesInv, TableSound
  <2>2. TableSound(committed, clock, written) /\ written <= written + 1 /\ written + 1 <= written + 1
    BY <1>2 DEF TimesInv
  <2> QED
    BY <1>1, <1>2, <2>1, <2>2, TableLater
<1>4. \A k \in Clients : OwnerSound(k, transaction, committed', written + 1)
  BY <1>1 DEF OwnerSound
<1>5. Extends(committed', committed, clock)
  BY <1>1, <1>2 DEF Extends
<1> QED
  BY <1>1, <1>2, <1>3, <1>4, <1>5, OtherTimes

LEMMA TickTimes ==
  ASSUME TimesInv, UNCHANGED <<pc, call, dataVars>>, clock' \in Nat, clock <= clock'
  PROVE  TimesInv'
<1>1. /\ committed \in Tables /\ clock \in Nat /\ written \in Nat /\ transaction \in [Clients -> Transactions]
      /\ \A row \in rows : RowTrue(row, committed, clock)
  BY TimesTyped
<1>2. TableSound(committed, clock', written)
  <2>1. \A i \in 1..Len(committed) : committed[i].at \in Nat
    BY <1>1, TableEntries
  <2> QED
    BY <1>1, <2>1 DEF TimesInv, TableSound
<1>3. \A k \in Clients : OwnerSound(k, transaction, committed, written)
  BY DEF TimesInv
<1> QED
  BY <1>1, <1>2, <1>3, OtherTimes DEF dataVars, Extends

LEMMA LosingTimes ==
  ASSUME TimesInv, NEW gone \in SUBSET Clients, RolledBack(gone)
  PROVE  TimesInv'
<1>1. /\ committed \in Tables /\ clock \in Nat /\ clock <= clock /\ written \in Nat
      /\ transaction \in [Clients -> Transactions] /\ TableSound(committed, clock, written)
  BY TimesTyped DEF TimesInv
<1>2. /\ rows' = AfterEnd(gone, FALSE)
      /\ transaction' = [k \in Clients |-> IF k \in gone THEN NoTransaction ELSE transaction[k]]
      /\ UNCHANGED <<pc, call, committed, written, clock>>
  BY DEF RolledBack, optionVars
<1>3. NoTransaction \in Transactions /\ NoTransaction.version = 0
  BY DEF NoTransaction, Transactions
<1>4. /\ transaction' \in [Clients -> Transactions]
      /\ \A k \in Clients : transaction'[k].version \in {0, transaction[k].version}
  BY <1>1, <1>2, <1>3
<1>5. \A k \in Clients : OwnerSound(k, transaction', committed, written)
  BY <1>4, OwnersLater
<1>6. \A row \in rows' : RowTrue(row, committed, clock)
  BY <1>2, AfterEndTrue
<1> QED
  BY <1>1, <1>2, <1>4, <1>5, <1>6, OtherTimes DEF Extends

LEMMA InitTimes == Init => TimesInv
<1> SUFFICES ASSUME Init PROVE TimesInv
  OBVIOUS
<1> DEFINE S == [version : Nat, at : Nat]
           e == [version |-> 1, at |-> 0]
<1>1. committed = <<e>> /\ e \in S /\ e.version = 1 /\ e.at = 0
  BY DEF Init
<1>2. /\ rows = {} /\ pc = [c \in Callers |-> "idle"] /\ call = [c \in Callers |-> NoCall]
      /\ transaction = [k \in Clients |-> NoTransaction] /\ written = 1 /\ clock = 0
  BY DEF Init
<1>3. Len(committed) = 1 /\ committed[1].version = 1 /\ committed[1].at = 0
      /\ committed \in Tables /\ committed # <<>>
  <2> HIDE DEF S, e
  <2>1. Len(committed) = 1 /\ committed[1] = e /\ committed \in Seq(S) /\ committed # <<>>
    BY <1>1
  <2> QED
    BY <1>1, <2>1 DEF Tables, S
<1>4. TableSound(committed, clock, written)
  BY <1>2, <1>3 DEF TableSound
<1>5. \A k \in Clients : OwnerSound(k, transaction, committed, written)
  BY <1>2, <1>3 DEF OwnerSound, NoTransaction
<1>6. \A c \in Callers : CallTrue(call[c], committed, clock) /\ CallFresh(call[c], pc[c])
  BY <1>2, <1>3, NothingKnown
<1>7. DataTyped
  <2>1. NoCall \in CallRecords /\ NoTransaction \in Transactions
    BY DEF NoCall, CallRecords, NoTransaction, Transactions
  <2> QED
    BY <1>2, <1>3, <2>1 DEF DataTyped
<1> QED
  BY <1>2, <1>4, <1>5, <1>6, <1>7 DEF TimesInv

LEMMA StepTimes == ConnectionsInv /\ TimesInv /\ [Next]_vars => TimesInv'
<1> SUFFICES ASSUME ConnectionsInv, TimesInv, [Next]_vars PROVE TimesInv'
  OBVIOUS
<1>0. clock \in Nat /\ clock <= clock
  BY TimesTyped
<1>1. ASSUME NEW c \in Callers, Begin(c) \/ Step(c) PROVE TimesInv'
  BY <1>1, BeginTimes, WriteTimes, GetTimes, ReadTimes, AnswerTimes, StoreTimes, EndTimes, DeleteTimes DEF Step
<1>2. ASSUME NEW k \in Clients, Break(k) PROVE TimesInv'
  BY <1>2, LosingTimes DEF Break
<1>3. ASSUME NEW q \in Runners, Timeout(q) PROVE TimesInv'
  BY <1>0, <1>3, TickTimes DEF Timeout
<1>4. CASE Change
  BY <1>4, ChangeTimes
<1>5. CASE Tick
  BY <1>0, <1>5, TickTimes DEF Tick
<1>6. CASE Serve \/ Destroy
  BY <1>0, <1>6, TickTimes DEF Serve, Destroy, boundVars
<1>7. CASE Closing
  <2>1. CASE EndPool /\ RolledBack(Free)
    <3>1. Free \in SUBSET Clients
      BY DEF Free
    <3> QED
      BY <2>1, <3>1, LosingTimes
  <2>2. CASE UNCHANGED <<pc, call, dataVars, optionVars, boundVars>>
    BY <1>0, <2>2, TickTimes DEF boundVars
  <2> QED
    BY <1>7, <2>1, <2>2 DEF Closing
<1>8. CASE UNCHANGED vars
  BY <1>0, <1>8, TickTimes DEF vars, boundVars
<1> QED
  BY <1>1, <1>2, <1>3, <1>4, <1>5, <1>6, <1>7, <1>8 DEF Next

\* Results keep the time at which they were true, through rows, transactions and failures.
THEOREM TimesInvariance == Spec => []TimesInv
BY InitTimes, StepTimes, ConnectionsInvariance, PTL DEF Spec

\* A committed result that the cache serves was the truth no longer before than the
\* duration and the time that the answer of its query took, however long the call that
\* stored it waited for a client, and whatever failed.
THEOREM AlwaysServedInTime == Spec => []ServedInTime
<1>1. TimesInv => ServedInTime
  BY DEF TimesInv, CallTrue, ServedInTime
<1> QED
  BY <1>1, TimesInvariance, PTL

(***************************************************************************)
(* Nothing uncommitted is served while the pool is up: a runner that is    *)
(* connected holds its client then, so that an open transaction is of the  *)
(* main runner of one writer, between its first statement and its end.     *)
(* What the rows and the calls keep is committed, or the version of the    *)
(* transaction that they belong to.                                        *)
(***************************************************************************)
Within == {"get", "read", "answer", "store", "end"}
VersionsIn(table) == {table[i].version : i \in 1..Len(table)}
Known(value, versions) == value = NoValue \/ value.result \in versions
Owned(result, k, owned) == owned[k].version # 0 /\ result = owned[k].version

OwnerAt(k, owned, at, states) ==
  /\ owned[k].version # 0 => owned[k].open
  /\ owned[k].open => \E w \in Writers : /\ at[w] \in Within
                                         /\ states[Main(w)].connection = "connected" /\ states[Main(w)].client = k

RowSound(row, versions, owned) ==
  /\ Known(row.value, versions)
  /\ row.by # "" => owned[row.by].open
                    /\ (Known(row.new, versions) \/ Owned(row.new.result, row.by, owned))

\* A call outside of a transaction, and one in a transaction whose runner is in state.
OutsideSound(record, step, versions) ==
  record.served \/ step \in {"answer", "store"} => record.result \in versions

InsideSound(record, step, state, versions, owned) ==
  /\ step \in Within => state.connection \in {"connected", "refused"}
  /\ step \in {"answer", "store"} /\ state.connection = "connected"
       => record.result \in versions \/ Owned(record.result, state.client, owned)

CallSound(record, c, step, state, versions, owned) ==
  /\ step = "write" => c \in Writers
  /\ c \notin Writers => OutsideSound(record, step, versions)
  /\ c \in Writers => InsideSound(record, step, state, versions, owned)

ResultsSound ==
  /\ \A q \in Runners : Connected(q) => runner[q].holds
  /\ \A k \in Clients : OwnerAt(k, transaction, pc, runner)
  /\ \A row \in rows : RowSound(row, VersionsIn(committed), transaction)
  /\ \A c \in Callers : CallSound(call[c], c, pc[c], runner[Main(c)], VersionsIn(committed), transaction)

ResultsInv == pool = "up" /\ cacheType = "database" => ResultsSound

\* A transaction is that of the runner that has its client.
LEMMA OwnerRunner ==
  ASSUME ConnectionsInv, ResultsSound, NEW q \in Runners, Connected(q), transaction[runner[q].client].open
  PROVE  q[1] \in Writers /\ q = Main(q[1]) /\ pc[q[1]] \in Within
<1>1. runner[q].client \in Clients /\ runner[q].holds
  BY RunnersTyped DEF ResultsSound, Connected
<1>2. PICK w \in Writers : /\ pc[w] \in Within /\ runner[Main(w)].connection = "connected"
                           /\ runner[Main(w)].client = runner[q].client
  BY <1>1 DEF ResultsSound, OwnerAt
<1>3. Main(w) \in Runners /\ Main(w)[1] = w
  BY MainRunners DEF Callers
<1>4. runner[Main(w)].holds
  BY <1>2, <1>3 DEF ResultsSound, Connected
<1>5. Main(w) = q
  BY <1>1, <1>2, <1>3, <1>4 DEF ConnectionsInv, HeldOnce
<1> QED
  BY <1>2, <1>3, <1>5

\* Two callers whose main runners are connected do not share a client.
LEMMA OwnClients ==
  ASSUME ConnectionsInv, ResultsSound, NEW c \in Callers, NEW d \in Callers, c # d,
         runner[Main(c)].connection = "connected", runner[Main(d)].connection = "connected"
  PROVE  runner[Main(c)].client # runner[Main(d)].client
<1>1. Main(c) \in Runners /\ Main(d) \in Runners /\ Main(c) # Main(d)
  BY MainRunners
<1>2. runner[Main(c)].holds /\ runner[Main(d)].holds
  BY <1>1 DEF ResultsSound, Connected
<1> QED
  BY <1>1, <1>2 DEF ConnectionsInv, HeldOnce

(***************************************************************************)
(* How a caller moves, while the pool is up: no runner gets a client, and  *)
(* its main one stays as it is.                                            *)
(***************************************************************************)
Moved(c, step) ==
  /\ pc' = [pc EXCEPT ![c] = step]
  /\ \A q \in Runners : q[1] # c => runner'[q] = runner[q]
  /\ \A q \in Runners : runner'[q].connection = "connected" => runner'[q] = runner[q]
  /\ step # "idle" /\ runner[Main(c)].connection = "connected" => runner'[Main(c)] = runner[Main(c)]
  /\ step # "idle" /\ runner[Main(c)].connection = "refused" => runner'[Main(c)].connection = "refused"

LEMMA NotReleased ==
  ASSUME ConnectionsInv, ResultsSound, NEW q \in Runners, runner[q].connection = "connected"
  PROVE  ~runner[q].released
BY RunnersTyped DEF RunnerSound, ResultsSound, Connected

LEMMA AnsweredMoves ==
  ASSUME ConnectionsInv, ResultsSound, NEW c \in Callers, pc[c] \in Statements \ {"store"},
         pc[c] # "idle" => Answers(c, pc[c]), NEW step \in Statements, NEW known,
         Go(c, step, Links, known), cacheType' = cacheType
  PROVE  Moved(c, step)
<1>1. Stays(Links, c, step) /\ Links.runner = runner /\ pc' = [pc EXCEPT ![c] = step]
  BY AnsweredSteps DEF Links, Go
<1>2. Main(c) \in Runners
  BY MainRunners
<1> QED
  BY <1>1, <1>2, NotReleased DEF Stays, Moved

LEMMA StoredMoves ==
  ASSUME ConnectionsInv, ResultsSound, NEW c \in Callers, pc[c] = "store", Answers(c, "store"),
         NEW known, NEW done, Go(c, AfterResults(c), LinksAfterStore(c, done), known), cacheType' = cacheType
  PROVE  Moved(c, AfterResults(c))
<1> DEFINE links == LinksAfterStore(c, done)
<1>0. AfterResults(c) \in Statements /\ (c \in Writers <=> AfterResults(c) = "end")
      /\ (c \notin Writers <=> AfterResults(c) = "idle")
  BY AfterResultsStatement DEF Statements
<1>1. /\ Stays(links, c, AfterResults(c)) /\ pc' = [pc EXCEPT ![c] = AfterResults(c)]
      /\ \A q \in Runners : q[1] # c \/ c \in Writers => links.runner[q] = runner[q]
  BY <1>0, StoredSteps DEF Go
<1> HIDE DEF links
<1>2. Main(c) \in Runners
  BY MainRunners
<1>3. CASE c \in Writers
  BY <1>1, <1>2, <1>3, NotReleased DEF Stays, Moved
<1>4. CASE c \notin Writers
  <2>1. \A q \in Runners : q[1] = c => runner'[q].connection # "connected"
    BY <1>0, <1>1, <1>4, NewRunnerSound DEF Stays
  <2> QED
    BY <1>0, <1>1, <1>4, <2>1 DEF Stays, Moved
<1> QED
  BY <1>3, <1>4

\* A caller that goes on by itself.
LEMMA WaitsMoves ==
  ASSUME NEW c \in Callers, NEW step, pc' = [pc EXCEPT ![c] = step], UNCHANGED connectionVars
  PROVE  Moved(c, step)
BY DEF Moved, connectionVars

(***************************************************************************)
(* What a step of a caller has to show.                                    *)
(***************************************************************************)
SameOwner(k) == transaction'[k].version = transaction[k].version /\ transaction'[k].open = transaction[k].open

LEMMA ResultSteps ==
  ASSUME ConnectionsInv, ResultsSound, NEW c \in Callers, NEW step, Moved(c, step), step = "write" => c \in Writers,
         VersionsIn(committed) \subseteq VersionsIn(committed'),
         \A k \in Clients : SameOwner(k) \/ (runner[Main(c)].connection = "connected" /\ k = runner[Main(c)].client),
         runner[Main(c)].connection = "connected"
           => LET k == runner[Main(c)].client
              IN /\ transaction'[k].version # 0 => transaction'[k].open
                 /\ transaction'[k].open => c \in Writers /\ step \in Within,
         \A row \in rows' : RowSound(row, VersionsIn(committed'), transaction'),
         \A d \in Callers : d # c => call'[d] = call[d],
         c \in Writers /\ step \in Within => runner[Main(c)].connection \in {"connected", "refused"},
         c \notin Writers => OutsideSound(call'[c], step, VersionsIn(committed')),
         c \in Writers /\ step \in {"answer", "store"} /\ runner[Main(c)].connection = "connected"
           => call'[c].result \in VersionsIn(committed')
                \/ Owned(call'[c].result, runner[Main(c)].client, transaction')
  PROVE  ResultsSound'
<1>0. /\ pc \in [Callers -> Statements] /\ "idle" \notin Within
      /\ \A d \in Callers : pc'[d] = IF d = c THEN step ELSE pc[d]
      /\ \A d \in Callers : Main(d) \in Runners /\ Main(d)[1] = d
  BY MainRunners DEF ConnectionsInv, Moved, Within
<1>main. /\ \A d \in Callers : d # c => runner'[Main(d)] = runner[Main(d)]
         /\ \A d \in Callers : runner'[Main(d)].connection = "connected" => runner'[Main(d)] = runner[Main(d)]
  BY <1>0 DEF Moved
<1>1. \A q \in Runners : runner'[q].connection = "connected" => runner'[q].holds
  BY DEF Moved, ResultsSound, Connected
<1>2. ASSUME NEW k \in Clients PROVE OwnerAt(k, transaction', pc', runner')
  <2>1. CASE runner[Main(c)].connection = "connected" /\ k = runner[Main(c)].client
    <3>1. /\ transaction'[k].version # 0 => transaction'[k].open
          /\ transaction'[k].open => c \in Writers /\ step \in Within
      BY <2>1
    <3>2. transaction'[k].open => /\ pc'[c] \in Within /\ runner'[Main(c)].connection = "connected"
                                  /\ runner'[Main(c)].client = k
      BY <1>0, <2>1, <3>1 DEF Moved
    <3> QED
      BY <3>1, <3>2 DEF OwnerAt
  <2>2. CASE ~(runner[Main(c)].connection = "connected" /\ k = runner[Main(c)].client)
    <3>1. transaction'[k].version = transaction[k].version /\ transaction'[k].open = transaction[k].open
      BY <2>2 DEF SameOwner
    <3>2. OwnerAt(k, transaction, pc, runner)
      BY DEF ResultsSound
    <3>3. ASSUME transaction[k].open
          PROVE  \E w \in Writers : /\ pc'[w] \in Within
                                    /\ runner'[Main(w)].connection = "connected" /\ runner'[Main(w)].client = k
      <4>1. PICK w \in Writers : /\ pc[w] \in Within
                                 /\ runner[Main(w)].connection = "connected" /\ runner[Main(w)].client = k
        BY <3>2, <3>3 DEF OwnerAt
      <4>2. w # c /\ w \in Callers
        BY <2>2, <4>1 DEF Callers
      <4> QED
        BY <1>0, <1>main, <4>1, <4>2
    <3> QED
      BY <3>1, <3>2, <3>3 DEF OwnerAt
  <2> QED
    BY <2>1, <2>2
<1>3. ASSUME NEW d \in Callers, d # c
      PROVE  CallSound(call'[d], d, pc'[d], runner'[Main(d)], VersionsIn(committed'), transaction')
  <2>1. /\ call'[d] = call[d] /\ pc'[d] = pc[d] /\ runner'[Main(d)] = runner[Main(d)]
        /\ CallSound(call[d], d, pc[d], runner[Main(d)], VersionsIn(committed), transaction)
    BY <1>0, <1>main, <1>3 DEF ResultsSound
  <2>2. runner[Main(d)].connection = "connected" => SameOwner(runner[Main(d)].client)
    <3>1. runner[Main(d)].connection = "connected" => runner[Main(d)].client \in Clients
      BY <1>0, RunnersTyped
    <3> QED
      BY <1>3, <3>1, OwnClients
  <2> QED
    BY <2>1, <2>2 DEF CallSound, OutsideSound, InsideSound, Owned, SameOwner
<1>4. CallSound(call'[c], c, pc'[c], runner'[Main(c)], VersionsIn(committed'), transaction')
  <2>1. pc'[c] = step
    BY <1>0
  <2>2. CASE c \notin Writers
    BY <2>1, <2>2 DEF CallSound
  <2>3. CASE c \in Writers
    <3>1. step \in Within => runner'[Main(c)].connection \in {"connected", "refused"}
      BY <1>0, <2>3 DEF Moved
    <3>2. ASSUME step \in {"answer", "store"}, runner'[Main(c)].connection = "connected"
          PROVE  call'[c].result \in VersionsIn(committed') \/ Owned(call'[c].result, runner'[Main(c)].client, transaction')
      <4>1. runner'[Main(c)] = runner[Main(c)]
        BY <1>main, <3>2
      <4> QED
        BY <2>3, <3>2, <4>1
    <3> QED
      BY <2>1, <2>3, <3>1, <3>2 DEF CallSound, InsideSound
  <2> QED
    BY <2>2, <2>3
<1>5. (\A row \in rows : RowSound(row, VersionsIn(committed), transaction))'
  BY DEF RowSound, Known, Owned, VersionsIn
<1>6. (\A d \in Callers : CallSound(call[d], d, pc[d], runner[Main(d)], VersionsIn(committed), transaction))'
  BY <1>3, <1>4 DEF CallSound, OutsideSound, InsideSound, Owned, VersionsIn, Main
<1>7. (\A k \in Clients : OwnerAt(k, transaction, pc, runner))'
  BY <1>2 DEF OwnerAt, Main
<1>8. (\A q \in Runners : Connected(q) => runner[q].holds)'
  BY <1>1 DEF Connected
<1> QED
  BY <1>5, <1>6, <1>7, <1>8 DEF ResultsSound

LEMMA RowClients ==
  ASSUME TimesInv
  PROVE  \A row \in rows : RowShaped(row) /\ (row.by # "" => row.by \in Clients)
BY TimesTyped DEF RowTrue, RowTyped

\* A step that leaves the rows, the versions and the transactions, but for their failing.
LEMMA QuerySteps ==
  ASSUME ConnectionsInv, TimesInv, ResultsSound, NEW c \in Callers, NEW step, Moved(c, step), step = "write" => c \in Writers,
         UNCHANGED <<rows, committed>>,
         \A k \in Clients : SameOwner(k), c \in Writers /\ pc[c] \in Within => step \in Within,
         \A d \in Callers : d # c => call'[d] = call[d],
         c \in Writers /\ step \in Within => runner[Main(c)].connection \in {"connected", "refused"},
         c \notin Writers => OutsideSound(call'[c], step, VersionsIn(committed)),
         c \in Writers /\ step \in {"answer", "store"} /\ runner[Main(c)].connection = "connected"
           => call'[c].result \in VersionsIn(committed)
                \/ Owned(call'[c].result, runner[Main(c)].client, transaction)
  PROVE  ResultsSound'
<1>0. Main(c) \in Runners /\ Main(c)[1] = c /\ VersionsIn(committed') = VersionsIn(committed)
  BY MainRunners DEF VersionsIn
<1>1. ASSUME NEW row \in rows PROVE RowSound(row, VersionsIn(committed), transaction')
  <2>1. RowSound(row, VersionsIn(committed), transaction)
    BY DEF ResultsSound
  <2>2. row.by # "" => row.by \in Clients
    BY <1>1, RowClients
  <2> QED
    BY <2>1, <2>2 DEF RowSound, Owned, SameOwner
<1>2. ASSUME runner[Main(c)].connection = "connected"
      PROVE  LET k == runner[Main(c)].client
             IN /\ transaction'[k].version # 0 => transaction'[k].open
                /\ transaction'[k].open => c \in Writers /\ step \in Within
  <2>1. runner[Main(c)].client \in Clients
    BY <1>0, <1>2, RunnersTyped
  <2>2. transaction[runner[Main(c)].client].open => c \in Writers /\ pc[c] \in Within
    BY <1>0, <1>2, OwnerRunner DEF Connected
  <2> QED
    BY <2>1, <2>2 DEF SameOwner, ResultsSound, OwnerAt
<1>3. c \in Writers /\ step \in {"answer", "store"} /\ runner[Main(c)].connection = "connected"
        => call'[c].result \in VersionsIn(committed)
             \/ Owned(call'[c].result, runner[Main(c)].client, transaction')
  <2>1. runner[Main(c)].connection = "connected" => runner[Main(c)].client \in Clients
    BY <1>0, RunnersTyped
  <2> QED
    BY <2>1 DEF Owned, SameOwner
<1> QED
  BY <1>0, <1>1, <1>2, <1>3, ResultSteps

(***************************************************************************)
(* The steps of the callers, by a cache in a table while the pool is up.   *)
(***************************************************************************)
LEMMA Table ==
  ASSUME cacheType = "database"
  PROVE  \A c, step : ByRunner(step) /\ Client(c, step) = runner[By(c, step)].client
BY DEF ByRunner, Client

LEMMA SameOwners ==
  ASSUME UNCHANGED transaction
  PROVE  \A k \in Clients : SameOwner(k)
BY DEF SameOwner

LEMMA FailedOwners ==
  ASSUME TimesInv, NEW c, NEW step, Fails(c, step)
  PROVE  \A k \in Clients : SameOwner(k)
BY FailsTyped DEF SameOwner

\* A caller knows what it has been told, and the others what they knew.
LEMMA Knows ==
  ASSUME TimesInv, NEW c \in Callers, NEW step, NEW links, NEW known, Go(c, step, links, known)
  PROVE  /\ call'[c] = (IF step = "idle" /\ ~known.served THEN NoCall ELSE known)
         /\ \A d \in Callers : d # c => call'[d] = call[d]
BY DEF Go, TimesInv, DataTyped

LEMMA BeginResults ==
  ASSUME ConnectionsInv, TimesInv, ResultsSound, cacheType' = cacheType, NEW c \in Callers, Begin(c)
  PROVE  ResultsSound'
<1> DEFINE step == IF c \in Writers THEN "write" ELSE IF c \in Removers THEN "remove" ELSE "get"
<1>1. /\ pc[c] = "idle" /\ Go(c, step, Links, NoCall) /\ UNCHANGED <<rows, committed, transaction>>
      /\ step \in Statements /\ step # "idle" /\ step \notin {"answer", "store"}
      /\ (c \in Writers => step \notin Within) /\ (step = "write" => c \in Writers)
  BY DEF Begin, dataVars, Statements, Within
<1> HIDE DEF step
<1>2. Moved(c, step)
  BY <1>1, AnsweredMoves DEF Statements
<1>3. /\ call'[c] = NoCall /\ NoCall.served = FALSE
      /\ \A d \in Callers : d # c => call'[d] = call[d]
  BY <1>1, Knows DEF NoCall
<1>4. c \notin Writers => OutsideSound(call'[c], step, VersionsIn(committed))
  BY <1>1, <1>3 DEF OutsideSound
<1> QED
  BY <1>1, <1>2, <1>3, <1>4, SameOwners, QuerySteps DEF Within

\* The client of a writer that is at its first statement has no transaction.
LEMMA WriteResults ==
  ASSUME ConnectionsInv, TimesInv, ResultsSound, cacheType = "database", cacheType' = cacheType,
         NEW c \in Callers, Write(c)
  PROVE  ResultsSound'
<1> DEFINE k == Client(c, "write")
           begun(version) == [transaction[k] EXCEPT !.open = TRUE, !.version = version]
<1>0. /\ (Able(c, "write") \/ Fails(c, "write")) /\ pc[c] = "write" /\ c \in Writers /\ Answers(c, "write")
      /\ Main(c) \in Runners /\ Main(c)[1] = c /\ By(c, "write") = Main(c) /\ k = runner[Main(c)].client
  BY AnswerOf, MainRunners, Table DEF Write, Able, Fails, By, ResultsSound, CallSound
<1>at. runner[Main(c)].connection \in {"connected", "refused"}
  BY <1>0, Table DEF Answers, Connected, Refused
<1>moves. ASSUME NEW step \in {"get", "end"}, Go(c, step, Links, NoCall)
          PROVE  /\ Moved(c, step) /\ step \in Within /\ step \notin {"answer", "store", "write"}
                 /\ \A d \in Callers : d # c => call'[d] = call[d]
  <2>1. step \in Statements /\ pc[c] \in Statements \ {"store"} /\ (pc[c] # "idle" => Answers(c, pc[c]))
    BY <1>0 DEF Statements
  <2> QED
    BY <1>moves, <2>1, AnsweredMoves, Knows DEF Within
<1>1. ASSUME Able(c, "write"), NEW version \in Nat, transaction' = [transaction EXCEPT ![k] = begun(version)],
             NEW step \in {"get", "end"}, Go(c, step, Links, NoCall), UNCHANGED <<rows, committed>>
      PROVE  ResultsSound'
  <2>1. runner[Main(c)].connection = "connected" /\ k \in Clients
    BY <1>0, <1>1, Table, RunnersTyped DEF Able, Served, Connected
  <2>2. ~transaction[k].open
    BY <1>0, <2>1, OwnerRunner DEF Connected, Within
  <2> HIDE DEF k
  <2>3. begun(version).open = TRUE
    BY <2>1, TimesTyped DEF Transactions
  <2> HIDE DEF begun
  <2>4. transaction'[k].open = TRUE /\ \A j \in Clients : j # k => SameOwner(j)
    BY <1>1, <2>1, <2>3, TimesTyped DEF SameOwner
  <2>5. \A row \in rows : RowSound(row, VersionsIn(committed), transaction')
    <3>1. ASSUME NEW row \in rows PROVE RowSound(row, VersionsIn(committed), transaction')
      <4>1. RowSound(row, VersionsIn(committed), transaction) /\ (row.by # "" => row.by \in Clients)
        BY RowClients DEF ResultsSound
      <4>2. row.by # "" => SameOwner(row.by)
        BY <2>2, <2>4, <4>1 DEF RowSound
      <4> QED
        BY <4>1, <4>2 DEF RowSound, Owned, SameOwner
    <3> QED
      BY <3>1
  <2>6. VersionsIn(committed') = VersionsIn(committed)
    BY <1>1 DEF VersionsIn
  <2>7. /\ Moved(c, step) /\ step \in Within /\ step \notin {"answer", "store"}
        /\ \A d \in Callers : d # c => call'[d] = call[d]
    BY <1>1, <1>moves
  <2>8. /\ \A j \in Clients : SameOwner(j) \/ (runner[Main(c)].connection = "connected" /\ j = runner[Main(c)].client)
        /\ \A row \in rows' : RowSound(row, VersionsIn(committed'), transaction')
        /\ transaction'[runner[Main(c)].client].open = TRUE
    BY <1>0, <1>1, <2>1, <2>4, <2>5, <2>6
  <2> QED
    BY <1>0, <1>at, <2>6, <2>7, <2>8, ResultSteps
<1>2. CASE Fails(c, "write") /\ Go(c, "end", Links, NoCall) /\ UNCHANGED <<rows, committed>>
  BY <1>0, <1>2, <1>at, <1>moves, FailedOwners, QuerySteps
<1>3. written + 1 \in Nat /\ (Able(c, "write") => transaction[k].version \in Nat)
  <2>1. Able(c, "write") => k \in Clients
    BY <1>0, Table, RunnersTyped DEF Able, Served, Connected
  <2> QED
    BY <2>1, TimesTyped
<1> HIDE DEF k, begun
<1>4. \/ \E step \in {"get", "end"}, version \in {written + 1, transaction[k].version} :
           /\ Able(c, "write") /\ transaction' = [transaction EXCEPT ![k] = begun(version)]
           /\ Go(c, step, Links, NoCall) /\ UNCHANGED <<rows, committed>>
      \/ Fails(c, "write") /\ Go(c, "end", Links, NoCall) /\ UNCHANGED <<rows, committed>>
  BY DEF Write, k, begun
<1> QED
  BY <1>1, <1>2, <1>3, <1>4

\* Where a caller is that is within its transaction.
LEMMA WithinAt ==
  ASSUME ConnectionsInv, ResultsSound, NEW c \in Callers, c \in Writers, pc[c] \in Within
  PROVE  runner[Main(c)].connection \in {"connected", "refused"}
BY DEF ResultsSound, CallSound, InsideSound

LEMMA LastVersion == ASSUME TimesInv PROVE committed[Len(committed)].version \in VersionsIn(committed)
<1>1. Len(committed) \in Nat /\ Len(committed) # 0
  BY TimesTyped, TableEntries, EmptySeq DEF Tables
<1> QED
  BY <1>1 DEF VersionsIn

\* The client of a call outside of a transaction has none.
LEMMA OutsideClients ==
  ASSUME ConnectionsInv, ResultsSound, cacheType = "database", NEW c \in Callers, c \notin Writers,
         NEW step \in Statements, Connected(By(c, step))
  PROVE  LET k == Client(c, step) IN k \in Clients /\ ~transaction[k].open /\ transaction[k].version = 0
<1>1. By(c, step) \in Runners /\ By(c, step)[1] = c
  BY RunnersOfCallers
<1>2. Client(c, step) = runner[By(c, step)].client /\ runner[By(c, step)].client \in Clients
  BY <1>1, Table, RunnersTyped DEF Connected
<1>3. ~transaction[runner[By(c, step)].client].open
  BY <1>1, OwnerRunner
<1> QED
  BY <1>2, <1>3 DEF ResultsSound, OwnerAt

\* So it sees what is committed.
LEMMA SeenCommitted ==
  ASSUME ConnectionsInv, ResultsSound, cacheType = "database", NEW c \in Callers, c \notin Writers,
         Connected(By(c, "get")), NEW row \in Seen(Client(c, "get"))
  PROVE  Value(row, Client(c, "get")).result \in VersionsIn(committed)
<1> DEFINE k == Client(c, "get")
<1>1. ~transaction[k].open
  BY OutsideClients DEF Statements
<1>2. RowSound(row, VersionsIn(committed), transaction) /\ Value(row, k) # NoValue
  BY DEF Seen, ResultsSound
<1> HIDE DEF k
<1>3. Value(row, k) = row.value
  BY <1>1, <1>2 DEF Value, RowSound
<1>4. Value(row, k).result \in VersionsIn(committed)
  BY <1>2, <1>3 DEF RowSound, Known
<1> QED
  BY <1>4 DEF k

LEMMA GetResults ==
  ASSUME ConnectionsInv, TimesInv, ResultsSound, cacheType = "database", cacheType' = cacheType,
         NEW c \in Callers, Get(c)
  PROVE  ResultsSound'
<1>0. /\ (Able(c, "get") \/ Fails(c, "get")) /\ pc[c] = "get" /\ Answers(c, "get")
      /\ pc[c] \in Statements \ {"store"} /\ pc[c] \in Within /\ ~call[c].served
  BY AnswerOf DEF Get, Able, Fails, Statements, Within, TimesInv, CallFresh
<1>1. ASSUME NEW step \in {"read", AfterResults(c)}, NEW known, Go(c, step, Links, known),
             c \notin Writers /\ known.served => known.result \in VersionsIn(committed),
             UNCHANGED <<rows, committed>>, \A k \in Clients : SameOwner(k)
      PROVE  ResultsSound'
  <2>0. /\ step \in Statements /\ step \notin {"write", "answer", "store"} /\ (c \in Writers => step \in Within)
    BY AfterResultsStatement DEF Statements, Within
  <2>1. Moved(c, step)
    BY <1>0, <1>1, <2>0, AnsweredMoves
  <2>2. /\ call'[c] = (IF step = "idle" /\ ~known.served THEN NoCall ELSE known)
        /\ \A d \in Callers : d # c => call'[d] = call[d]
    BY <1>1, Knows
  <2>3. c \notin Writers => OutsideSound(call'[c], step, VersionsIn(committed))
    <3>1. NoCall.served = FALSE
      BY DEF NoCall
    <3> QED
      BY <1>1, <2>0, <2>2, <3>1 DEF OutsideSound
  <2> QED
    BY <1>0, <1>1, <2>0, <2>1, <2>2, <2>3, WithinAt, QuerySteps
<1>2. ASSUME NEW step \in {"read", AfterResults(c)}, NEW known, Go(c, step, Links, known), ~known.served,
             UNCHANGED <<rows, committed>>, \A k \in Clients : SameOwner(k)
      PROVE  ResultsSound'
  BY <1>1, <1>2
<1>3. call[c] \in CallRecords
  BY TimesTyped
<1>4. CASE Go(c, "read", Links, call[c]) /\ UNCHANGED <<rows, committed, transaction>>
  BY <1>0, <1>2, <1>4, SameOwners
<1>5. CASE Go(c, "read", Links, [call[c] EXCEPT !.saved = TRUE]) /\ UNCHANGED <<rows, committed, transaction>>
  <2>1. ~[call[c] EXCEPT !.saved = TRUE].served
    BY <1>0, <1>3 DEF CallRecords
  <2> QED
    BY <1>2, <1>5, <2>1, SameOwners
<1>6. ASSUME Able(c, "get"), NEW row \in Seen(Client(c, "get")), UNCHANGED <<rows, committed, transaction>>,
             Go(c, AfterResults(c), Links, [NoCall EXCEPT !.result = Value(row, Client(c, "get")).result,
                                              !.lag = Value(row, Client(c, "get")).lag, !.served = TRUE, !.at = clock])
      PROVE  ResultsSound'
  <2> DEFINE known == [NoCall EXCEPT !.result = Value(row, Client(c, "get")).result,
                                     !.lag = Value(row, Client(c, "get")).lag, !.served = TRUE, !.at = clock]
  <2>1. known.result = Value(row, Client(c, "get")).result /\ Go(c, AfterResults(c), Links, known)
    BY <1>6 DEF NoCall
  <2>2. Connected(By(c, "get"))
    BY <1>6, Table DEF Able, Served
  <2>3. c \notin Writers => Value(row, Client(c, "get")).result \in VersionsIn(committed)
    BY <2>2, <1>6, SeenCommitted
  <2> HIDE DEF known
  <2> QED
    BY <1>1, <1>6, <2>1, <2>3, SameOwners
<1>7. ASSUME NEW step \in {"read", AfterResults(c)}, Go(c, step, Links, [call[c] EXCEPT !.cacheError = TRUE]),
             Fails(c, "get"), UNCHANGED <<rows, committed>>
      PROVE  ResultsSound'
  <2>1. ~[call[c] EXCEPT !.cacheError = TRUE].served
    BY <1>0, <1>3 DEF CallRecords
  <2> QED
    BY <1>2, <1>7, <2>1, FailedOwners
<1>8. CASE /\ Fails(c, "get") /\ UNCHANGED <<rows, committed>>
           /\ Go(c, IF ignoreErrors THEN "read" ELSE AfterResults(c), Links, [call[c] EXCEPT !.cacheError = TRUE])
  BY <1>7, <1>8
<1>9. CASE /\ Able(c, "get") /\ UNCHANGED <<rows, committed, transaction>>
           /\ \/ Go(c, "read", Links, call[c])
              \/ \E row \in Seen(Client(c, "get")) :
                   \/ Go(c, AfterResults(c), Links,
                         [NoCall EXCEPT !.result = Value(row, Client(c, "get")).result,
                                        !.lag = Value(row, Client(c, "get")).lag, !.served = TRUE, !.at = clock])
                   \/ Go(c, "read", Links, [call[c] EXCEPT !.saved = TRUE])
  BY <1>4, <1>5, <1>6, <1>9
<1> QED
  BY <1>8, <1>9 DEF Get, dataVars

LEMMA ReadResults ==
  ASSUME ConnectionsInv, TimesInv, ResultsSound, cacheType = "database", cacheType' = cacheType,
         NEW c \in Callers, Read(c)
  PROVE  ResultsSound'
<1> DEFINE k == Client(c, "read")
           known == [call[c] EXCEPT !.result = Truth(k), !.time = clock]
<1>0. /\ (Able(c, "read") \/ Fails(c, "read")) /\ pc[c] = "read" /\ Answers(c, "read")
      /\ pc[c] \in Statements \ {"store"} /\ pc[c] \in Within /\ ~call[c].served
      /\ call[c] \in CallRecords /\ call \in [Callers -> CallRecords]
  BY AnswerOf, TimesTyped DEF Read, Able, Fails, Statements, Within, TimesInv, DataTyped, CallFresh
<1>1. CASE Fails(c, "read") /\ Go(c, AfterResults(c), Links, NoCall) /\ UNCHANGED <<rows, committed>>
  <2>0. /\ AfterResults(c) \in Statements /\ AfterResults(c) \notin {"write", "answer", "store"}
        /\ (c \in Writers => AfterResults(c) \in Within)
    BY AfterResultsStatement DEF Statements, Within
  <2>1. Moved(c, AfterResults(c))
    BY <1>0, <1>1, <2>0, AnsweredMoves
  <2>2. /\ call'[c] = NoCall /\ NoCall.served = FALSE
        /\ \A d \in Callers : d # c => call'[d] = call[d]
    BY <1>1, Knows DEF NoCall
  <2>3. c \notin Writers => OutsideSound(call'[c], AfterResults(c), VersionsIn(committed))
    BY <2>0, <2>2 DEF OutsideSound
  <2> QED
    BY <1>0, <1>1, <2>0, <2>1, <2>2, <2>3, WithinAt, FailedOwners, QuerySteps
<1>2. CASE /\ Able(c, "read") /\ pc' = [pc EXCEPT ![c] = "answer"]
           /\ call' = [call EXCEPT ![c] = known] /\ UNCHANGED <<connectionVars, dataVars>>
  <2>1. Moved(c, "answer")
    BY <1>2, WaitsMoves
  <2>2. call'[c] = known /\ \A d \in Callers : d # c => call'[d] = call[d]
    BY <1>0, <1>2
  <2>3. known.result = Truth(k) /\ ~known.served
    BY <1>0 DEF CallRecords
  <2>4. Connected(By(c, "read")) /\ k = runner[By(c, "read")].client /\ By(c, "read") = Main(c)
    BY <1>2, Table DEF Able, Served, By
  <2>5. Truth(k) \in VersionsIn(committed) \/ Owned(Truth(k), k, transaction)
    BY LastVersion DEF Truth, Owned
  <2>6. c \notin Writers => transaction[k].version = 0
    BY <2>4, OutsideClients DEF Statements
  <2> HIDE DEF known, k
  <2>7. c \notin Writers => OutsideSound(call'[c], "answer", VersionsIn(committed))
    BY <2>2, <2>3, <2>5, <2>6 DEF OutsideSound, Owned
  <2>8. "answer" \in Within /\ UNCHANGED <<rows, committed, transaction>>
    BY <1>2 DEF Within, dataVars
  <2>9. runner[Main(c)].connection = "connected"
    BY <2>4 DEF Connected
  <2> QED
    BY <2>1, <2>2, <2>3, <2>4, <2>5, <2>7, <2>8, <2>9, SameOwners, QuerySteps
<1> HIDE DEF known, k
<1>3. \/ /\ Able(c, "read") /\ pc' = [pc EXCEPT ![c] = "answer"]
         /\ call' = [call EXCEPT ![c] = known] /\ UNCHANGED <<connectionVars, dataVars>>
      \/ Fails(c, "read") /\ Go(c, AfterResults(c), Links, NoCall) /\ UNCHANGED <<rows, committed>>
  BY DEF Read, known, k
<1> QED
  BY <1>1, <1>2, <1>3

LEMMA AnswerResults ==
  ASSUME ConnectionsInv, TimesInv, ResultsSound, cacheType = "database", cacheType' = cacheType,
         NEW c \in Callers, Answer(c)
  PROVE  ResultsSound'
<1>0. /\ pc[c] = "answer" /\ Answers(c, "answer") /\ pc[c] \in Statements \ {"store"} /\ pc[c] \in Within
      /\ ~call[c].served /\ call[c] \in CallRecords
      /\ UNCHANGED <<rows, committed, transaction>>
  BY TimesTyped DEF Answer, Answers, By, Statements, Within, TimesInv, CallFresh, dataVars
<1>1. ASSUME NEW step \in {"store", AfterResults(c)}, NEW known, Go(c, step, Links, known), ~known.served,
             step = "store" => known.result = call[c].result
      PROVE  ResultsSound'
  <2>0. /\ step \in Statements /\ step \notin {"write", "answer"} /\ (c \in Writers => step \in Within)
        /\ step \in {"answer", "store"} => step = "store"
    BY AfterResultsStatement DEF Statements, Within
  <2>1. Moved(c, step)
    BY <1>0, <1>1, <2>0, AnsweredMoves
  <2>2. /\ call'[c] = (IF step = "idle" /\ ~known.served THEN NoCall ELSE known)
        /\ \A d \in Callers : d # c => call'[d] = call[d]
    BY <1>1, Knows
  <2>3. /\ NoCall.served = FALSE
        /\ CallSound(call[c], c, "answer", runner[Main(c)], VersionsIn(committed), transaction)
    BY <1>0 DEF NoCall, ResultsSound
  <2>4. c \notin Writers => OutsideSound(call'[c], step, VersionsIn(committed))
    BY <1>1, <2>0, <2>2, <2>3 DEF OutsideSound, CallSound
  <2>5. c \in Writers /\ step \in {"answer", "store"} /\ runner[Main(c)].connection = "connected"
          => call'[c].result \in VersionsIn(committed) \/ Owned(call'[c].result, runner[Main(c)].client, transaction)
    BY <1>1, <2>0, <2>2, <2>3 DEF InsideSound, CallSound
  <2> QED
    BY <1>0, <2>0, <2>1, <2>2, <2>4, <2>5, WithinAt, SameOwners, QuerySteps
<1>2. Answered(call[c]).result = call[c].result /\ Answered(call[c]).served = call[c].served /\ NoCall.served = FALSE
  BY <1>0 DEF Answered, CallRecords, NoCall
<1>3. AfterResults(c) # "store"
  BY AfterResultsStatement
<1>4. CASE Go(c, IF call[c].cacheError THEN AfterResults(c) ELSE "store", Links, Answered(call[c]))
  BY <1>0, <1>1, <1>2, <1>4
<1>5. CASE Go(c, AfterResults(c), Links, NoCall)
  BY <1>0, <1>1, <1>2, <1>3, <1>5
<1> QED
  BY <1>4, <1>5 DEF Answer

\* Which of its values a row that is written or deleted changes.
LEMMA PutWhen ==
  ASSUME NEW row, RowShaped(row), NEW k, NEW value, NEW put, put = Put(row, k, value)
  PROVE  /\ Open(k) => put.value = row.value /\ put.new = value /\ put.by = k
         /\ ~Open(k) => put.value = value /\ put.new = row.new /\ put.by = row.by
<1>1. CASE Open(k)
  <2>1. put = [n |-> row.n, value |-> row.value, new |-> value, by |-> k]
    BY <1>1 DEF Put, RowShaped
  <2> QED
    BY <1>1, <2>1
<1>2. CASE ~Open(k)
  <2>1. put = [n |-> row.n, value |-> value, new |-> row.new, by |-> row.by]
    BY <1>2 DEF Put, RowShaped
  <2> QED
    BY <1>2, <2>1
<1> QED
  BY <1>1, <1>2

LEMMA DeletedWhen ==
  ASSUME NEW row, RowShaped(row), NEW k, NEW deleted, deleted = Deleted(row, k)
  PROVE  /\ Open(k) => deleted.value = row.value /\ deleted.new = NoValue /\ deleted.by = k
         /\ ~Open(k) => deleted.value = NoValue /\ deleted.new = row.new /\ deleted.by = row.by
<1>1. CASE Open(k)
  <2>1. deleted = [n |-> row.n, value |-> row.value, new |-> NoValue, by |-> k]
    BY <1>1 DEF Deleted, RowShaped
  <2> QED
    BY <1>1, <2>1
<1>2. CASE ~Open(k)
  <2>1. deleted = [n |-> row.n, value |-> NoValue, new |-> row.new, by |-> row.by]
    BY <1>2 DEF Deleted, RowShaped
  <2> QED
    BY <1>2, <2>1
<1> QED
  BY <1>1, <1>2

\* A client without a transaction writes what is committed.
LEMMA PutSound ==
  ASSUME NEW row, RowShaped(row), NEW versions, RowSound(row, versions, transaction), NEW k, NEW value,
         value.result \in versions \/ Owned(value.result, k, transaction), ~Open(k) => value.result \in versions,
         NEW put, put = Put(row, k, value)
  PROVE  RowSound(put, versions, transaction)
<1>1. CASE Open(k)
  <2>1. put.value = row.value /\ put.new = value /\ put.by = k
    BY <1>1, PutWhen
  <2>2. k # "" /\ transaction[k].open
    BY <1>1 DEF Open
  <2> QED
    BY <2>1, <2>2 DEF RowSound, Known
<1>2. CASE ~Open(k)
  <2>1. put.value = value /\ put.new = row.new /\ put.by = row.by
    BY <1>2, PutWhen
  <2> QED
    BY <1>2, <2>1 DEF RowSound, Known
<1> QED
  BY <1>1, <1>2

LEMMA DeletedSound ==
  ASSUME NEW row, RowShaped(row), NEW versions, RowSound(row, versions, transaction), NEW k,
         NEW deleted, deleted = Deleted(row, k)
  PROVE  RowSound(deleted, versions, transaction)
<1>1. CASE Open(k)
  <2>1. deleted.value = row.value /\ deleted.new = NoValue /\ deleted.by = k
    BY <1>1, DeletedWhen
  <2>2. k # "" /\ transaction[k].open
    BY <1>1 DEF Open
  <2> QED
    BY <2>1, <2>2 DEF RowSound, Known
<1>2. CASE ~Open(k)
  <2>1. deleted.value = NoValue /\ deleted.new = row.new /\ deleted.by = row.by
    BY <1>2, DeletedWhen
  <2> QED
    BY <2>1 DEF RowSound, Known
<1> QED
  BY <1>1, <1>2

LEMMA RowsAfterSound ==
  ASSUME ConnectionsInv, TimesInv, ResultsSound, cacheType = "database", NEW c \in Callers, Able(c, "store")
  PROVE  \A row \in RowsAfter(c) : RowSound(row, VersionsIn(committed), transaction)
<1> DEFINE k == Client(c, "store")
           stored == Stored(c)
<1>1. pc[c] = "store" /\ Connected(By(c, "store")) /\ k = runner[By(c, "store")].client /\ By(c, "store") \in Runners
  BY Table, RunnersOfCallers DEF Able, Served, Statements
<1>2. k \in Clients /\ k # ""
  BY <1>1, RunnersTyped, ClientsAssumption DEF Connected
<1>3. stored.result \in VersionsIn(committed) \/ Owned(stored.result, k, transaction)
  <2>1. CallSound(call[c], c, "store", runner[Main(c)], VersionsIn(committed), transaction)
    BY <1>1 DEF ResultsSound
  <2>2. CASE c \in Writers
    <3>1. By(c, "store") = Main(c)
      BY <2>2 DEF By, StoreRunner
    <3> QED
      BY <1>1, <2>1, <2>2, <3>1 DEF CallSound, InsideSound, Connected, Stored
  <2>3. CASE c \notin Writers
    BY <2>1, <2>3 DEF CallSound, OutsideSound, Stored
  <2> QED
    BY <2>2, <2>3
<1>4. ~Open(k) => stored.result \in VersionsIn(committed)
  BY <1>2, <1>3 DEF Open, Owned, ResultsSound, OwnerAt
<1>5. RowsAfter(c) = IF call[c].saved THEN {IF row \in Seen(k) THEN Put(row, k, stored) ELSE row : row \in rows}
                     ELSE rows \union {Put(NewRow, k, stored)}
  BY DEF RowsAfter
<1>6. \A row \in rows : RowShaped(row) /\ RowSound(row, VersionsIn(committed), transaction)
  BY RowClients DEF ResultsSound
<1>7. RowShaped(NewRow) /\ RowSound(NewRow, VersionsIn(committed), transaction)
  <2>1. PICK n : NewRow = [n |-> n, value |-> NoValue, new |-> NoValue, by |-> ""]
    BY DEF NewRow
  <2>2. NewRow.value = NoValue /\ NewRow.by = ""
    BY <2>1
  <2> QED
    BY <2>1, <2>2 DEF RowShaped, RowSound, Known
<1> HIDE DEF k, stored
<1>8. ASSUME NEW old, RowShaped(old), RowSound(old, VersionsIn(committed), transaction), NEW row,
             row = Put(old, k, stored)
      PROVE  RowSound(row, VersionsIn(committed), transaction)
  BY <1>3, <1>4, <1>8, PutSound
<1> QED
  BY <1>5, <1>6, <1>7, <1>8

LEMMA StoreResults ==
  ASSUME ConnectionsInv, TimesInv, ResultsSound, cacheType = "database", cacheType' = cacheType,
         NEW c \in Callers, Store(c)
  PROVE  ResultsSound'
<1>0. /\ (Able(c, "store") \/ Fails(c, "store")) /\ pc[c] = "store" /\ Answers(c, "store") /\ pc[c] \in Within
      /\ AfterResults(c) \notin {"write", "answer", "store"} /\ (c \in Writers => AfterResults(c) \in Within)
      /\ (AfterResults(c) = "idle" <=> c \notin Writers)
  BY AnswerOf, AfterResultsStatement DEF Store, Able, Fails, Within
<1>1. ASSUME NEW done, NEW known, Go(c, AfterResults(c), LinksAfterStore(c, done), known),
             known = call[c] \/ ~known.served
      PROVE  /\ Moved(c, AfterResults(c))
             /\ \A d \in Callers : d # c => call'[d] = call[d]
             /\ c \notin Writers => OutsideSound(call'[c], AfterResults(c), VersionsIn(committed))
  <2>1. Moved(c, AfterResults(c))
    BY <1>0, <1>1, StoredMoves
  <2>2. /\ call'[c] = (IF AfterResults(c) = "idle" /\ ~known.served THEN NoCall ELSE known)
        /\ \A d \in Callers : d # c => call'[d] = call[d]
    BY <1>1, Knows
  <2>3. NoCall.served = FALSE /\ (c \notin Writers => call[c].result \in VersionsIn(committed))
    BY <1>0 DEF NoCall, ResultsSound, CallSound, OutsideSound
  <2> QED
    BY <1>0, <1>1, <2>1, <2>2, <2>3 DEF OutsideSound
<1>2. CASE /\ Able(c, "store") /\ rows' = RowsAfter(c) /\ UNCHANGED <<transaction, committed>>
           /\ Go(c, AfterResults(c), LinksAfterStore(c, TRUE), call[c])
  <2>1. \A row \in rows' : RowSound(row, VersionsIn(committed), transaction)
    BY <1>2, RowsAfterSound
  <2>2. runner[Main(c)].connection = "connected"
          => LET k == runner[Main(c)].client
             IN /\ transaction[k].version # 0 => transaction[k].open
                /\ transaction[k].open => c \in Writers /\ AfterResults(c) \in Within
    <3>1. ASSUME runner[Main(c)].connection = "connected"
          PROVE  /\ runner[Main(c)].client \in Clients
                 /\ transaction[runner[Main(c)].client].open => c \in Writers
      <4>1. Main(c) \in Runners /\ Main(c)[1] = c
        BY MainRunners
      <4> QED
        BY <3>1, <4>1, RunnersTyped, OwnerRunner DEF Connected
    <3> QED
      BY <1>0, <3>1 DEF ResultsSound, OwnerAt
  <2>3. VersionsIn(committed') = VersionsIn(committed) /\ transaction' = transaction
    BY <1>2 DEF VersionsIn
  <2> QED
    BY <1>0, <1>1, <1>2, <2>1, <2>2, <2>3, WithinAt, SameOwners, ResultSteps
<1>3. CASE /\ Fails(c, "store") /\ UNCHANGED <<rows, committed>>
           /\ Go(c, AfterResults(c), LinksAfterStore(c, FALSE), IF ignoreErrors THEN call[c] ELSE NoCall)
  <2>1. /\ Moved(c, AfterResults(c))
        /\ \A d \in Callers : d # c => call'[d] = call[d]
        /\ c \notin Writers => OutsideSound(call'[c], AfterResults(c), VersionsIn(committed))
    <3>1. ~NoCall.served
      BY DEF NoCall
    <3> QED
      BY <1>1, <1>3, <3>1
  <2> QED
    BY <1>0, <1>3, <2>1, WithinAt, FailedOwners, QuerySteps
<1> QED
  BY <1>2, <1>3 DEF Store

\* What is committed is so later, too.
LEMMA VersionsLater ==
  ASSUME TimesInv, NEW longer, Extends(longer, committed, clock)
  PROVE  VersionsIn(committed) \subseteq VersionsIn(longer)
<1>1. CASE longer = committed
  BY <1>1
<1>2. ASSUME NEW v \in Nat, longer = Append(committed, [version |-> v, at |-> clock])
      PROVE  VersionsIn(committed) \subseteq VersionsIn(longer)
  <2>1. /\ Len(longer) = Len(committed) + 1 /\ Len(committed) \in Nat
        /\ \A i \in 1..Len(committed) : longer[i] = committed[i]
    BY <1>2, TimesTyped, TableExtended, TableEntries
  <2>2. \A i \in 1..Len(committed) : i \in 1..Len(longer)
    BY <2>1
  <2> QED
    BY <2>1, <2>2 DEF VersionsIn
<1> QED
  BY <1>1, <1>2 DEF Extends

\* The rows of transactions that end keep what is committed, if a commit commits the
\* versions of the transactions.
LEMMA AfterEndSound ==
  ASSUME TimesInv, ResultsSound, NEW ks \in SUBSET Clients, NEW commit \in BOOLEAN, NEW versions, VersionsIn(committed) \subseteq versions,
         commit => \A k \in ks : transaction[k].version # 0 => transaction[k].version \in versions,
         NEW owned, \A k \in Clients \ ks : owned[k].version = transaction[k].version /\ owned[k].open = transaction[k].open
  PROVE  \A row \in AfterEnd(ks, commit) : RowSound(row, versions, owned)
<1>0. SUFFICES ASSUME NEW old \in rows, NEW row,
                    row = IF old.by \notin ks THEN old
                          ELSE [old EXCEPT !.value = IF commit THEN old.new ELSE old.value, !.new = NoValue, !.by = ""]
             PROVE  RowSound(row, versions, owned)
  BY DEF AfterEnd, Without
<1>1. RowSound(old, VersionsIn(committed), transaction) /\ RowShaped(old) /\ (old.by # "" => old.by \in Clients)
  BY RowClients DEF ResultsSound
<1>2. CASE old.by \notin ks
  BY <1>0, <1>1, <1>2 DEF RowSound, Known, Owned
<1>3. CASE old.by \in ks
  <2> DEFINE value == IF commit THEN old.new ELSE old.value
  <2>1. row = [n |-> old.n, value |-> value, new |-> NoValue, by |-> ""]
    BY <1>0, <1>1, <1>3 DEF RowShaped
  <2>2. old.by # "" => Known(value, versions)
    BY <1>1, <1>3 DEF RowSound, Known, Owned
  <2> HIDE DEF value
  <2>3. row.value = value /\ row.by = ""
    BY <2>1
  <2> QED
    BY <1>3, <2>2, <2>3, ClientsAssumption DEF RowSound
<1> QED
  BY <1>2, <1>3

LEMMA EndResults ==
  ASSUME ConnectionsInv, TimesInv, ResultsSound, cacheType = "database", cacheType' = cacheType,
         NEW c \in Callers, End(c)
  PROVE  ResultsSound'
<1> DEFINE k == Client(c, "end")
<1>0. /\ pc[c] = "end" /\ Answers(c, "end") /\ Go(c, "idle", Links, call[c]) /\ pc[c] \in Statements \ {"store"}
      /\ By(c, "end") = Main(c) /\ k = runner[Main(c)].client /\ Main(c) \in Runners /\ Main(c)[1] = c
  BY Table, MainRunners DEF End, Answers, By, Served, Connected, Refused, Statements
<1>1. Moved(c, "idle")
  BY <1>0, AnsweredMoves DEF Statements
<1>2. /\ call'[c] = (IF ~call[c].served THEN NoCall ELSE call[c])
      /\ \A d \in Callers : d # c => call'[d] = call[d]
  BY <1>0, Knows
<1>3. c \notin Writers => OutsideSound(call'[c], "idle", VersionsIn(committed))
  <2>1. NoCall.served = FALSE /\ CallSound(call[c], c, pc[c], runner[Main(c)], VersionsIn(committed), transaction)
    BY DEF NoCall, ResultsSound
  <2> QED
    BY <1>2, <2>1 DEF OutsideSound, CallSound
<1>4. CASE Refused(Main(c)) /\ UNCHANGED <<rows, committed, transaction>>
  <2>1. /\ runner[Main(c)].connection # "connected" /\ VersionsIn(committed') = VersionsIn(committed)
        /\ transaction' = transaction /\ rows' = rows
    BY <1>4 DEF Refused, VersionsIn
  <2>2. \A row \in rows : RowSound(row, VersionsIn(committed), transaction)
    BY DEF ResultsSound
  <2> QED
    BY <1>1, <1>2, <1>3, <2>1, <2>2, SameOwners, ResultSteps DEF Within
<1>5. ASSUME Served(Main(c)), NEW commit \in BOOLEAN, rows' = AfterEnd({k}, commit),
             committed' = IF commit /\ transaction[k].version # 0
                          THEN Append(committed, [version |-> transaction[k].version, at |-> clock]) ELSE committed,
             transaction' = [transaction EXCEPT ![k] = NoTransaction]
      PROVE  ResultsSound'
  <2>1. k \in Clients /\ runner[Main(c)].connection = "connected"
    BY <1>0, <1>5, RunnersTyped DEF Served, Connected
  <2> HIDE DEF k
  <2>2. Extends(committed', committed, clock)
    BY <1>5, <2>1, TimesTyped DEF Extends
  <2>3. VersionsIn(committed) \subseteq VersionsIn(committed')
    BY <2>2, VersionsLater
  <2>4. commit /\ transaction[k].version # 0 => transaction[k].version \in VersionsIn(committed')
    <3>1. ASSUME commit, transaction[k].version # 0 PROVE transaction[k].version \in VersionsIn(committed')
      <4>1. /\ Len(committed') = Len(committed) + 1 /\ Len(committed) \in Nat
            /\ committed'[Len(committed) + 1].version = transaction[k].version
        BY <1>5, <2>1, <3>1, TimesTyped, TableExtended, TableEntries
      <4>2. Len(committed) + 1 \in 1..Len(committed')
        BY <4>1
      <4> QED
        BY <4>1, <4>2 DEF VersionsIn
    <3> QED
      BY <3>1
  <2>5. /\ transaction'[k].version = 0 /\ transaction'[k].open = FALSE
        /\ \A j \in Clients : j # k => SameOwner(j)
    BY <1>5, <2>1, TimesTyped DEF NoTransaction, SameOwner
  <2>6. \A row \in rows' : RowSound(row, VersionsIn(committed'), transaction')
    <3>1. \A j \in {k} : commit /\ transaction[j].version # 0 => transaction[j].version \in VersionsIn(committed')
      BY <2>4
    <3>2. \A j \in Clients \ {k} : transaction'[j].version = transaction[j].version /\ transaction'[j].open = transaction[j].open
      BY <2>5 DEF SameOwner
    <3> QED
      BY <1>5, <2>1, <2>3, <3>1, <3>2, AfterEndSound
  <2>7. c \notin Writers => OutsideSound(call'[c], "idle", VersionsIn(committed'))
    BY <1>3, <2>3 DEF OutsideSound
  <2>8. /\ \A j \in Clients : SameOwner(j) \/ (runner[Main(c)].connection = "connected" /\ j = runner[Main(c)].client)
        /\ transaction'[runner[Main(c)].client].version = 0 /\ ~transaction'[runner[Main(c)].client].open
    BY <1>0, <2>1, <2>5
  <2> QED
    BY <1>1, <1>2, <2>3, <2>6, <2>7, <2>8, ResultSteps DEF Within
<1> HIDE DEF k
<1>6. \/ Refused(Main(c)) /\ UNCHANGED <<rows, committed, transaction>>
      \/ /\ Served(Main(c)) /\ transaction' = [transaction EXCEPT ![k] = NoTransaction]
         /\ \E commit \in BOOLEAN :
              /\ rows' = AfterEnd({k}, commit)
              /\ committed' = IF commit /\ transaction[k].version # 0
                              THEN Append(committed, [version |-> transaction[k].version, at |-> clock]) ELSE committed
  BY DEF End, k
<1> QED
  BY <1>4, <1>5, <1>6

LEMMA DeleteResults ==
  ASSUME ConnectionsInv, TimesInv, ResultsSound, cacheType = "database", cacheType' = cacheType,
         NEW c \in Callers, Delete(c)
  PROVE  ResultsSound'
<1> DEFINE k == Client(c, "remove")
<1>0. /\ (Able(c, "remove") \/ Fails(c, "remove")) /\ pc[c] = "remove" /\ Answers(c, "remove")
      /\ pc[c] \in Statements \ {"store"} /\ pc[c] \notin Within /\ Main(c) \in Runners /\ Main(c)[1] = c
      /\ CallSound(call[c], c, pc[c], runner[Main(c)], VersionsIn(committed), transaction)
  BY AnswerOf, MainRunners DEF Delete, Able, Fails, Statements, Within, ResultsSound
<1>1. CASE /\ rows' = Without({IF row \in Seen(k) THEN Deleted(row, k) ELSE row : row \in rows})
           /\ Go(c, "idle", Links, NoCall) /\ UNCHANGED <<transaction, committed>>
  <2>1. Moved(c, "idle")
    BY <1>0, <1>1, AnsweredMoves DEF Statements
  <2>2. /\ call'[c] = NoCall /\ NoCall.served = FALSE
        /\ \A d \in Callers : d # c => call'[d] = call[d]
    BY <1>1, Knows DEF NoCall
  <2>3. c \notin Writers => OutsideSound(call'[c], "idle", VersionsIn(committed))
    BY <2>2 DEF OutsideSound
  <2>4. \A row \in rows : RowShaped(row) /\ RowSound(row, VersionsIn(committed), transaction)
    BY RowClients DEF ResultsSound
  <2> HIDE DEF k
  <2>5. ASSUME NEW old \in rows, NEW row, row = IF old \in Seen(k) THEN Deleted(old, k) ELSE old
        PROVE  RowSound(row, VersionsIn(committed), transaction)
    BY <2>4, <2>5, DeletedSound
  <2>6. \A row \in rows' : RowSound(row, VersionsIn(committed), transaction)
    BY <1>1, <2>5 DEF Without
  <2>7. runner[Main(c)].connection = "connected"
          => /\ runner[Main(c)].client \in Clients
             /\ transaction[runner[Main(c)].client].version = 0 /\ ~transaction[runner[Main(c)].client].open
    BY <1>0, RunnersTyped, OwnerRunner DEF Connected, ResultsSound, OwnerAt
  <2>8. VersionsIn(committed') = VersionsIn(committed) /\ transaction' = transaction
    BY <1>1 DEF VersionsIn
  <2> QED
    BY <2>1, <2>2, <2>3, <2>6, <2>7, <2>8, SameOwners, ResultSteps DEF Within
<1>2. CASE /\ Fails(c, "remove") /\ pc' = [pc EXCEPT ![c] = "failed"]
           /\ UNCHANGED <<connectionVars, call, rows, committed>>
  <2>1. Moved(c, "failed") /\ "failed" \notin Within \union {"answer", "store", "write"}
    BY <1>2, WaitsMoves DEF Within
  <2>2. c \notin Writers => OutsideSound(call[c], "failed", VersionsIn(committed))
    BY <1>0 DEF CallSound, OutsideSound
  <2> QED
    BY <1>0, <1>2, <2>1, <2>2, FailedOwners, QuerySteps
<1> HIDE DEF k
<1>3. \/ /\ rows' = Without({IF row \in Seen(k) THEN Deleted(row, k) ELSE row : row \in rows})
         /\ Go(c, "idle", Links, NoCall) /\ UNCHANGED <<transaction, committed>>
      \/ /\ Fails(c, "remove") /\ pc' = [pc EXCEPT ![c] = "failed"]
         /\ UNCHANGED <<connectionVars, call, rows, committed>>
  BY DEF Delete, k
<1> QED
  BY <1>1, <1>2, <1>3

(***************************************************************************)
(* What happens besides the calls: a client that is gone takes its         *)
(* transaction with it, and its runner has no other one.                   *)
(***************************************************************************)
LEMMA OtherResults ==
  ASSUME ConnectionsInv, ResultsSound, UNCHANGED <<pc, call>>, NEW gone \in SUBSET Clients,
         VersionsIn(committed) \subseteq VersionsIn(committed'),
         \A k \in Clients \ gone : SameOwner(k),
         \A k \in gone : transaction'[k].version = 0 /\ ~transaction'[k].open,
         \A q \in Runners : runner'[q].connection = "connected" => runner'[q].holds,
         \A q \in Runners : runner[q].connection = "connected" /\ runner[q].client \notin gone => runner'[q] = runner[q],
         \A q \in Runners : runner[q].connection = "connected" /\ runner[q].client \in gone => runner'[q].connection = "refused",
         \A q \in Runners : runner[q].connection = "refused" => runner'[q].connection = "refused",
         \A row \in rows' : RowSound(row, VersionsIn(committed'), transaction')
  PROVE  ResultsSound'
<1>main. \A c \in Callers : Main(c) \in Runners /\ (runner[Main(c)].connection = "connected" => runner[Main(c)].client \in Clients)
  BY MainRunners, RunnersTyped
<1>1. ASSUME NEW k \in Clients PROVE OwnerAt(k, transaction', pc', runner')
  <2>1. CASE k \in gone
    BY <2>1 DEF OwnerAt
  <2>2. CASE k \notin gone
    <3>1. transaction'[k].version = transaction[k].version /\ transaction'[k].open = transaction[k].open
      BY <2>2 DEF SameOwner
    <3>2. OwnerAt(k, transaction, pc, runner)
      BY DEF ResultsSound
    <3>3. ASSUME transaction[k].open
          PROVE  \E w \in Writers : /\ pc'[w] \in Within
                                    /\ runner'[Main(w)].connection = "connected" /\ runner'[Main(w)].client = k
      <4>1. PICK w \in Writers : /\ pc[w] \in Within
                                 /\ runner[Main(w)].connection = "connected" /\ runner[Main(w)].client = k
        BY <3>2, <3>3 DEF OwnerAt
      <4>2. runner'[Main(w)] = runner[Main(w)]
        BY <1>main, <2>2, <4>1 DEF Callers
      <4> QED
        BY <4>1, <4>2
    <3> QED
      BY <3>1, <3>2, <3>3 DEF OwnerAt
  <2> QED
    BY <2>1, <2>2
<1>2. ASSUME NEW c \in Callers
      PROVE  CallSound(call'[c], c, pc'[c], runner'[Main(c)], VersionsIn(committed'), transaction')
  <2>1. /\ call'[c] = call[c] /\ pc'[c] = pc[c]
        /\ CallSound(call[c], c, pc[c], runner[Main(c)], VersionsIn(committed), transaction)
    BY DEF ResultsSound
  <2>2. OutsideSound(call[c], pc[c], VersionsIn(committed)) => OutsideSound(call[c], pc[c], VersionsIn(committed'))
    BY DEF OutsideSound
  <2>3. ASSUME InsideSound(call[c], pc[c], runner[Main(c)], VersionsIn(committed), transaction)
        PROVE  InsideSound(call[c], pc[c], runner'[Main(c)], VersionsIn(committed'), transaction')
    <3>0. CASE pc[c] \notin Within
      BY <3>0 DEF InsideSound, Within
    <3>1. CASE runner[Main(c)].connection = "refused"
      BY <1>main, <3>1 DEF InsideSound
    <3>2. CASE runner[Main(c)].connection = "connected" /\ runner[Main(c)].client \in gone
      BY <1>main, <3>2 DEF InsideSound
    <3>3. CASE runner[Main(c)].connection = "connected" /\ runner[Main(c)].client \notin gone
      <4>1. runner'[Main(c)] = runner[Main(c)] /\ SameOwner(runner[Main(c)].client)
        BY <1>main, <3>3
      <4> QED
        BY <2>3, <3>3, <4>1 DEF InsideSound, Owned, SameOwner
    <3> QED
      BY <2>3, <3>0, <3>1, <3>2, <3>3 DEF InsideSound
  <2> QED
    BY <2>1, <2>2, <2>3 DEF CallSound
<1>3. (\A row \in rows : RowSound(row, VersionsIn(committed), transaction))'
  BY DEF RowSound, Known, Owned, VersionsIn
<1>4. (\A c \in Callers : CallSound(call[c], c, pc[c], runner[Main(c)], VersionsIn(committed), transaction))'
  BY <1>2 DEF CallSound, OutsideSound, InsideSound, Owned, VersionsIn, Main
<1>5. (\A k \in Clients : OwnerAt(k, transaction, pc, runner))'
  BY <1>1 DEF OwnerAt, Main
<1>6. (\A q \in Runners : Connected(q) => runner[q].holds)'
  BY DEF Connected
<1> QED
  BY <1>3, <1>4, <1>5, <1>6 DEF ResultsSound

\* Steps that change no transaction, and no runner but such as wait.
LEMMA StillResults ==
  ASSUME ConnectionsInv, ResultsSound, UNCHANGED <<pc, call, rows, transaction>>,
         VersionsIn(committed) \subseteq VersionsIn(committed'),
         \A q \in Runners : runner[q].connection # "waiting" => runner'[q] = runner[q],
         \A q \in Runners : runner'[q] # runner[q] => runner'[q].connection = "refused" \/ runner'[q].holds
  PROVE  ResultsSound'
<1>1. \A row \in rows : RowSound(row, VersionsIn(committed'), transaction)
  BY DEF ResultsSound, RowSound, Known
<1>2. \A q \in Runners : runner'[q].connection = "connected" => runner'[q].holds
  BY DEF ResultsSound, Connected
<1>3. {} \in SUBSET Clients
  OBVIOUS
<1> QED
  BY <1>1, <1>2, <1>3, SameOwners, OtherResults

LEMMA BreakResults ==
  ASSUME ConnectionsInv, TimesInv, ResultsSound, NEW k \in Clients, Break(k)
  PROVE  ResultsSound'
<1>1. /\ Become(Lost(Links, {k})) /\ rows' = AfterEnd({k}, FALSE)
      /\ transaction' = [j \in Clients |-> IF j \in {k} THEN NoTransaction ELSE transaction[j]]
      /\ UNCHANGED <<pc, call, committed, cacheType>>
  BY DEF Break, RolledBack, optionVars
<1>2. /\ {k} \in SUBSET Clients /\ VersionsIn(committed') = VersionsIn(committed)
      /\ FALSE \in BOOLEAN
  BY <1>1 DEF VersionsIn
<1>3. \A q \in Runners : /\ runner[q].client \notin {k} => runner'[q] = runner[q]
                         /\ runner[q].client \in {k} => runner'[q].connection = "refused"
  BY <1>1, <1>2, LostKeeps
<1>4. /\ \A j \in Clients \ {k} : SameOwner(j)
      /\ \A j \in {k} : transaction'[j].version = 0 /\ ~transaction'[j].open
  BY <1>1 DEF SameOwner, NoTransaction
<1>5. \A row \in rows' : RowSound(row, VersionsIn(committed), transaction')
  <2>1. \A j \in Clients \ {k} : transaction'[j].version = transaction[j].version /\ transaction'[j].open = transaction[j].open
    BY <1>4 DEF SameOwner
  <2> QED
    BY <1>1, <1>2, <2>1, AfterEndSound
<1>6. \A q \in Runners : runner'[q].connection = "connected" => runner'[q].holds
  BY <1>3 DEF ResultsSound, Connected
<1> QED
  BY <1>1, <1>2, <1>3, <1>4, <1>5, <1>6, OtherResults

LEMMA InitResults == Init => ResultsInv
<1> SUFFICES ASSUME Init PROVE ResultsSound
  BY DEF ResultsInv
<1>1. /\ rows = {} /\ pc = [c \in Callers |-> "idle"] /\ call = [c \in Callers |-> NoCall]
      /\ transaction = [k \in Clients |-> NoTransaction] /\ runner = [q \in Runners |-> NewRunner]
  BY DEF Init, ConnectionsInit
<1>2. NoCall.served = FALSE /\ NoTransaction.version = 0 /\ NoTransaction.open = FALSE
  BY DEF NoCall, NoTransaction
<1>3. \A q \in Runners : ~Connected(q)
  BY <1>1, NewRunnerSound DEF Connected
<1>4. \A k \in Clients : OwnerAt(k, transaction, pc, runner)
  BY <1>1, <1>2 DEF OwnerAt
<1>5. \A c \in Callers : CallSound(call[c], c, pc[c], runner[Main(c)], VersionsIn(committed), transaction)
  BY <1>1, <1>2 DEF CallSound, OutsideSound, InsideSound, Within
<1> QED
  BY <1>1, <1>3, <1>4, <1>5 DEF ResultsSound

\* A pool that is up has always been.
LEMMA StillUp ==
  ASSUME [Next]_vars, pool' = "up"
  PROVE  pool = "up" /\ cacheType' = cacheType
<1>1. ASSUME NEW c \in Callers, Begin(c) \/ Step(c) PROVE UNCHANGED <<pool, cacheType>>
  BY <1>1 DEF Begin, Step, Write, Get, Read, Answer, Store, End, Delete, Go, optionVars, connectionVars
<1>2. ASSUME NEW k \in Clients, Break(k) PROVE UNCHANGED <<pool, cacheType>>
  BY <1>2 DEF Break, RolledBack, optionVars
<1>3. ASSUME NEW q \in Runners, Timeout(q) PROVE UNCHANGED <<pool, cacheType>>
  BY <1>3 DEF Timeout, ConnectTimeout, optionVars
<1>4. CASE Change \/ Tick \/ Serve
  BY <1>4 DEF Change, Tick, Serve, Grant, optionVars, connectionVars
<1>5. CASE Destroy
  BY <1>5 DEF Destroy, Disconnect, optionVars
<1>6. CASE Closing
  BY <1>6 DEF Closing, ReleaseListed, EndPool, PoolEnded
<1>7. CASE UNCHANGED vars
  BY <1>7 DEF vars, connectionVars, optionVars
<1> QED
  BY <1>1, <1>2, <1>3, <1>4, <1>5, <1>6, <1>7 DEF Next

LEMMA StepResults == ConnectionsInv /\ TimesInv /\ ResultsInv /\ [Next]_vars => ResultsInv'
<1> SUFFICES ASSUME ConnectionsInv, TimesInv, ResultsInv, [Next]_vars, pool' = "up", cacheType' = "database"
             PROVE  ResultsSound'
  BY DEF ResultsInv
<1>0. pool = "up" /\ cacheType = "database" /\ cacheType' = cacheType /\ ResultsSound
  BY StillUp DEF ResultsInv
<1>1. ASSUME NEW c \in Callers, Begin(c) \/ Step(c) PROVE ResultsSound'
  BY <1>0, <1>1, BeginResults, WriteResults, GetResults, ReadResults, AnswerResults, StoreResults, EndResults,
     DeleteResults DEF Step
<1>2. ASSUME NEW k \in Clients, Break(k) PROVE ResultsSound'
  BY <1>0, <1>2, BreakResults
<1>3. ASSUME NEW q \in Runners, Timeout(q) PROVE ResultsSound'
  <2>1. /\ UNCHANGED <<pc, call, rows, transaction, committed>>
        /\ \A p \in Runners : runner'[p] # runner[p] =>
             runner'[p].connection = "refused" /\ runner[p].connection = "waiting"
    BY <1>0, <1>3, TimeoutKeeps DEF Timeout, dataVars
  <2>2. VersionsIn(committed') = VersionsIn(committed)
    BY <2>1 DEF VersionsIn
  <2> QED
    BY <1>0, <2>1, <2>2, StillResults
<1>4. CASE Change
  <2>1. UNCHANGED <<pc, call, rows, transaction, runner>>
        /\ committed' = Append(committed, [version |-> written + 1, at |-> clock])
    BY <1>4 DEF Change, connectionVars
  <2>2. Extends(committed', committed, clock)
    <3>1. written + 1 \in Nat
      BY TimesTyped
    <3> QED
      BY <2>1, <3>1 DEF Extends
  <2>3. VersionsIn(committed) \subseteq VersionsIn(committed')
    BY <2>2, VersionsLater
  <2> QED
    BY <1>0, <2>1, <2>3, StillResults
<1>5. ASSUME UNCHANGED <<pc, call, rows, transaction, runner, committed>> PROVE ResultsSound'
  <2>1. VersionsIn(committed') = VersionsIn(committed)
    BY <1>5 DEF VersionsIn
  <2> QED
    BY <1>0, <1>5, <2>1, StillResults
<1>6. CASE Tick
  BY <1>5, <1>6 DEF Tick, connectionVars, dataVars
<1>7. CASE Serve
  <2>1. /\ UNCHANGED <<pc, call, rows, transaction, committed>>
        /\ \A p \in Runners : /\ runner'[p] = runner[p] \/ runner'[p].holds
                              /\ runner[p].connection # "waiting" => runner'[p] = runner[p]
    BY <1>0, <1>7, GrantKeeps DEF Serve, dataVars
  <2>2. VersionsIn(committed') = VersionsIn(committed)
    BY <2>1 DEF VersionsIn
  <2> QED
    BY <1>0, <2>1, <2>2, StillResults
<1>8. CASE Destroy \/ Closing
  BY <1>0, <1>8 DEF Destroy, Disconnect, Closing, ReleaseListed, EndPool, PoolEnded
<1>9. CASE UNCHANGED vars
  BY <1>5, <1>9 DEF vars, connectionVars, dataVars
<1> QED
  BY <1>1, <1>2, <1>3, <1>4, <1>6, <1>7, <1>8, <1>9 DEF Next

\* While the pool is up, what is kept of a result is committed, or the version of the one
\* open transaction that it belongs to.
THEOREM ResultsInvariance == Spec => []ResultsInv
BY InitResults, StepResults, ConnectionsInvariance, TimesInvariance, PTL DEF Spec

\* As long as the source is not being destroyed, a result that the table of the cache
\* serves outside of a transaction was committed, even when the call that stored it was
\* in a transaction that is rolled back.
THEOREM NeverUncommitted == Spec => []NothingUncommitted
<1>1. ResultsInv => NothingUncommitted
  <2> SUFFICES ASSUME ResultsSound, NEW c \in Readers, call[c].served
               PROVE  \E i \in DOMAIN committed : committed[i].version = call[c].result
    BY DEF ResultsInv, NothingUncommitted, ServedIsCommitted
  <2>1. c \in Callers /\ c \notin Writers
    BY QueriesAssumption DEF Callers
  <2>2. call[c].result \in VersionsIn(committed)
    BY <2>1 DEF ResultsSound, CallSound, OutsideSound
  <2> QED
    BY <2>2 DEF VersionsIn
<1> QED
  BY <1>1, ResultsInvariance, PTL
===============================================================================
