-------------------------- MODULE PostgresConnections --------------------------
(***************************************************************************)
(* The clients of a PostgreSQL pool and the query runners that use them:   *)
(* PostgresQueryRunner.connect and release, the driver's                   *)
(* connectedQueryRunners and its disconnect.  The pool (external, pg-pool) *)
(* serves its requests in their order while a client is free; once it has  *)
(* ended it closes the free ones, refuses new requests, leaves those that  *)
(* wait without an answer, and is gone when every client is back.          *)
(***************************************************************************)
EXTENDS Naturals, Sequences, FiniteSets

CONSTANTS Runners, Clients

VARIABLES runner,     \* per query runner its connection, and whether it is released
          requests,   \* the runners that wait for a client
          pool        \* "up", "closing" (closePool), "ending" (pool.end) or "ended"

connectionVars == <<runner, requests, pool>>

ASSUME ClientsAssumption == IsFiniteSet(Clients) /\ Clients # {} /\ "" \notin Clients

\* connection: "none", "waiting", "connected", or "refused" if its statement fails for
\* want of a client.  client: the one it sends to, "" if none.  holds: the pool has not
\* got it back.  listed: the runner is among the connectedQueryRunners.
NewRunner == [connection |-> "none", client |-> "", holds |-> FALSE, listed |-> FALSE, released |-> FALSE]

ConnectionsInit == runner = [q \in Runners |-> NewRunner] /\ requests = <<>> /\ pool = "up"

Holding == {q \in Runners : runner[q].holds}
Listed == {q \in Runners : runner[q].listed}
Free == Clients \ {runner[q].client : q \in Holding}
Connected(q) == runner[q].connection = "connected"
Refused(q) == runner[q].connection = "refused"

\* An event of the process may do several of these: each takes the runners and the
\* requests there are, and gives the next ones.
Links == [runner |-> runner, requests |-> requests]
Become(links) == runner' = links.runner /\ requests' = links.requests

Refuse(links, q) == [links EXCEPT !.runner[q] = [@ EXCEPT !.connection = "refused", !.client = ""]]

\* A statement is asked for: a released runner refuses it, and the first one of a runner
\* asks the pool for a client.  What is asked for is sent, even if the runner is
\* released meanwhile.
Connect(links, q) ==
  IF links.runner[q].released THEN Refuse(links, q)
  ELSE IF links.runner[q].connection # "none" THEN links
  ELSE IF pool \in {"up", "closing"}
  THEN [runner |-> [links.runner EXCEPT ![q].connection = "waiting"], requests |-> Append(links.requests, q)]
  ELSE Refuse(links, q)

Grant ==
  /\ pool \in {"up", "closing"} /\ requests # <<>>
  /\ \E k \in Free :
       runner' = [runner EXCEPT ![Head(requests)] =
                    [@ EXCEPT !.connection = "connected", !.client = k, !.holds = TRUE, !.listed = TRUE]]
  /\ requests' = Tail(requests)
  /\ UNCHANGED pool

\* connectTimeoutMS
ConnectTimeout(q) ==
  /\ runner[q].connection = "waiting"
  /\ runner' = [runner EXCEPT ![q].connection = "refused"]
  /\ \E i \in 1..Len(requests) :
       /\ requests[i] = q
       /\ requests' = SubSeq(requests, 1, i - 1) \o SubSeq(requests, i + 1, Len(requests))
  /\ UNCHANGED pool

\* Mutant: the runner is taken off the list, but its client is not given back.
ReleaseKeeps(links, q) ==
  IF links.runner[q].released THEN links
  ELSE [links EXCEPT !.runner[q] = [@ EXCEPT !.released = TRUE, !.listed = FALSE]]

\* releasePostgresConnection: the client goes back as it is, whatever it is in.
Release(links, q) ==
  IF links.runner[q].released THEN links
  ELSE [links EXCEPT !.runner[q] = [@ EXCEPT !.released = TRUE, !.holds = FALSE, !.listed = FALSE]]

\* Clients are gone: who holds one releases it, and what was sent to them fails.
Lost(links, gone) ==
  LET state(q) ==
        IF links.runner[q].client \notin gone THEN links.runner[q]
        ELSE [links.runner[q] EXCEPT !.connection = "refused", !.client = "", !.holds = FALSE,
                                     !.listed = FALSE, !.released = TRUE]
  IN [links EXCEPT !.runner = [q \in Runners |-> state(q)]]

(***************************************************************************)
(* disconnect: the runners on the list are released one by one, then the   *)
(* pool ends.                                                              *)
(***************************************************************************)
Disconnect == pool = "up" /\ pool' = "closing" /\ UNCHANGED <<runner, requests>>

ReleaseListed(q) ==
  /\ pool = "closing" /\ q \in Listed
  /\ Become(Release(Links, q))
  /\ UNCHANGED pool

EndPool == pool = "closing" /\ Listed = {} /\ pool' = "ending" /\ Become(Lost(Links, Free))
PoolEnded == pool = "ending" /\ Holding = {} /\ pool' = "ended" /\ UNCHANGED <<runner, requests>>
===============================================================================
