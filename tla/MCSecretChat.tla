---------------------------- MODULE MCSecretChat ----------------------------
(* Who takes part in a behaviour and what may go wrong in it: a run looks  *)
(* at several small companies instead of one that is too large.            *)
EXTENDS SecretChat

CONSTANTS o1, u1, u2, v1, h1, h2, a1, a2

Cast(who, say, wrong, again, end) ==
  [who |-> who \union {h1, h2}, say |-> say, wrong |-> wrong, again |-> again, end |-> end]

Casts == {
  Cast({u1, a1}, 2, 1, 0, FALSE),      \* a request fails
  Cast({v1, a1}, 2, 1, 0, FALSE),
  Cast({u1, a1}, 2, 0, 1, FALSE),      \* an update comes again, or too early
  Cast({u1, a1}, 1, 0, 0, TRUE),       \* the chat is discarded
  Cast({v1, a1}, 1, 0, 0, TRUE),
  Cast({u1, u2, a1}, 2, 0, 0, FALSE),  \* three threads send on one side
  Cast({u1, v1, a1}, 1, 0, 0, FALSE),  \* both sides send
  Cast({a1, a2}, 1, 1, 0, FALSE)}      \* the request is accepted twice

VARIABLE cast

Plays ==
  /\ \A t \in Threads \ cast.who : pc[t] = "idle"
  /\ \A a \in Acceptors \ cast.who : stage[a] = "none"
  /\ \A c \in Chats : said[c] <= cast.say
  /\ faults <= cast.wrong /\ replays <= cast.again
  /\ status = "closed" => cast.end

MCInit == Init /\ cast \in Casts

MCNext == Next /\ UNCHANGED cast /\ Plays'

MCSpec == MCInit /\ [][MCNext]_<<vars, cast>> /\ Fairness
=============================================================================
