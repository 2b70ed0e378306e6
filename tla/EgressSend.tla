------------------------------ MODULE EgressSend ------------------------------
(***************************************************************************)
(* What a script posts: src/hermescloak/integrations/requests_egress.py    *)
(* and egress.py 82-126.  Session.request restores the tokens in the body  *)
(* of a request to a listed host, place by place, and every place is       *)
(* restored with the vault as it is on disk at that moment; a request to   *)
(* any other host goes out as the script made it.                          *)
(***************************************************************************)
EXTENDS Integers, FiniteSets, Sequences, SequencesExt

CONSTANTS
  Hosts,     \* hosts, as sequences of their labels
  HostFiles, \* what the operator may have in egress_hosts, None for no file
  Bodies,    \* the bodies a script makes: a set of places, each with its text
  Tokens, Values,
  MaxSends,  \* bound: requests
  MaxMoves,  \* bound: changes of the vault and of egress_hosts
  None

\* Where a token may stand: a string in json= or a key of it; data= as text, as the base64 of
\* a text, or as bytes that are neither; a form's string values, and its others.
JsonPlaces == {"leaf", "key"}
DataPlaces == {"text", "base64", "bytes", "field", "fields"}

\* A text: the real values and the tokens it holds.
Text == [reals : SUBSET Values, toks : SUBSET Tokens]

VARIABLES
  listed,   \* egress_hosts: the hosts of its lines, None for no file
  vault,    \* the value of each token on disk, None for a token it has not
  pc,
  url,      \* where the request goes: its host, and whether the URL is ambiguous
  body,     \* the body now
  todo,     \* the places still to be looked at
  reported, \* the audit log says of this request that tokens are left in it
  moves, sends

vars == <<listed, vault, pc, url, body, todo, reported, moves, sends>>

Vaults == [Tokens -> Values \cup {None}]

Init ==
  /\ listed \in HostFiles
  /\ vault = [t \in Tokens |-> None]
  /\ pc = "idle" /\ url = None
  /\ body = {} /\ todo = {} /\ reported = FALSE
  /\ moves = 0 /\ sends = 0

-----------------------------------------------------------------------------
(* The request.                                                            *)

\* _host_of: a URL with userinfo or a backslash has no host.
HostOf(u) == IF u.ambiguous THEN None ELSE u.host

\* _allowed_host: a line covers its host and what is under it.
Allowed(u) ==
  /\ listed # None /\ HostOf(u) # None
  /\ \E h \in listed : IsSuffix(h, HostOf(u))

\* Mutant of Seen: the base64 of a text is not looked into.
SeenLiteral == {"leaf", "key", "text", "bytes", "field"}

\* _has_token: the places that are searched when nothing is to be restored.
Seen == {"leaf", "key", "text", "base64", "bytes", "field"}

\* request: json= or data=, which a host that is not listed gets as they are.
Post(u, b) ==
  /\ pc = "idle" /\ sends < MaxSends /\ sends' = sends + 1
  /\ url' = u /\ body' = b
  /\ IF Allowed(u)
     THEN pc' = "restore" /\ todo' = b /\ reported' = FALSE
     ELSE /\ pc' = "sent" /\ todo' = {}
          /\ reported' = \E p \in b : p.at \in Seen /\ p.text.toks # {}
  /\ UNCHANGED <<listed, vault, moves>>

\* restore_content with load_token_map: what is on disk at this moment.
Restored(text) ==
  LET back == {t \in text.toks : vault[t] # None}
  IN  [reals |-> text.reals \cup {vault[t] : t \in back}, toks |-> text.toks \ back]

\* _restore_leaves, _restore_blob, _restore_body: the places whose tokens are restored.
Opened == {"leaf", "text", "base64", "field"}

\* Mutant of Leftover: a token without a value is let go in silence.
LeftoverNone(text) == FALSE

\* restore_for_send: what could not be restored is reported.
Leftover(text) == Restored(text).toks # {}

\* _restore_body: the next place, json= before data=.
RestoreAt(p) ==
  /\ pc = "restore" /\ p \in todo
  /\ p.at \in DataPlaces => \A q \in todo : q.at \notin JsonPlaces
  /\ todo' = todo \ {p}
  /\ IF p.at \in Opened /\ p.text.toks # {}
     THEN /\ body' = (body \ {p}) \cup {[p EXCEPT !.text = Restored(@)]}
          /\ reported' = (reported \/ Leftover(p.text))
     ELSE UNCHANGED <<body, reported>>
  /\ UNCHANGED <<listed, vault, pc, url, moves, sends>>

\* It is sent with what is in the body now.
Send ==
  /\ pc = "restore" /\ todo = {}
  /\ pc' = "sent"
  /\ UNCHANGED <<listed, vault, url, body, todo, reported, moves, sends>>

Done ==
  /\ pc = "sent"
  /\ pc' = "idle" /\ url' = None /\ body' = {} /\ reported' = FALSE
  /\ UNCHANGED <<listed, vault, todo, moves, sends>>

-----------------------------------------------------------------------------
(* The agent, the operator.                                                *)

Move == moves < MaxMoves /\ moves' = moves + 1

Mint ==
  /\ Move
  /\ \E t \in Tokens, v \in Values \ Range(vault) :
       vault[t] = None /\ vault' = [vault EXCEPT ![t] = v]
  /\ UNCHANGED <<listed, pc, url, body, todo, reported, sends>>

NewLife ==
  /\ Move
  /\ vault' = [t \in Tokens |-> None]
  /\ UNCHANGED <<listed, pc, url, body, todo, reported, sends>>

EditHosts ==
  /\ Move /\ listed' \in HostFiles \ {listed}
  /\ UNCHANGED <<vault, pc, url, body, todo, reported, sends>>

Next ==
  \/ \E h \in Hosts, x \in BOOLEAN, b \in Bodies : Post([host |-> h, ambiguous |-> x], b)
  \/ \E p \in todo : RestoreAt(p)
  \/ Send \/ Done \/ Mint \/ NewLife \/ EditHosts

Spec == Init /\ [][Next]_vars

-----------------------------------------------------------------------------
(* Properties.                                                             *)

\* "If a token cannot be restored it is reported, so it never leaves silently"
\* (egress.py:19-20): whatever becomes of the vault and of the list while a body is made
\* ready, and whether its host is listed or not, a token that leaves in a place where the
\* net restores tokens is in the audit log.
NeverSilently ==
  pc = "sent" /\ (\E p \in body : p.at \in Opened /\ p.text.toks # {}) => reported
=============================================================================
