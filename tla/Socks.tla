-------------------------------- MODULE Socks --------------------------------
(***************************************************************************)
(* The SOCKS5 front end: the exchange of each accepted connection, run by  *)
(* a task of its own (serve_one), and the one thing these tasks share, the *)
(* map from credentials to isolation tokens. Connections whose streams     *)
(* carry different tokens never share a circuit.                           *)
(*                                                                         *)
(* A read or write that fails ends the connection with nothing more said,  *)
(* and so do a bad version and a name that is not UTF-8 (Gone).            *)
(***************************************************************************)
EXTENDS Naturals, Sequences, FiniteSets

CONSTANTS Conns,    \* the connections that are accepted
          Creds,    \* pairs of a user name and a password
          NoCreds   \* no credentials

ASSUME CredsAssumption == NoCreds \notin Creds

Methods == {"none", "userpass", "gssapi"}

\* What the server writes: the answers to the methods, to the credentials, and
\* to the request.
Replies  == {"ok", "general_failure", "cmd_not_supported", "atyp_not_supported"}
Messages == {"use_none", "use_userpass", "none_acceptable", "auth_ok"} \union Replies

\* The token of a stream on which no isolation was set.
NoToken == 0

VARIABLES
    wants,     \* the credentials each client was given
    offers,    \* the methods it offers
    pc,        \* where each connection's task is
    creds,     \* what negotiate_auth returned
    token,     \* the isolation of its stream
    written,   \* what it was sent
    tokens,    \* Isolation: the token of each pair of credentials, if any
    minted     \* how many tokens IsolationToken::new has made

clientVars == <<wants, offers>>
vars == <<clientVars, pc, creds, token, written, tokens, minted>>

\* How much a connection can have been sent when its task is at p.
MostWritten(p) == IF p \in {"accept", "hello"} THEN 0 ELSE IF p = "auth" THEN 1
                  ELSE IF p \in {"request", "isolate", "connect"} THEN 2 ELSE 3

TypeOK ==
    /\ wants \in [Conns -> Creds \union {NoCreds}]
    /\ offers \in [Conns -> SUBSET Methods]
    /\ pc \in [Conns -> {"accept", "hello", "auth", "request", "isolate", "connect",
                         "relaying", "finished"}]
    /\ creds \in [Conns -> Creds \union {NoCreds}]
    /\ token \in [Conns -> Nat]
    /\ written \in [Conns -> Seq(Messages)]
    /\ \A c \in Conns : Len(written[c]) <= MostWritten(pc[c])
    /\ tokens \in [Creds -> Nat]
    /\ minted \in Nat

\* A client that offers to send credentials has some.
Init ==
    /\ wants \in [Conns -> Creds \union {NoCreds}]
    /\ offers \in [Conns -> SUBSET Methods]
    /\ \A c \in Conns : "userpass" \in offers[c] => wants[c] # NoCreds
    /\ pc = [c \in Conns |-> "accept"]
    /\ creds = [c \in Conns |-> NoCreds]
    /\ token = [c \in Conns |-> NoToken]
    /\ written = [c \in Conns |-> <<>>]
    /\ tokens = [u \in Creds |-> NoToken]
    /\ minted = 0

Goes(c, from, to) == pc[c] = from /\ pc' = [pc EXCEPT ![c] = to]

Writes(c, m) == written' = [written EXCEPT ![c] = Append(@, m)]
-----------------------------------------------------------------------------
Accept(c) ==
    /\ Goes(c, "accept", "hello")
    /\ UNCHANGED <<clientVars, creds, token, written, tokens, minted>>

\* negotiate_auth: no authentication is preferred.
NoAuth(c) ==
    /\ "none" \in offers[c]
    /\ Goes(c, "hello", "request") /\ Writes(c, "use_none")
    /\ UNCHANGED <<clientVars, creds, token, tokens, minted>>

UserPass(c) ==
    /\ "none" \notin offers[c] /\ "userpass" \in offers[c]
    /\ Goes(c, "hello", "auth") /\ Writes(c, "use_userpass")
    /\ UNCHANGED <<clientVars, creds, token, tokens, minted>>

NoneAcceptable(c) ==
    /\ "none" \notin offers[c] /\ "userpass" \notin offers[c]
    /\ Goes(c, "hello", "finished") /\ Writes(c, "none_acceptable")
    /\ UNCHANGED <<clientVars, creds, token, tokens, minted>>

\* RFC 1929; any credentials are accepted.
ReadCredentials(c) ==
    /\ Goes(c, "auth", "request") /\ Writes(c, "auth_ok")
    /\ creds' = [creds EXCEPT ![c] = wants[c]]
    /\ UNCHANGED <<clientVars, token, tokens, minted>>
-----------------------------------------------------------------------------
(* read_connect_request                                                    *)

\* A command other than CONNECT, or an unknown address type.
RejectRequest(c) ==
    /\ Goes(c, "request", "finished")
    /\ \E code \in {"cmd_not_supported", "atyp_not_supported"} : Writes(c, code)
    /\ UNCHANGED <<clientVars, creds, token, tokens, minted>>

ReadRequest(c) ==
    /\ Goes(c, "request", "isolate")
    /\ UNCHANGED <<clientVars, creds, token, written, tokens, minted>>
-----------------------------------------------------------------------------
\* Mutant: a new token for every connection.
AlwaysMint(c) ==
    /\ Goes(c, "isolate", "connect")
    /\ IF creds[c] = NoCreds THEN UNCHANGED <<token, tokens, minted>>
       ELSE /\ minted' = minted + 1
            /\ tokens' = [tokens EXCEPT ![creds[c]] = minted + 1]
            /\ token' = [token EXCEPT ![c] = minted + 1]
    /\ UNCHANGED <<clientVars, creds, written>>

\* Isolation::token_for, under the map's mutex: minted on first use.
token_for(c) ==
    /\ Goes(c, "isolate", "connect")
    /\ IF creds[c] = NoCreds THEN UNCHANGED <<token, tokens, minted>>
       ELSE /\ IF tokens[creds[c]] = NoToken
                 THEN minted' = minted + 1 /\ tokens' = [tokens EXCEPT ![creds[c]] = minted + 1]
                 ELSE UNCHANGED <<tokens, minted>>
            /\ token' = [token EXCEPT ![c] = tokens'[creds[c]]]
    /\ UNCHANGED <<clientVars, creds, written>>

\* connect_with_prefs fails, or succeeds and the relay begins.
ConnectFails(c) ==
    /\ Goes(c, "connect", "finished") /\ Writes(c, "general_failure")
    /\ UNCHANGED <<clientVars, creds, token, tokens, minted>>

\* Mutant: success is reported before the stream is open.
OkBeforeConnect(c) ==
    /\ pc[c] = "connect" /\ "ok" \notin {written[c][i] : i \in 1..Len(written[c])}
    /\ Writes(c, "ok")
    /\ UNCHANGED <<clientVars, pc, creds, token, tokens, minted>>

Connects(c) ==
    /\ Goes(c, "connect", "relaying") /\ Writes(c, "ok")
    /\ UNCHANGED <<clientVars, creds, token, tokens, minted>>

\* The client goes away, either side ends the relay, or what the client sent
\* is not SOCKS5: serve_one returns and says no more.
Gone(c) ==
    /\ pc[c] \in {"hello", "auth", "request", "connect", "relaying"}
    /\ pc' = [pc EXCEPT ![c] = "finished"]
    /\ UNCHANGED <<clientVars, creds, token, written, tokens, minted>>
-----------------------------------------------------------------------------
serve_one(c) == \/ Accept(c) \/ NoAuth(c) \/ UserPass(c) \/ NoneAcceptable(c)
                \/ ReadCredentials(c) \/ RejectRequest(c) \/ ReadRequest(c)
                \/ token_for(c) \/ ConnectFails(c) \/ Connects(c) \/ Gone(c)

Next == \E c \in Conns : serve_one(c)

Spec == Init /\ [][Next]_vars
-----------------------------------------------------------------------------
\* c's client made itself understood: it offered credentials and not the way
\* without, which the server would have preferred.
Isolates(c) == "userpass" \in offers[c] /\ "none" \notin offers[c]

Connected(c) == pc[c] \in {"connect", "relaying"}

\* "Two clients using different credentials never share a circuit"
\* (socks.rs:51), and two with the same do: of the streams of clients that
\* offer credentials only, two carry the same token exactly when they were
\* given the same credentials, whatever other connections do meanwhile, and
\* none goes without isolation.
CredentialsIsolate ==
    \A c, d \in Conns :
        Isolates(c) /\ Connected(c) /\ Connected(d) =>
            /\ token[c] # NoToken
            /\ token[c] = token[d] <=> (Isolates(d) /\ wants[c] = wants[d])

\* A request is answered once, and last: after the reply the task relays, if
\* the reply was "ok", or is done. A client that is told "ok" has its stream.
AnsweredOnce ==
    \A c \in Conns : \A i \in 1..Len(written[c]) :
        written[c][i] \in Replies =>
            /\ i = Len(written[c])
            /\ pc[c] = "finished" \/ (pc[c] = "relaying" /\ written[c][i] = "ok")

\* Credentials keep their token as long as the listener serves, so that a
\* client that comes back finds its circuits.
TokensStay == [][\A u \in Creds : tokens[u] # NoToken => tokens'[u] = tokens[u]]_vars

\* Why CredentialsIsolate holds: tokens of different credentials differ, tokens
\* that were not minted yet are in nobody's hands, a connection carries the
\* token of its credentials, and those are what its client was given.
TokenInvariant ==
    /\ \A u \in Creds : tokens[u] <= minted
    /\ \A u, v \in Creds : tokens[u] = tokens[v] /\ tokens[u] # NoToken => u = v
    /\ \A c \in Conns :
          /\ "userpass" \in offers[c] => wants[c] # NoCreds
          /\ pc[c] = "auth" => Isolates(c)
          /\ pc[c] \in {"accept", "hello", "auth", "request", "isolate"} => token[c] = NoToken
          /\ creds[c] # NoCreds => creds[c] = wants[c] /\ Isolates(c)
          /\ pc[c] \in {"request", "isolate", "connect", "relaying"} /\ Isolates(c)
                => creds[c] = wants[c] /\ creds[c] \in Creds
          /\ Connected(c) => IF creds[c] = NoCreds THEN token[c] = NoToken
                             ELSE token[c] = tokens[creds[c]] /\ token[c] # NoToken
=============================================================================
