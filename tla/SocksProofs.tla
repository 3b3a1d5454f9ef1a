----------------------------- MODULE SocksProofs -----------------------------
(***************************************************************************)
(* Proofs about the SOCKS5 front end, for any number of connections and    *)
(* credentials. The argument for isolation is TokenInvariant.              *)
(***************************************************************************)
EXTENDS Socks, TLAPS

\* The types of Socks, and how much each connection has been sent at most, hold
\* for every set of connections and of credentials.
THEOREM TypeCorrect == Spec => []TypeOK
  <1>1. Init => TypeOK
    BY DEF Init, TypeOK, MostWritten, NoToken
  <1>2. TypeOK /\ [Next]_vars => TypeOK'
    <2> SUFFICES ASSUME TypeOK, [Next]_vars PROVE TypeOK'
      OBVIOUS
    <2> USE DEF TypeOK, clientVars
    <2>1. ASSUME NEW c \in Conns, NEW m \in Messages, Writes(c, m)
          PROVE  /\ written' \in [Conns -> Seq(Messages)]
                 /\ \A d \in Conns : Len(written'[d]) = IF d = c THEN Len(written[d]) + 1
                                                        ELSE Len(written[d])
      BY <2>1 DEF Writes
    <2>2. ASSUME NEW c \in Conns, Accept(c) PROVE TypeOK'
      BY <2>2 DEF Accept, Goes, MostWritten
    <2>3. ASSUME NEW c \in Conns, NoAuth(c) PROVE TypeOK'
      <3>1. "use_none" \in Messages
        BY DEF Messages
      <3> QED
        BY <2>1, <2>3, <3>1 DEF NoAuth, Goes, MostWritten
    <2>4. ASSUME NEW c \in Conns, UserPass(c) PROVE TypeOK'
      <3>1. "use_userpass" \in Messages
        BY DEF Messages
      <3> QED
        BY <2>1, <2>4, <3>1 DEF UserPass, Goes, MostWritten
    <2>5. ASSUME NEW c \in Conns, NoneAcceptable(c) PROVE TypeOK'
      <3>1. "none_acceptable" \in Messages
        BY DEF Messages
      <3>2. pc[c] = "hello" /\ pc' = [pc EXCEPT ![c] = "finished"] /\ Writes(c, "none_acceptable")
        BY <2>5 DEF NoneAcceptable, Goes
      <3>3. \A d \in Conns : Len(written'[d]) <= MostWritten(pc'[d])
        <4> TAKE d \in Conns
        <4>1. CASE d = c
          BY <2>1, <3>1, <3>2, <4>1 DEF MostWritten
        <4>2. CASE d # c
          BY <2>1, <3>1, <3>2, <4>2
        <4> QED
          BY <4>1, <4>2
      <3> QED
        BY <2>1, <2>5, <3>1, <3>2, <3>3 DEF NoneAcceptable
    <2>6. ASSUME NEW c \in Conns, ReadCredentials(c) PROVE TypeOK'
      <3>1. "auth_ok" \in Messages
        BY DEF Messages
      <3> QED
        BY <2>1, <2>6, <3>1 DEF ReadCredentials, Goes, MostWritten
    <2>7. ASSUME NEW c \in Conns, RejectRequest(c) PROVE TypeOK'
      <3>1. {"cmd_not_supported", "atyp_not_supported"} \subseteq Messages
        BY DEF Messages, Replies
      <3> QED
        BY <2>1, <2>7, <3>1 DEF RejectRequest, Goes, MostWritten
    <2>8. ASSUME NEW c \in Conns, ReadRequest(c) PROVE TypeOK'
      BY <2>8 DEF ReadRequest, Goes, MostWritten
    <2>9. ASSUME NEW c \in Conns, token_for(c) PROVE TypeOK'
      BY <2>9, CredsAssumption DEF token_for, Goes, MostWritten
    <2>10. ASSUME NEW c \in Conns, ConnectFails(c) PROVE TypeOK'
      <3>1. "general_failure" \in Messages
        BY DEF Messages, Replies
      <3> QED
        BY <2>1, <2>10, <3>1 DEF ConnectFails, Goes, MostWritten
    <2>11. ASSUME NEW c \in Conns, Connects(c) PROVE TypeOK'
      <3>1. "ok" \in Messages
        BY DEF Messages, Replies
      <3> QED
        BY <2>1, <2>11, <3>1 DEF Connects, Goes, MostWritten
    <2>12. ASSUME NEW c \in Conns, Gone(c) PROVE TypeOK'
      BY <2>12 DEF Gone, MostWritten
    <2>13. CASE UNCHANGED vars
      BY <2>13 DEF vars
    <2> QED
      BY <2>2, <2>3, <2>4, <2>5, <2>6, <2>7, <2>8, <2>9, <2>10, <2>11, <2>12, <2>13
      DEF Next, serve_one
  <1> QED
    BY <1>1, <1>2, PTL DEF Spec
-----------------------------------------------------------------------------
\* TokenInvariant is preserved by every step: only token_for hands out or mints
\* tokens, and what it mints is larger than every token there is.
LEMMA TokenStep == TypeOK /\ TokenInvariant /\ [Next]_vars => TokenInvariant'
  <1> SUFFICES ASSUME TypeOK, TokenInvariant, [Next]_vars PROVE TokenInvariant'
    OBVIOUS
  <1> USE DEF TypeOK, TokenInvariant, clientVars, Isolates, Connected
  <1>1. ASSUME NEW c \in Conns, Accept(c) PROVE TokenInvariant'
    BY <1>1 DEF Accept, Goes
  <1>2. ASSUME NEW c \in Conns, NoAuth(c) PROVE TokenInvariant'
    BY <1>2 DEF NoAuth, Goes
  <1>3. ASSUME NEW c \in Conns, UserPass(c) PROVE TokenInvariant'
    BY <1>3 DEF UserPass, Goes
  <1>4. ASSUME NEW c \in Conns, NoneAcceptable(c) PROVE TokenInvariant'
    BY <1>4 DEF NoneAcceptable, Goes
  <1>5. ASSUME NEW c \in Conns, ReadCredentials(c) PROVE TokenInvariant'
    BY <1>5 DEF ReadCredentials, Goes
  <1>6. ASSUME NEW c \in Conns, RejectRequest(c) PROVE TokenInvariant'
    BY <1>6 DEF RejectRequest, Goes
  <1>7. ASSUME NEW c \in Conns, ReadRequest(c) PROVE TokenInvariant'
    BY <1>7 DEF ReadRequest, Goes
  <1>8. ASSUME NEW c \in Conns, token_for(c) PROVE TokenInvariant'
    <2>1. /\ pc[c] = "isolate" /\ pc' = [pc EXCEPT ![c] = "connect"]
          /\ wants' = wants /\ offers' = offers /\ creds' = creds
      BY <1>8 DEF token_for, Goes
    <2>2. CASE creds[c] = NoCreds
      <3>1. token' = token /\ tokens' = tokens /\ minted' = minted /\ ~Isolates(c)
        BY <1>8, <2>1, <2>2, CredsAssumption DEF token_for
      <3>2. token[c] = NoToken
        BY <2>1, <2>2, <3>1 DEF NoToken
      <3> QED
        BY <2>1, <2>2, <3>1, <3>2
    <2>3. CASE creds[c] # NoCreds
      <3>1. creds[c] \in Creds
        BY <2>3
      <3>2. token' = [token EXCEPT ![c] = tokens'[creds[c]]]
        BY <1>8, <2>3 DEF token_for
      <3>3. /\ tokens' \in [Creds -> Nat] /\ minted' \in Nat
            /\ \A u \in Creds : tokens'[u] <= minted'
            /\ \A u, v \in Creds : tokens'[u] = tokens'[v] /\ tokens'[u] # NoToken => u = v
            /\ \A u \in Creds : tokens[u] # NoToken => tokens'[u] = tokens[u]
            /\ tokens'[creds[c]] # NoToken
        <4>1. CASE tokens[creds[c]] = NoToken
          <5>1. minted' = minted + 1 /\ tokens' = [tokens EXCEPT ![creds[c]] = minted + 1]
            BY <1>8, <2>3, <4>1 DEF token_for
          <5>2. \A u \in Creds : tokens'[u] = IF u = creds[c] THEN minted + 1 ELSE tokens[u]
            BY <3>1, <5>1
          <5>3. /\ tokens \in [Creds -> Nat] /\ minted \in Nat
                /\ \A u \in Creds : tokens[u] \in Nat /\ tokens[u] <= minted
                /\ \A u, v \in Creds : tokens[u] = tokens[v] /\ tokens[u] # NoToken => u = v
            OBVIOUS
          <5> HIDE DEF TypeOK, TokenInvariant
          <5>4. tokens' \in [Creds -> Nat] /\ minted' \in Nat
            BY <3>1, <5>1, <5>3
          <5>5. \A u \in Creds : tokens'[u] <= minted'
            BY <5>1, <5>2, <5>3
          <5>6. \A u, v \in Creds : tokens'[u] = tokens'[v] /\ tokens'[u] # NoToken => u = v
            BY <5>2, <5>3
          <5>7. tokens'[creds[c]] # NoToken
            BY <3>1, <5>2, <5>3 DEF NoToken
          <5> QED
            BY <4>1, <5>2, <5>4, <5>5, <5>6, <5>7
        <4>2. CASE tokens[creds[c]] # NoToken
          BY <1>8, <2>3, <3>1, <4>2 DEF token_for
        <4> QED
          BY <4>1, <4>2
      <3>4. ASSUME NEW d \in Conns, Connected(d)'
            PROVE  IF creds'[d] = NoCreds THEN token'[d] = NoToken
                   ELSE token'[d] = tokens'[creds'[d]] /\ token'[d] # NoToken
        <4>1. CASE d = c
          BY <2>1, <2>3, <3>1, <3>2, <3>3, <4>1
        <4>2. CASE d # c
          <5>1. Connected(d) /\ token'[d] = token[d] /\ creds'[d] = creds[d]
            BY <2>1, <3>2, <3>4, <4>2
          <5>2. CASE creds[d] = NoCreds
            BY <5>1, <5>2
          <5>3. CASE creds[d] # NoCreds
            <6>1. creds[d] \in Creds /\ token[d] = tokens[creds[d]] /\ token[d] # NoToken
              BY <5>1, <5>3
            <6> QED
              BY <3>3, <5>1, <5>3, <6>1
          <5> QED
            BY <5>2, <5>3
        <4> QED
          BY <4>1, <4>2
      <3>5. \A d \in Conns :
                pc'[d] \in {"accept", "hello", "auth", "request", "isolate"} => token'[d] = NoToken
        BY <2>1, <3>2
      <3> QED
        BY <2>1, <3>3, <3>4, <3>5
    <2> QED
      BY <2>2, <2>3
  <1>9. ASSUME NEW c \in Conns, ConnectFails(c) PROVE TokenInvariant'
    BY <1>9 DEF ConnectFails, Goes
  <1>10. ASSUME NEW c \in Conns, Connects(c) PROVE TokenInvariant'
    BY <1>10 DEF Connects, Goes
  <1>11. ASSUME NEW c \in Conns, Gone(c) PROVE TokenInvariant'
    BY <1>11 DEF Gone
  <1>12. CASE UNCHANGED vars
    BY <1>12 DEF vars
  <1> QED
    BY <1>1, <1>2, <1>3, <1>4, <1>5, <1>6, <1>7, <1>8, <1>9, <1>10, <1>11, <1>12 DEF Next, serve_one

\* Tokens are distinct, never ahead of the counter, and in the hands of the
\* connections whose credentials they stand for.
THEOREM TokensCorrect == Spec => []TokenInvariant
  <1>1. Init => TokenInvariant
    BY DEF Init, TokenInvariant, Isolates, Connected, NoToken
  <1> QED
    BY <1>1, TokenStep, TypeCorrect, PTL DEF Spec

\* Streams of clients that offer credentials only carry the same token exactly
\* when the clients were given the same credentials (Isolation::token_for).
THEOREM IsolationExact == Spec => []CredentialsIsolate
  <1>1. TypeOK /\ TokenInvariant => CredentialsIsolate
    <2> SUFFICES ASSUME TypeOK, TokenInvariant,
                        NEW c \in Conns, NEW d \in Conns,
                        Isolates(c), Connected(c), Connected(d)
                 PROVE  /\ token[c] # NoToken
                        /\ token[c] = token[d] <=> (Isolates(d) /\ wants[c] = wants[d])
      BY DEF CredentialsIsolate
    <2>1. creds[c] = wants[c] /\ creds[c] \in Creds
      BY DEF TokenInvariant, Connected
    <2>2. token[c] = tokens[creds[c]] /\ token[c] # NoToken
      BY <2>1, CredsAssumption DEF TokenInvariant
    <2>3. CASE Isolates(d)
      <3>1. creds[d] = wants[d] /\ creds[d] \in Creds
        BY <2>3 DEF TokenInvariant, Connected
      <3>2. token[d] = tokens[creds[d]]
        BY <3>1, CredsAssumption DEF TokenInvariant
      <3> QED
        BY <2>1, <2>2, <2>3, <3>1, <3>2 DEF TokenInvariant
    <2>4. CASE ~Isolates(d)
      <3>1. creds[d] = NoCreds
        BY <2>4 DEF TokenInvariant
      <3> QED
        BY <2>2, <2>4, <3>1 DEF TokenInvariant
    <2> QED
      BY <2>3, <2>4
  <1> QED
    BY <1>1, TypeCorrect, TokensCorrect, PTL

\* Credentials keep the token they were given first.
THEOREM TokensKept == Spec => TokensStay
  <1>1. TypeOK /\ [Next]_vars => [\A u \in Creds : tokens[u] # NoToken => tokens'[u] = tokens[u]]_vars
    <2> SUFFICES ASSUME TypeOK, Next, NEW u \in Creds, tokens[u] # NoToken
                 PROVE  tokens'[u] = tokens[u]
      OBVIOUS
    <2>1. ASSUME NEW c \in Conns, token_for(c) PROVE tokens'[u] = tokens[u]
      BY <2>1, CredsAssumption DEF token_for, TypeOK
    <2>2. ASSUME NEW c \in Conns, serve_one(c), ~token_for(c) PROVE tokens' = tokens
      BY <2>2 DEF serve_one, Accept, NoAuth, UserPass, NoneAcceptable, ReadCredentials,
                  RejectRequest, ReadRequest, ConnectFails, Connects, Gone
    <2> QED
      BY <2>1, <2>2 DEF Next
  <1> QED
    BY <1>1, TypeCorrect, PTL DEF Spec, TokensStay
-----------------------------------------------------------------------------
\* A request is answered at most once and last, and the relay runs only behind
\* an "ok" (serve_one).
THEOREM AnsweredCorrect == Spec => []AnsweredOnce
  <1>1. Init => AnsweredOnce
    BY DEF Init, AnsweredOnce
  <1>2. TypeOK /\ AnsweredOnce /\ [Next]_vars => AnsweredOnce'
    <2> SUFFICES ASSUME TypeOK, AnsweredOnce, [Next]_vars PROVE AnsweredOnce'
      OBVIOUS
    <2>0. \A c \in Conns : written[c] \in Seq(Messages)
      BY DEF TypeOK
    <2>1. ASSUME NEW c \in Conns, NEW m, Writes(c, m)
          PROVE  /\ \A d \in Conns \ {c} : written'[d] = written[d]
                 /\ written'[c] = Append(written[c], m)
      BY <2>1 DEF Writes, TypeOK
    <2>2. ASSUME NEW c \in Conns, NEW m \in Messages \ Replies, Writes(c, m),
                 pc[c] \in {"hello", "auth"}, \A d \in Conns \ {c} : pc'[d] = pc[d]
          PROVE  AnsweredOnce'
      <3>1. \A i \in 1..Len(written[c]) : written[c][i] \notin Replies
        BY <2>2 DEF AnsweredOnce
      <3>2. /\ Len(written'[c]) = Len(written[c]) + 1
            /\ \A i \in 1..Len(written[c]) : written'[c][i] = written[c][i]
            /\ written'[c][Len(written[c]) + 1] = m
            /\ Len(written[c]) \in Nat
        <4> DEFINE w == written[c]
        <4>1. w \in Seq(Messages) /\ m \in Messages /\ written'[c] = Append(w, m)
          BY <2>0, <2>1, <2>2 DEF Messages
        <4> HIDE DEF w
        <4>2. /\ Len(Append(w, m)) = Len(w) + 1
              /\ \A i \in 1..Len(w) : Append(w, m)[i] = w[i]
              /\ Append(w, m)[Len(w) + 1] = m
              /\ Len(w) \in Nat
          BY <4>1
        <4> QED
          BY <4>1, <4>2 DEF w
      <3>3. ASSUME NEW d \in Conns, NEW i \in 1..Len(written'[d]), written'[d][i] \in Replies
            PROVE  /\ i = Len(written'[d])
                   /\ pc'[d] = "finished" \/ (pc'[d] = "relaying" /\ written'[d][i] = "ok")
        <4>1. CASE d = c
          BY <2>2, <3>1, <3>2, <3>3, <4>1
        <4>2. CASE d # c
          <5>1. written'[d] = written[d] /\ pc'[d] = pc[d]
            BY <2>1, <2>2, <4>2
          <5> QED
            BY <3>3, <5>1 DEF AnsweredOnce
        <4> QED
          BY <4>1, <4>2
      <3> QED
        BY <3>3 DEF AnsweredOnce
    <2>3. ASSUME NEW c \in Conns, NEW m \in Replies, Writes(c, m),
                 pc[c] \in {"request", "connect"}, \A d \in Conns \ {c} : pc'[d] = pc[d],
                 pc'[c] = "finished" \/ (pc'[c] = "relaying" /\ m = "ok")
          PROVE  AnsweredOnce'
      <3>1. \A i \in 1..Len(written[c]) : written[c][i] \notin Replies
        BY <2>3 DEF AnsweredOnce
      <3>2. /\ Len(written'[c]) = Len(written[c]) + 1
            /\ \A i \in 1..Len(written[c]) : written'[c][i] = written[c][i]
            /\ written'[c][Len(written[c]) + 1] = m
            /\ Len(written[c]) \in Nat
        <4> DEFINE w == written[c]
        <4>1. w \in Seq(Messages) /\ m \in Messages /\ written'[c] = Append(w, m)
          BY <2>0, <2>1, <2>3 DEF Messages
        <4> HIDE DEF w
        <4>2. /\ Len(Append(w, m)) = Len(w) + 1
              /\ \A i \in 1..Len(w) : Append(w, m)[i] = w[i]
              /\ Append(w, m)[Len(w) + 1] = m
              /\ Len(w) \in Nat
          BY <4>1
        <4> QED
          BY <4>1, <4>2 DEF w
      <3>3. ASSUME NEW d \in Conns, NEW i \in 1..Len(written'[d]), written'[d][i] \in Replies
            PROVE  /\ i = Len(written'[d])
                   /\ pc'[d] = "finished" \/ (pc'[d] = "relaying" /\ written'[d][i] = "ok")
        <4>1. CASE d = c
          BY <2>3, <3>1, <3>2, <3>3, <4>1
        <4>2. CASE d # c
          <5>1. written'[d] = written[d] /\ pc'[d] = pc[d]
            BY <2>1, <2>3, <4>2
          <5> QED
            BY <3>3, <5>1 DEF AnsweredOnce
        <4> QED
          BY <4>1, <4>2
      <3> QED
        BY <3>3 DEF AnsweredOnce
    <2>4. ASSUME NEW c \in Conns, UNCHANGED written, \A d \in Conns \ {c} : pc'[d] = pc[d],
                 \/ pc[c] \in {"accept", "request", "isolate"}
                 \/ pc'[c] = "finished"
          PROVE  AnsweredOnce'
      BY <2>0, <2>4 DEF AnsweredOnce
    <2>5. ASSUME NEW c \in Conns, NEW from, NEW to, Goes(c, from, to)
          PROVE  pc[c] = from /\ pc'[c] = to /\ \A d \in Conns \ {c} : pc'[d] = pc[d]
      BY <2>5 DEF Goes, TypeOK
    <2>6. {"use_none", "use_userpass", "none_acceptable", "auth_ok"} \subseteq Messages \ Replies
      BY DEF Messages, Replies
    <2>7. ASSUME NEW c \in Conns, NoAuth(c) \/ UserPass(c) \/ NoneAcceptable(c) \/ ReadCredentials(c)
          PROVE  AnsweredOnce'
      BY <2>2, <2>5, <2>6, <2>7 DEF NoAuth, UserPass, NoneAcceptable, ReadCredentials
    <2>8. ASSUME NEW c \in Conns, RejectRequest(c) \/ ConnectFails(c) \/ Connects(c)
          PROVE  AnsweredOnce'
      BY <2>3, <2>5, <2>8 DEF RejectRequest, ConnectFails, Connects, Replies
    <2>9. ASSUME NEW c \in Conns, Accept(c) \/ ReadRequest(c) \/ token_for(c)
          PROVE  AnsweredOnce'
      BY <2>4, <2>5, <2>9 DEF Accept, ReadRequest, token_for
    <2>10. ASSUME NEW c \in Conns, Gone(c) PROVE AnsweredOnce'
      BY <2>4, <2>10 DEF Gone, TypeOK
    <2>11. CASE UNCHANGED vars
      BY <2>11 DEF vars, AnsweredOnce
    <2> QED
      BY <2>7, <2>8, <2>9, <2>10, <2>11 DEF Next, serve_one
  <1> QED
    BY <1>1, <1>2, TypeCorrect, PTL DEF Spec
=============================================================================
