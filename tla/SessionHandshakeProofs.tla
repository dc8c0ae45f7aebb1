----------------------- MODULE SessionHandshakeProofs -----------------------
(***************************************************************************)
(* The start of a session, for any two nodes, any application messages and *)
(* any number of them: the tokens the nodes hold agree once the handshake  *)
(* has settled, they never go backwards, and there are at most three.      *)
(***************************************************************************)
EXTENDS SessionHandshake, TLAPS

\* The types of the state.
Typed ==
    /\ ready \in [Peers -> BOOLEAN] /\ auth \in [Peers -> BOOLEAN] /\ closed \in BOOLEAN
    /\ opening \in [Peers -> {"waiting", "open", "greeted", "drained"}]
    /\ rx \in [Peers -> {"idle", "verify", "reissue", "reply"}]
    /\ key \in [Peers -> [Peers -> Nat]]
    /\ tokens \in [Peers -> Nat] /\ sends \in [Peers -> 0..MaxSends]
    /\ parking \in [Peers -> Msgs \cup {None}]
    /\ drained \in [Peers -> Seq(Msgs)] /\ pipe \in [Peers -> Seq(Msgs)]
    /\ pending \in [Peers -> Seq(Msgs)] /\ wire \in [Peers -> Seq(Msgs)]

\* A message that takes no part in the handshake.
Plain(x) == x.kind \notin {"handshake", "response"}
AllPlain(q) == \A i \in 1..Len(q) : Plain(q[i])

\* Nothing of the handshake is parked, and no Handshake takes the pipe.
Parked ==
    \A n \in Peers : /\ AllPlain(pending[n]) /\ AllPlain(drained[n])
                     /\ parking[n] # None => Plain(parking[n])
                     /\ \A i \in 1..Len(pipe[n]) : pipe[n][i].kind # "handshake"

\* An open channel stays ready until it is closed; before it opens the node has
\* received nothing and made no token.
Opened ==
    \A n \in Peers : /\ opening[n] # "waiting" /\ ~closed => ready[n]
                     /\ opening[n] = "waiting" => tokens[n] = 0 /\ rx[n] = "idle"

\* A sequence of messages has a Handshake, and has at most one.
Has(w) == \E i \in 1..Len(w) : w[i].kind = "handshake"
Once(w) == \A i, j \in 1..Len(w) :
              w[i].kind = "handshake" /\ w[j].kind = "handshake" => i = j

Greeted(n) == opening[n] \in {"greeted", "drained"}

\* A node sends one Handshake.
Greetings ==
    \A n \in Peers : Once(wire[n]) /\ (~Greeted(Other(n)) => ~Has(wire[n]))

\* The Handshake of the peer has not been received by n.
Expected(n) == ~Greeted(Other(n)) \/ Has(wire[n])

\* How many tokens n has made, by what it has received: the first response
\* before the Handshake makes one, the Handshake two.
Stage(n) ==
    \/ /\ Expected(n)
       /\ \/ rx[n] = "idle" /\ ~auth[n] /\ tokens[n] = 0
          \/ rx[n] = "idle" /\ auth[n] /\ tokens[n] = 1
          \/ rx[n] = "reply" /\ auth[n] /\ tokens[n] = 0
    \/ /\ ~Expected(n)
       /\ \/ rx[n] = "verify" /\ tokens[n] \in {1, 2}
          \/ rx[n] = "reissue" /\ auth[n] /\ tokens[n] \in {1, 2}
          \/ rx[n] = "idle" /\ (closed \/ auth[n]) /\ tokens[n] \in {1, 2, 3}

Stages == \A n \in Peers : Stage(n)

\* The responses on the wire w to a node that holds token k, and those behind
\* them in the pipe p of a node that has made t tokens, carry ever newer tokens,
\* all newer than k.
Ordered(w, p, k, t) ==
    /\ k <= t
    /\ \A i \in 1..Len(w) : w[i].kind = "response" => k < w[i].tok /\ w[i].tok <= t
    /\ \A i \in 1..Len(p) : p[i].kind = "response" => k < p[i].tok /\ p[i].tok <= t
    /\ \A i, j \in 1..Len(w) :
          i < j /\ w[i].kind = "response" /\ w[j].kind = "response" => w[i].tok < w[j].tok
    /\ \A i, j \in 1..Len(p) :
          i < j /\ p[i].kind = "response" /\ p[j].kind = "response" => p[i].tok < p[j].tok
    /\ \A i \in 1..Len(w), j \in 1..Len(p) :
          w[i].kind = "response" /\ p[j].kind = "response" => w[i].tok < p[j].tok

\* The newest token has arrived or is under way.
Carries(q, t) == \E i \in 1..Len(q) : q[i].kind = "response" /\ q[i].tok = t
Fresh(w, p, k, t) == k = t \/ Carries(w, t) \/ Carries(p, t)

\* The way of the tokens from m to the other node.
Path(m) ==
    /\ Ordered(wire[Other(m)], pipe[m], key[Other(m)][m], tokens[m])
    /\ key[m][m] <= tokens[m]
    /\ ~closed => /\ Fresh(wire[Other(m)], pipe[m], key[Other(m)][m], tokens[m])
                  /\ key[m][m] = tokens[m]

Paths == \A m \in Peers : Path(m)

\* The inductive invariant.
IInv == Typed /\ Parked /\ Opened /\ Greetings /\ Stages /\ Paths

-----------------------------------------------------------------------------
(* The two nodes, and sequences of messages.                               *)

\* There are two nodes, each the other of the other.
LEMMA Two ==
    ASSUME NEW n \in Peers
    PROVE  /\ Other(n) \in Peers /\ Other(n) # n /\ Other(Other(n)) = n
           /\ Peers = {n, Other(n)}
<1>1. PICK a \in Peers, b \in Peers : a # b /\ Peers = {a, b}
  BY SessionAssumption
<1>2. ASSUME NEW x \in Peers PROVE Other(x) \in Peers /\ Other(x) # x
  <2>1. \E y \in Peers : y # x
    BY <1>1
  <2> QED BY <2>1 DEF Other
<1>3. Other(n) \in Peers /\ Other(n) # n
  BY <1>2
<1>4. Other(Other(n)) \in Peers /\ Other(Other(n)) # Other(n)
  BY <1>2, <1>3
<1> QED BY <1>1, <1>3, <1>4

\* The messages a node makes.
LEMMA Made ==
    ASSUME NEW t \in Nat
    PROVE  /\ \A k \in {"handshake", "response", "command", "unsigned", "text", "goodbye"} :
                 Msg(k, t) \in Msgs /\ Msg(k, t).kind = k /\ Msg(k, t).tok = t
BY DEF Msg, Msgs

\* The first message and the rest.
LEMMA HeadTail ==
    ASSUME NEW s \in Seq(Msgs), s # <<>>
    PROVE  /\ Len(s) \in Nat /\ Len(s) >= 1
           /\ Head(s) = s[1] /\ s[1] \in Msgs /\ s[1].tok \in Nat
           /\ Tail(s) \in Seq(Msgs) /\ Len(Tail(s)) = Len(s) - 1
           /\ \A i \in 1..Len(Tail(s)) : Tail(s)[i] = s[i + 1]
<1>1. Len(s) \in Nat /\ Len(s) >= 1
  OBVIOUS
<1>2. Head(s) = s[1] /\ s[1] \in Msgs
  BY <1>1
<1>3. s[1].tok \in Nat
  BY <1>2 DEF Msgs
<1>4. Tail(s) \in Seq(Msgs) /\ Len(Tail(s)) = Len(s) - 1
  BY <1>1
<1>5. \A i \in 1..Len(Tail(s)) : Tail(s)[i] = s[i + 1]
  BY <1>1, <1>4
<1> QED BY <1>1, <1>2, <1>3, <1>4, <1>5

\* One message more.
LEMMA Appended ==
    ASSUME NEW s \in Seq(Msgs), NEW x \in Msgs
    PROVE  /\ Append(s, x) \in Seq(Msgs) /\ Len(s) \in Nat
           /\ Len(Append(s, x)) = Len(s) + 1
           /\ \A i \in 1..Len(s) : Append(s, x)[i] = s[i]
           /\ Append(s, x)[Len(s) + 1] = x
OBVIOUS

\* The tokens of messages are numbers.
LEMMA Numbers ==
    ASSUME NEW s \in Seq(Msgs)
    PROVE  Len(s) \in Nat /\ \A i \in 1..Len(s) : s[i] \in Msgs /\ s[i].tok \in Nat
<1>1. Len(s) \in Nat /\ \A i \in 1..Len(s) : s[i] \in Msgs
  OBVIOUS
<1> QED BY <1>1 DEF Msgs

\* A Handshake is there exactly when it was sent or is the one added.
LEMMA HandshakeAdded ==
    ASSUME NEW s \in Seq(Msgs), NEW x \in Msgs, Once(s)
    PROVE  /\ x.kind # "handshake" => Once(Append(s, x)) /\ (Has(Append(s, x)) <=> Has(s))
           /\ x.kind = "handshake" /\ ~Has(s) => Once(Append(s, x)) /\ Has(Append(s, x))
<1> DEFINE a == Append(s, x)
<1>1. /\ Len(s) \in Nat /\ Len(a) = Len(s) + 1
      /\ \A i \in 1..Len(s) : a[i] = s[i]
      /\ a[Len(s) + 1] = x
  BY Appended
<1> HIDE DEF a
<1>2. \A i \in 1..Len(a) : i \in 1..Len(s) \/ i = Len(s) + 1
  BY <1>1
<1>3. \A i \in 1..Len(s) : i \in 1..Len(a)
  BY <1>1
<1>4. Len(s) + 1 \in 1..Len(a)
  BY <1>1
<1>5. x.kind # "handshake" => Once(a) /\ (Has(a) <=> Has(s))
  BY <1>1, <1>2, <1>3 DEF Once, Has
<1>6. x.kind = "handshake" /\ ~Has(s) => Once(a) /\ Has(a)
  BY <1>1, <1>2, <1>4 DEF Once, Has
<1> QED BY <1>5, <1>6 DEF a

\* Taking the first message takes the Handshake when that is the one.
LEMMA HandshakeTaken ==
    ASSUME NEW s \in Seq(Msgs), s # <<>>, Once(s)
    PROVE  /\ Once(Tail(s))
           /\ Head(s).kind # "handshake" => (Has(Tail(s)) <=> Has(s))
           /\ Head(s).kind = "handshake" => Has(s) /\ ~Has(Tail(s))
<1> DEFINE u == Tail(s)
<1>1. /\ Len(s) \in Nat /\ Len(s) >= 1 /\ Len(u) = Len(s) - 1 /\ Head(s) = s[1]
      /\ \A i \in 1..Len(u) : u[i] = s[i + 1]
  BY HeadTail
<1> HIDE DEF u
<1>2. \A i \in 1..Len(u) : i + 1 \in 1..Len(s) /\ i + 1 # 1
  BY <1>1
<1>3. \A i \in 1..Len(s) : i = 1 \/ (i - 1 \in 1..Len(u) /\ u[i - 1] = s[i])
  BY <1>1
<1>4. Once(u)
  <2> SUFFICES ASSUME NEW i \in 1..Len(u), NEW j \in 1..Len(u),
                      u[i].kind = "handshake", u[j].kind = "handshake"
               PROVE  i = j
    BY DEF Once
  <2>1. i + 1 = j + 1
    BY <1>1, <1>2 DEF Once
  <2> QED BY <2>1
<1>5. Head(s).kind # "handshake" => (Has(u) <=> Has(s))
  BY <1>1, <1>2, <1>3 DEF Has
<1>6. Head(s).kind = "handshake" => Has(s) /\ ~Has(u)
  <2>1. 1 \in 1..Len(s)
    BY <1>1
  <2> QED BY <1>1, <1>2, <2>1 DEF Has, Once
<1> QED BY <1>4, <1>5, <1>6 DEF u

-----------------------------------------------------------------------------
(* What happens to the tokens under way.                                   *)

\* Messages of other kinds do not matter, neither on the wire ...
LEMMA WireAdds ==
    ASSUME NEW w \in Seq(Msgs), NEW p \in Seq(Msgs), NEW k \in Nat, NEW t \in Nat,
           Ordered(w, p, k, t), NEW x \in Msgs, x.kind # "response"
    PROVE  /\ Ordered(Append(w, x), p, k, t)
           /\ Fresh(w, p, k, t) => Fresh(Append(w, x), p, k, t)
<1> DEFINE a == Append(w, x)
<1>1. /\ Len(w) \in Nat /\ Len(a) = Len(w) + 1
      /\ \A i \in 1..Len(w) : a[i] = w[i]
      /\ a[Len(w) + 1] = x
  BY Appended
<1> HIDE DEF a
<1>2. \A i \in 1..Len(a) : a[i].kind = "response" => i \in 1..Len(w)
  BY <1>1
<1>3. \A i \in 1..Len(w) : i \in 1..Len(a)
  BY <1>1
<1>4. Ordered(a, p, k, t)
  BY <1>1, <1>2 DEF Ordered
<1>5. Carries(w, t) => Carries(a, t)
  BY <1>1, <1>3 DEF Carries
<1> QED BY <1>4, <1>5 DEF a, Fresh

\* ... nor in the pipe, ...
LEMMA PipeAdds ==
    ASSUME NEW w \in Seq(Msgs), NEW p \in Seq(Msgs), NEW k \in Nat, NEW t \in Nat,
           Ordered(w, p, k, t), NEW x \in Msgs, x.kind # "response"
    PROVE  /\ Ordered(w, Append(p, x), k, t)
           /\ Fresh(w, p, k, t) => Fresh(w, Append(p, x), k, t)
<1> DEFINE a == Append(p, x)
<1>1. /\ Len(p) \in Nat /\ Len(a) = Len(p) + 1
      /\ \A i \in 1..Len(p) : a[i] = p[i]
      /\ a[Len(p) + 1] = x
  BY Appended
<1> HIDE DEF a
<1>2. \A i \in 1..Len(a) : a[i].kind = "response" => i \in 1..Len(p)
  BY <1>1
<1>3. \A i \in 1..Len(p) : i \in 1..Len(a)
  BY <1>1
<1>4. Ordered(w, a, k, t)
  BY <1>1, <1>2 DEF Ordered
<1>5. Carries(p, t) => Carries(a, t)
  BY <1>1, <1>3 DEF Carries
<1> QED BY <1>4, <1>5 DEF a, Fresh

\* ... when they are taken off the wire ...
LEMMA WireDrops ==
    ASSUME NEW w \in Seq(Msgs), NEW p \in Seq(Msgs), NEW k \in Nat, NEW t \in Nat,
           Ordered(w, p, k, t), w # <<>>, Head(w).kind # "response"
    PROVE  /\ Ordered(Tail(w), p, k, t)
           /\ Fresh(w, p, k, t) => Fresh(Tail(w), p, k, t)
<1> DEFINE u == Tail(w)
<1>1. /\ Len(w) \in Nat /\ Len(w) >= 1 /\ Len(u) = Len(w) - 1 /\ Head(w) = w[1]
      /\ \A i \in 1..Len(u) : u[i] = w[i + 1]
  BY HeadTail
<1> HIDE DEF u
<1>2. \A i \in 1..Len(u) : i + 1 \in 1..Len(w)
  BY <1>1
<1>3. \A i \in 1..Len(w) : w[i].kind = "response" => i - 1 \in 1..Len(u) /\ u[i - 1] = w[i]
  BY <1>1
<1>4. \A i, j \in 1..Len(u) : i < j => i + 1 < j + 1
  BY <1>1
<1>5. Ordered(u, p, k, t)
  BY <1>1, <1>2, <1>4 DEF Ordered
<1>6. Carries(w, t) => Carries(u, t)
  BY <1>3 DEF Carries
<1> QED BY <1>5, <1>6 DEF u, Fresh

\* ... or out of the pipe.
LEMMA PipeDrops ==
    ASSUME NEW w \in Seq(Msgs), NEW p \in Seq(Msgs), NEW k \in Nat, NEW t \in Nat,
           Ordered(w, p, k, t), p # <<>>, Head(p).kind # "response"
    PROVE  /\ Ordered(w, Tail(p), k, t)
           /\ Fresh(w, p, k, t) => Fresh(w, Tail(p), k, t)
<1> DEFINE u == Tail(p)
<1>1. /\ Len(p) \in Nat /\ Len(p) >= 1 /\ Len(u) = Len(p) - 1 /\ Head(p) = p[1]
      /\ \A i \in 1..Len(u) : u[i] = p[i + 1]
  BY HeadTail
<1> HIDE DEF u
<1>2. \A i \in 1..Len(u) : i + 1 \in 1..Len(p)
  BY <1>1
<1>3. \A i \in 1..Len(p) : p[i].kind = "response" => i - 1 \in 1..Len(u) /\ u[i - 1] = p[i]
  BY <1>1
<1>4. \A i, j \in 1..Len(u) : i < j => i + 1 < j + 1
  BY <1>1
<1>5. Ordered(w, u, k, t)
  BY <1>1, <1>2, <1>4 DEF Ordered
<1>6. Carries(p, t) => Carries(u, t)
  BY <1>3 DEF Carries
<1> QED BY <1>5, <1>6 DEF u, Fresh

\* A response goes from the pipe to the wire.
LEMMA Passes ==
    ASSUME NEW w \in Seq(Msgs), NEW p \in Seq(Msgs), NEW k \in Nat, NEW t \in Nat,
           Ordered(w, p, k, t), p # <<>>, Head(p).kind = "response"
    PROVE  /\ Ordered(Append(w, Head(p)), Tail(p), k, t)
           /\ Fresh(w, p, k, t) => Fresh(Append(w, Head(p)), Tail(p), k, t)
<1> DEFINE u == Tail(p)
           x == Head(p)
           a == Append(w, x)
<1>1. /\ Len(p) \in Nat /\ Len(p) >= 1 /\ Len(u) = Len(p) - 1
      /\ x = p[1] /\ x \in Msgs
      /\ \A i \in 1..Len(u) : u[i] = p[i + 1]
  BY HeadTail
<1>2. /\ Len(w) \in Nat /\ Len(a) = Len(w) + 1
      /\ \A i \in 1..Len(w) : a[i] = w[i]
      /\ a[Len(w) + 1] = x
  BY <1>1, Appended
<1>3. x.kind = "response"
  OBVIOUS
<1> HIDE DEF u, x, a
<1>4. \A i \in 1..Len(u) : i + 1 \in 1..Len(p) /\ 1 < i + 1
  BY <1>1
<1>5. 1 \in 1..Len(p) /\ Len(w) + 1 \in 1..Len(a)
  BY <1>1, <1>2
<1>6. \A i, j \in 1..Len(u) : i < j => i + 1 < j + 1
  BY <1>1
<1>7. \A i \in 1..Len(a) : i \in 1..Len(w) \/ i = Len(w) + 1
  BY <1>2
<1>8. \A i, j \in 1..Len(a) : i < j => i \in 1..Len(w)
  BY <1>2
<1>9. /\ \A i \in 1..Len(a) : a[i].kind = "response" => k < a[i].tok /\ a[i].tok <= t
      /\ \A i \in 1..Len(u) : u[i].kind = "response" => k < u[i].tok /\ u[i].tok <= t
  BY <1>1, <1>2, <1>4, <1>5, <1>7 DEF Ordered
<1>10. \A i, j \in 1..Len(a) :
          i < j /\ a[i].kind = "response" /\ a[j].kind = "response" => a[i].tok < a[j].tok
  BY <1>1, <1>2, <1>3, <1>5, <1>7, <1>8 DEF Ordered
<1>11. \A i, j \in 1..Len(u) :
          i < j /\ u[i].kind = "response" /\ u[j].kind = "response" => u[i].tok < u[j].tok
  BY <1>1, <1>4, <1>6 DEF Ordered
<1>12. \A i \in 1..Len(a), j \in 1..Len(u) :
          a[i].kind = "response" /\ u[j].kind = "response" => a[i].tok < u[j].tok
  BY ZenonT(40), <1>1, <1>2, <1>3, <1>4, <1>5, <1>7 DEF Ordered
<1>13. Ordered(a, u, k, t)
  BY <1>9, <1>10, <1>11, <1>12 DEF Ordered
<1>14. \A i \in 1..Len(p) : i = 1 \/ (i - 1 \in 1..Len(u) /\ u[i - 1] = p[i])
  BY <1>1
<1>15. Carries(p, t) => Carries(a, t) \/ Carries(u, t)
  BY ZenonT(40), <1>1, <1>2, <1>5, <1>14 DEF Carries
<1>16. \A i \in 1..Len(w) : i \in 1..Len(a)
  BY <1>2
<1>17. Carries(w, t) => Carries(a, t)
  BY <1>2, <1>16 DEF Carries
<1> QED BY <1>13, <1>15, <1>17 DEF a, u, x, Fresh

\* A new token is put in the pipe.
LEMMA Issued ==
    ASSUME NEW w \in Seq(Msgs), NEW p \in Seq(Msgs), NEW k \in Nat, NEW t \in Nat,
           Ordered(w, p, k, t)
    PROVE  /\ Ordered(w, Append(p, Msg("response", t + 1)), k, t + 1)
           /\ Fresh(w, Append(p, Msg("response", t + 1)), k, t + 1)
<1> DEFINE x == Msg("response", t + 1)
           a == Append(p, x)
<1>1. x \in Msgs /\ x.kind = "response" /\ x.tok = t + 1
  BY Made
<1>2. /\ Len(p) \in Nat /\ Len(a) = Len(p) + 1
      /\ \A i \in 1..Len(p) : a[i] = p[i]
      /\ a[Len(p) + 1] = x
  BY <1>1, Appended
<1> HIDE DEF x, a
<1>3. \A i \in 1..Len(a) : i \in 1..Len(p) \/ i = Len(p) + 1
  BY <1>2
<1>4. \A i, j \in 1..Len(a) : i < j => i \in 1..Len(p)
  BY <1>2
<1>5. /\ \A i \in 1..Len(w) : w[i].tok \in Nat
      /\ \A i \in 1..Len(p) : p[i].tok \in Nat
  BY Numbers
<1>6. /\ k < t + 1 /\ k <= t + 1
      /\ \A i \in 1..Len(w) : w[i].kind = "response"
            => k < w[i].tok /\ w[i].tok <= t + 1 /\ w[i].tok < t + 1
      /\ \A i \in 1..Len(p) : p[i].kind = "response"
            => k < p[i].tok /\ p[i].tok <= t + 1 /\ p[i].tok < t + 1
  BY <1>5 DEF Ordered
<1>7. \A i \in 1..Len(a) : a[i].kind = "response" => k < a[i].tok /\ a[i].tok <= t + 1
  BY <1>1, <1>2, <1>3, <1>6
<1>8. \A i, j \in 1..Len(a) :
         i < j /\ a[i].kind = "response" /\ a[j].kind = "response" => a[i].tok < a[j].tok
  BY <1>1, <1>2, <1>3, <1>4, <1>6 DEF Ordered
<1>9. \A i \in 1..Len(w), j \in 1..Len(a) :
         w[i].kind = "response" /\ a[j].kind = "response" => w[i].tok < a[j].tok
  BY <1>1, <1>2, <1>3, <1>6 DEF Ordered
<1>10. Ordered(w, a, k, t + 1)
  BY <1>6, <1>7, <1>8, <1>9 DEF Ordered
<1>11. Len(p) + 1 \in 1..Len(a)
  BY <1>2
<1>12. Carries(a, t + 1)
  BY <1>1, <1>2, <1>11 DEF Carries
<1> QED BY <1>10, <1>12 DEF a, x, Fresh

\* The first token of all may go straight to the wire: none is under way.
LEMMA Replied ==
    ASSUME NEW w \in Seq(Msgs), NEW p \in Seq(Msgs), NEW k \in Nat, Ordered(w, p, k, 0)
    PROVE  /\ Ordered(Append(w, Msg("response", 1)), p, k, 1)
           /\ Fresh(Append(w, Msg("response", 1)), p, k, 1)
<1> DEFINE x == Msg("response", 1)
           a == Append(w, x)
<1>1. x \in Msgs /\ x.kind = "response" /\ x.tok = 1
  BY Made
<1>2. /\ Len(w) \in Nat /\ Len(a) = Len(w) + 1
      /\ \A i \in 1..Len(w) : a[i] = w[i]
      /\ a[Len(w) + 1] = x
  BY <1>1, Appended
<1> HIDE DEF x, a
<1>3. /\ \A i \in 1..Len(w) : w[i].tok \in Nat
      /\ \A i \in 1..Len(p) : p[i].tok \in Nat
  BY Numbers
<1>4. /\ k = 0
      /\ \A i \in 1..Len(w) : w[i].kind # "response"
      /\ \A i \in 1..Len(p) : p[i].kind # "response"
  BY <1>3 DEF Ordered
<1>5. \A i \in 1..Len(a) : a[i].kind = "response" => i = Len(w) + 1
  BY <1>2, <1>4
<1>6. Ordered(a, p, k, 1)
  BY <1>1, <1>2, <1>4, <1>5 DEF Ordered
<1>7. Len(w) + 1 \in 1..Len(a)
  BY <1>2
<1>8. Carries(a, 1)
  BY <1>1, <1>2, <1>7 DEF Carries
<1> QED BY <1>6, <1>8 DEF a, x, Fresh

\* A response is received: its token is newer than the one it replaces.
LEMMA Taken ==
    ASSUME NEW w \in Seq(Msgs), NEW p \in Seq(Msgs), NEW k \in Nat, NEW t \in Nat,
           Ordered(w, p, k, t), w # <<>>, Head(w).kind = "response"
    PROVE  /\ k < Head(w).tok /\ Head(w).tok \in Nat
           /\ Ordered(Tail(w), p, Head(w).tok, t)
           /\ Fresh(w, p, k, t) => Fresh(Tail(w), p, Head(w).tok, t)
<1> DEFINE u == Tail(w)
           x == Head(w)
<1>1. /\ Len(w) \in Nat /\ Len(w) >= 1 /\ Len(u) = Len(w) - 1
      /\ x = w[1] /\ x.tok \in Nat
      /\ \A i \in 1..Len(u) : u[i] = w[i + 1]
  BY HeadTail
<1>2. x.kind = "response"
  OBVIOUS
<1> HIDE DEF u, x
<1>3. \A i \in 1..Len(u) : i + 1 \in 1..Len(w) /\ 1 < i + 1
  BY <1>1
<1>4. 1 \in 1..Len(w)
  BY <1>1
<1>5. \A i, j \in 1..Len(u) : i < j => i + 1 < j + 1
  BY <1>1
<1>6. k < x.tok /\ x.tok <= t
  BY <1>1, <1>2, <1>4 DEF Ordered
<1>7. /\ \A i \in 1..Len(u) : u[i].kind = "response" => x.tok < u[i].tok /\ u[i].tok <= t
      /\ \A i \in 1..Len(p) : p[i].kind = "response" => x.tok < p[i].tok /\ p[i].tok <= t
  BY <1>1, <1>2, <1>3, <1>4 DEF Ordered
<1>8. \A i, j \in 1..Len(u) :
         i < j /\ u[i].kind = "response" /\ u[j].kind = "response" => u[i].tok < u[j].tok
  BY <1>1, <1>3, <1>5 DEF Ordered
<1>9. \A i \in 1..Len(u), j \in 1..Len(p) :
         u[i].kind = "response" /\ p[j].kind = "response" => u[i].tok < p[j].tok
  BY <1>1, <1>3 DEF Ordered
<1>10. Ordered(u, p, x.tok, t)
  BY <1>6, <1>7, <1>8, <1>9 DEF Ordered
<1>11. \A i \in 1..Len(w) : i = 1 \/ (i - 1 \in 1..Len(u) /\ u[i - 1] = w[i])
  BY <1>1
<1>12. Carries(w, t) => x.tok = t \/ Carries(u, t)
  BY <1>1, <1>11 DEF Carries
<1>13. k = t => FALSE
  BY <1>1, <1>6
<1> QED BY <1>1, <1>6, <1>10, <1>12, <1>13 DEF u, x, Fresh

\* Forgetting the token held leaves those under way in order.
LEMMA Forgotten ==
    ASSUME NEW w \in Seq(Msgs), NEW p \in Seq(Msgs), NEW k \in Nat, NEW t \in Nat,
           Ordered(w, p, k, t)
    PROVE  Ordered(w, p, 0, t)
<1>1. /\ \A i \in 1..Len(w) : w[i].tok \in Nat
      /\ \A i \in 1..Len(p) : p[i].tok \in Nat
  BY Numbers
<1>2. /\ 0 <= t
      /\ \A i \in 1..Len(w) : w[i].kind = "response" => 0 < w[i].tok
      /\ \A i \in 1..Len(p) : p[i].kind = "response" => 0 < p[i].tok
  BY <1>1 DEF Ordered
<1> QED BY <1>2 DEF Ordered

-----------------------------------------------------------------------------
\* Nothing has happened yet.
LEMMA InitIInv == Init => IInv
<1> SUFFICES ASSUME Init PROVE IInv
  OBVIOUS
<1>1. Typed
  <2>1. 0 \in 0..MaxSends
    BY SessionAssumption
  <2>2. key \in [Peers -> [Peers -> Nat]] /\ tokens \in [Peers -> Nat]
    BY DEF Init
  <2>3. sends \in [Peers -> 0..MaxSends]
    BY <2>1 DEF Init
  <2>4. /\ drained \in [Peers -> Seq(Msgs)] /\ pipe \in [Peers -> Seq(Msgs)]
        /\ pending \in [Peers -> Seq(Msgs)] /\ wire \in [Peers -> Seq(Msgs)]
    BY DEF Init
  <2>5. ready \in [Peers -> BOOLEAN] /\ auth \in [Peers -> BOOLEAN] /\ closed \in BOOLEAN
    BY DEF Init
  <2>6. /\ opening \in [Peers -> {"waiting", "open", "greeted", "drained"}]
        /\ rx \in [Peers -> {"idle", "verify", "reissue", "reply"}]
        /\ parking \in [Peers -> Msgs \cup {None}]
    BY DEF Init
  <2> QED BY <2>2, <2>3, <2>4, <2>5, <2>6 DEF Typed
<1>2. \A n \in Peers : /\ Other(n) \in Peers
                       /\ Len(wire[n]) = 0 /\ Len(pipe[n]) = 0
                       /\ Len(pending[n]) = 0 /\ Len(drained[n]) = 0
  BY Two DEF Init
<1>3. \A i \in 1..0 : FALSE
  OBVIOUS
<1>4. Parked
  BY <1>2, <1>3 DEF Init, Parked, AllPlain
<1>5. Opened
  BY DEF Init, Opened
<1>6. Greetings
  BY <1>2, <1>3 DEF Init, Greetings, Once, Has
<1>7. Stages
  <2>1. \A n \in Peers : Expected(n)
    BY <1>2 DEF Init, Expected, Greeted
  <2> QED BY <2>1 DEF Init, Stages, Stage
<1>8. Paths
  <2> SUFFICES ASSUME NEW m \in Peers PROVE Path(m)
    BY DEF Paths
  <2>1. /\ key[m][m] = 0 /\ key[Other(m)][m] = 0 /\ tokens[m] = 0
        /\ Len(wire[Other(m)]) = 0 /\ Len(pipe[m]) = 0
    BY <1>2 DEF Init
  <2> QED BY <1>3, <2>1 DEF Path, Ordered, Fresh
<1> QED BY <1>1, <1>4, <1>5, <1>6, <1>7, <1>8 DEF IInv

\* What the pipe sends is its first message, or a command made from it.
LEMMA SignedFacts ==
    ASSUME IInv, NEW n \in Peers, Signable(n)
    PROVE  /\ pipe[n] \in Seq(Msgs) /\ pipe[n] # <<>>
           /\ Signed(n) \in Msgs /\ Signed(n).kind # "handshake"
           /\ Head(pipe[n]).kind = "response" => Signed(n) = Head(pipe[n])
           /\ Head(pipe[n]).kind # "response" => Signed(n).kind # "response"
<1>1. pipe[n] \in Seq(Msgs) /\ pipe[n] # <<>> /\ key[n][Other(n)] \in Nat
  BY Two DEF IInv, Typed, Signable
<1>2. /\ Head(pipe[n]) = pipe[n][1] /\ pipe[n][1] \in Msgs
      /\ Len(pipe[n]) \in Nat /\ Len(pipe[n]) >= 1
  BY <1>1, HeadTail
<1>3. 1 \in 1..Len(pipe[n])
  BY <1>2
<1>4. Head(pipe[n]).kind # "handshake"
  BY <1>2, <1>3 DEF IInv, Parked
<1>5. /\ Msg("command", key[n][Other(n)]) \in Msgs
      /\ Msg("command", key[n][Other(n)]).kind = "command"
  BY <1>1, Made
<1> QED BY <1>1, <1>2, <1>4, <1>5 DEF Signed

\* Where the channel is not ready no response is in the pipe.
LEMMA NoResponse ==
    ASSUME IInv, NEW n \in Peers, ~closed, ~ready[n], pipe[n] # <<>>
    PROVE  Head(pipe[n]).kind # "response"
<1>1. tokens[n] = 0
  BY DEF IInv, Opened
<1>2. /\ pipe[n] \in Seq(Msgs) /\ key[Other(n)][n] \in Nat
  BY Two DEF IInv, Typed
<1>3. /\ Head(pipe[n]) = pipe[n][1] /\ pipe[n][1].tok \in Nat
      /\ Len(pipe[n]) \in Nat /\ Len(pipe[n]) >= 1
  BY <1>2, HeadTail
<1>4. 1 \in 1..Len(pipe[n])
  BY <1>3
<1>5. Ordered(wire[Other(n)], pipe[n], key[Other(n)][n], 0)
  BY <1>1 DEF IInv, Paths, Path
<1>6. ~(key[Other(n)][n] < pipe[n][1].tok /\ pipe[n][1].tok <= 0)
  BY <1>2, <1>3
<1> QED BY <1>3, <1>4, <1>5, <1>6 DEF Ordered

\* The types are kept.
LEMMA TypedStep == ASSUME IInv, Next PROVE Typed'
<1>1. Typed
  BY DEF IInv
<1>2. \A q \in Seq(Msgs), x \in Msgs : Append(q, x) \in Seq(Msgs)
  BY Appended
<1>3. \A q \in Seq(Msgs) : q # <<>> => Tail(q) \in Seq(Msgs) /\ Head(q) \in Msgs
                                       /\ Head(q).tok \in Nat
  BY HeadTail
<1>4. \A x \in Peers : Other(x) \in Peers
  BY Two
<1>5. \A t \in Nat : /\ Msg("response", t) \in Msgs /\ Msg("handshake", t) \in Msgs
                     /\ \A k \in AppKinds : Msg(k, t) \in Msgs
  BY Made, SessionAssumption
<1>6. ASSUME NEW n \in Peers, OpenChannel(n) PROVE Typed'
  BY <1>1, <1>6 DEF OpenChannel, Typed
<1>7. ASSUME NEW n \in Peers, NEW k \in AppKinds, AppSend(n, k) PROVE Typed'
  <2>1. sends[n] + 1 \in 0..MaxSends
    <3>1. sends[n] \in 0..MaxSends /\ sends[n] < MaxSends
      BY <1>1, <1>7 DEF AppSend, Typed
    <3>2. MaxSends \in Nat
      BY SessionAssumption
    <3> QED BY <3>1, <3>2
  <2>2. Append(pipe[n], Msg(k, 0)) \in Seq(Msgs)
    BY <1>1, <1>2, <1>5 DEF Typed
  <2> QED BY <1>1, <1>7, <2>1, <2>2 DEF AppSend, Typed
<1>8. ASSUME NEW n \in Peers, Greet(n) PROVE Typed'
  <2>1. Append(wire[Other(n)], Msg("handshake", 0)) \in Seq(Msgs)
    BY <1>1, <1>2, <1>4, <1>5 DEF Typed
  <2> QED BY <1>1, <1>8, <2>1 DEF Greet, Transmit, Typed
<1>9. ASSUME NEW n \in Peers, Drain(n) PROVE Typed'
  BY <1>1, <1>9 DEF Drain, Typed
<1>10. ASSUME NEW n \in Peers, SendDrained(n) PROVE Typed'
  <2>1. drained[n] \in Seq(Msgs) /\ drained[n] # <<>> /\ wire[Other(n)] \in Seq(Msgs)
    BY <1>1, <1>4, <1>10 DEF SendDrained, Typed
  <2>2. Tail(drained[n]) \in Seq(Msgs) /\ Append(wire[Other(n)], Head(drained[n])) \in Seq(Msgs)
    BY <1>2, <1>3, <2>1
  <2> QED BY <1>1, <1>10, <2>2 DEF SendDrained, Transmit, Typed
<1>11. ASSUME NEW n \in Peers, PipeSend(n) PROVE Typed'
  <2>1. Tail(pipe[n]) \in Seq(Msgs) /\ Signed(n) \in Msgs /\ wire[Other(n)] \in Seq(Msgs)
    BY <1>1, <1>3, <1>4, <1>11, SignedFacts DEF PipeSend, Typed
  <2>2. Append(wire[Other(n)], Signed(n)) \in Seq(Msgs)
    BY <1>2, <2>1
  <2> QED BY <1>1, <1>11, <2>1, <2>2 DEF PipeSend, Transmit, Typed
<1>12. ASSUME NEW n \in Peers, PipeStage(n) PROVE Typed'
  <2>1. Tail(pipe[n]) \in Seq(Msgs) /\ Signed(n) \in Msgs
    BY <1>3, <1>12, SignedFacts DEF PipeStage
  <2> QED BY <1>1, <1>12, <2>1 DEF PipeStage, Typed
<1>13. ASSUME NEW n \in Peers, PipePark(n) PROVE Typed'
  <2>1. parking[n] \in Msgs /\ pending[n] \in Seq(Msgs)
    BY <1>1, <1>13 DEF PipePark, Typed
  <2>2. Append(pending[n], parking[n]) \in Seq(Msgs)
    BY <1>2, <2>1
  <2> QED BY <1>1, <1>13, <2>2 DEF PipePark, Typed
<1>14. ASSUME NEW n \in Peers, PipeTimeout(n) PROVE Typed'
  <2>1. Tail(pipe[n]) \in Seq(Msgs)
    BY <1>1, <1>3, <1>14 DEF PipeTimeout, Typed
  <2> QED BY <1>1, <1>14, <2>1 DEF PipeTimeout, Typed
<1>15. ASSUME NEW n \in Peers, RxHandshake(n) PROVE Typed'
  <2>1. tokens[n] + 1 \in Nat /\ wire[n] # <<>> /\ wire[n] \in Seq(Msgs) /\ pipe[n] \in Seq(Msgs)
    BY <1>1, <1>15 DEF RxHandshake, Incoming, Typed
  <2>2. Tail(wire[n]) \in Seq(Msgs) /\ Append(pipe[n], Msg("response", tokens[n] + 1)) \in Seq(Msgs)
    BY <1>2, <1>3, <1>5, <2>1
  <2> QED BY <1>1, <1>15, <2>1, <2>2 DEF RxHandshake, IssueToken, NewToken, Consume, Goto, Typed
<1>16. ASSUME NEW n \in Peers, RxReissue(n) PROVE Typed'
  <2>1. tokens[n] + 1 \in Nat /\ pipe[n] \in Seq(Msgs)
    BY <1>1 DEF Typed
  <2>2. Append(pipe[n], Msg("response", tokens[n] + 1)) \in Seq(Msgs)
    BY <1>2, <1>5, <2>1
  <2> QED BY <1>1, <1>16, <2>1, <2>2 DEF RxReissue, IssueToken, NewToken, Goto, Typed
<1>17. ASSUME NEW n \in Peers, RxVerified(n) \/ RxRefused(n) PROVE Typed'
  BY <1>1, <1>17 DEF RxVerified, RxRefused, Goto, Typed
<1>18. ASSUME NEW n \in Peers, RxResponse(n) PROVE Typed'
  <2>1. wire[n] # <<>> /\ wire[n] \in Seq(Msgs)
    BY <1>1, <1>18 DEF RxResponse, Incoming, Typed
  <2>2. Tail(wire[n]) \in Seq(Msgs) /\ Head(wire[n]).tok \in Nat
    BY <1>3, <2>1
  <2> QED BY <1>1, <1>18, <2>2 DEF RxResponse, Consume, Goto, Typed
<1>19. ASSUME NEW n \in Peers, RxReply(n) PROVE Typed'
  <2>1. tokens[n] + 1 \in Nat /\ wire[Other(n)] \in Seq(Msgs)
    BY <1>1, <1>4 DEF Typed
  <2>2. Append(wire[Other(n)], Msg("response", tokens[n] + 1)) \in Seq(Msgs)
    BY <1>2, <1>5, <2>1
  <2> QED BY <1>1, <1>19, <2>1, <2>2 DEF RxReply, NewToken, Transmit, Goto, Typed
<1>20. ASSUME NEW n \in Peers, RxMessage(n) \/ RxGoodbye(n) PROVE Typed'
  <2>1. Tail(wire[n]) \in Seq(Msgs)
    BY <1>1, <1>3, <1>20 DEF RxMessage, RxGoodbye, Incoming, Typed
  <2>2. wire' \in [Peers -> Seq(Msgs)]
    BY <1>1, <1>20, <2>1 DEF RxMessage, RxGoodbye, Consume, Typed
  <2>3. key' \in [Peers -> [Peers -> Nat]]
    <3>1. key' = key \/ key' = [key EXCEPT ![n] = [r \in Peers |-> 0]]
      BY <1>20 DEF RxMessage, RxGoodbye
    <3>2. [r \in Peers |-> 0] \in [Peers -> Nat]
      OBVIOUS
    <3> QED BY <1>1, <3>1, <3>2 DEF Typed
  <2>4. ready' \in [Peers -> BOOLEAN] /\ closed' \in BOOLEAN
    <3>1. \/ ready' = ready /\ closed' = closed
          \/ ready' = [m \in Peers |-> FALSE] /\ closed' = TRUE
      BY <1>20, Zenon DEF RxMessage, RxGoodbye
    <3>2. ready \in [Peers -> BOOLEAN] /\ closed \in BOOLEAN
      BY <1>1 DEF Typed
    <3> QED BY <3>1, <3>2, Zenon
  <2>5. UNCHANGED <<opening, drained, auth, pipe, parking, pending, rx, tokens, sends>>
    BY <1>20 DEF RxMessage, RxGoodbye
  <2> QED BY <1>1, <2>2, <2>3, <2>4, <2>5 DEF Typed
<1>21. ASSUME NEW n \in Peers, OnClose(n) PROVE Typed'
  BY <1>1, <1>21 DEF OnClose, Typed
<1> QED BY <1>6, <1>7, <1>8, <1>9, <1>10, <1>11, <1>12, <1>13, <1>14, <1>15, <1>16,
           <1>17, <1>18, <1>19, <1>20, <1>21 DEF Next, OnOpenTask, PipeTask, RxTask


\* Plain messages stay plain when one is added or taken.
LEMMA PlainSeq ==
    ASSUME NEW q \in Seq(Msgs)
    PROVE  /\ \A x \in Msgs : AllPlain(q) /\ Plain(x) => AllPlain(Append(q, x))
           /\ AllPlain(q) /\ q # <<>> => AllPlain(Tail(q)) /\ Plain(Head(q))
<1>1. ASSUME NEW x \in Msgs, AllPlain(q), Plain(x) PROVE AllPlain(Append(q, x))
  <2>1. /\ Len(q) \in Nat /\ Len(Append(q, x)) = Len(q) + 1
        /\ \A i \in 1..Len(q) : Append(q, x)[i] = q[i]
        /\ Append(q, x)[Len(q) + 1] = x
    BY Appended
  <2>2. \A i \in 1..Len(Append(q, x)) : i \in 1..Len(q) \/ i = Len(q) + 1
    BY <2>1
  <2> QED BY <1>1, <2>1, <2>2 DEF AllPlain
<1>2. ASSUME AllPlain(q), q # <<>> PROVE AllPlain(Tail(q)) /\ Plain(Head(q))
  <2>1. /\ Len(q) \in Nat /\ Len(q) >= 1 /\ Head(q) = q[1] /\ Len(Tail(q)) = Len(q) - 1
        /\ \A i \in 1..Len(Tail(q)) : Tail(q)[i] = q[i + 1]
    BY <1>2, HeadTail
  <2>2. 1 \in 1..Len(q) /\ \A i \in 1..Len(Tail(q)) : i + 1 \in 1..Len(q)
    BY <2>1
  <2> QED BY <1>2, <2>1, <2>2 DEF AllPlain
<1> QED BY <1>1, <1>2

\* The pipe takes no Handshake.
LEMMA PipeSeq ==
    ASSUME NEW q \in Seq(Msgs), \A i \in 1..Len(q) : q[i].kind # "handshake"
    PROVE  /\ \A x \in Msgs : x.kind # "handshake" =>
                 \A i \in 1..Len(Append(q, x)) : Append(q, x)[i].kind # "handshake"
           /\ q # <<>> => \A i \in 1..Len(Tail(q)) : Tail(q)[i].kind # "handshake"
<1>1. ASSUME NEW x \in Msgs, x.kind # "handshake",
             NEW i \in 1..Len(Append(q, x))
      PROVE  Append(q, x)[i].kind # "handshake"
  <2>1. /\ Len(q) \in Nat /\ Len(Append(q, x)) = Len(q) + 1
        /\ \A j \in 1..Len(q) : Append(q, x)[j] = q[j]
        /\ Append(q, x)[Len(q) + 1] = x
    BY Appended
  <2>2. i \in 1..Len(q) \/ i = Len(q) + 1
    BY <2>1
  <2> QED BY <1>1, <2>1, <2>2
<1>2. ASSUME q # <<>>, NEW i \in 1..Len(Tail(q)) PROVE Tail(q)[i].kind # "handshake"
  <2>1. /\ Len(q) \in Nat /\ Len(q) >= 1 /\ Len(Tail(q)) = Len(q) - 1
        /\ Tail(q)[i] = q[i + 1]
    BY <1>2, HeadTail
  <2>2. i + 1 \in 1..Len(q)
    BY <2>1
  <2> QED BY <2>1, <2>2
<1> QED BY <1>1, <1>2

\* What is parked, drained or in the pipe.
LEMMA ParkedStep == ASSUME IInv, Next PROVE Parked'
<1>1. Typed /\ Parked
  BY DEF IInv
<1>2. \A n \in Peers : pending[n] \in Seq(Msgs) /\ drained[n] \in Seq(Msgs)
                       /\ pipe[n] \in Seq(Msgs)
  BY <1>1 DEF Typed
<1>3. ASSUME UNCHANGED <<pending, drained, parking>>, NEW n \in Peers,
             \/ pipe' = pipe
             \/ \E x \in Msgs : /\ x.kind # "handshake"
                                /\ pipe' = [pipe EXCEPT ![n] = Append(@, x)]
             \/ pipe[n] # <<>> /\ pipe' = [pipe EXCEPT ![n] = Tail(@)]
      PROVE  Parked'
  <2>1. ASSUME NEW m \in Peers, NEW i \in 1..Len(pipe'[m]) PROVE pipe'[m][i].kind # "handshake"
    <3>1. CASE m # n \/ pipe' = pipe
      <4>1. pipe'[m] = pipe[m]
        BY <1>1, <1>3, <3>1 DEF Typed
      <4> QED BY <1>1, <2>1, <4>1 DEF Parked
    <3>2. CASE m = n /\ pipe' # pipe
      <4>1. \/ \E x \in Msgs : x.kind # "handshake" /\ pipe'[n] = Append(pipe[n], x)
            \/ pipe[n] # <<>> /\ pipe'[n] = Tail(pipe[n])
        BY <1>1, <1>3, <3>2 DEF Typed
      <4>2. \A j \in 1..Len(pipe[n]) : pipe[n][j].kind # "handshake"
        BY <1>1 DEF Parked
      <4> QED BY <1>2, <2>1, <3>2, <4>1, <4>2, PipeSeq
    <3> QED BY <3>1, <3>2
  <2> QED BY <1>1, <1>3, <2>1 DEF Parked
<1>4. ASSUME NEW n \in Peers, NEW k \in AppKinds, AppSend(n, k) PROVE Parked'
  <2>1. Msg(k, 0) \in Msgs /\ Msg(k, 0).kind # "handshake"
    BY Made, SessionAssumption
  <2> QED BY <1>3, <1>4, <2>1 DEF AppSend
<1>5. ASSUME NEW n \in Peers, RxHandshake(n) \/ RxReissue(n) PROVE Parked'
  <2>1. tokens[n] + 1 \in Nat
    BY <1>1 DEF Typed
  <2>2. /\ Msg("response", tokens[n] + 1) \in Msgs
        /\ Msg("response", tokens[n] + 1).kind # "handshake"
    BY <2>1, Made
  <2> QED BY <1>3, <1>5, <2>2 DEF RxHandshake, RxReissue, IssueToken
<1>6. ASSUME NEW n \in Peers, PipeSend(n) \/ PipeTimeout(n) PROVE Parked'
  BY <1>3, <1>6 DEF PipeSend, PipeTimeout, Signable
<1>7. ASSUME NEW n \in Peers, PipeStage(n), ~closed PROVE Parked'
  <2>1. /\ pipe[n] # <<>> /\ ~ready[n]
        /\ UNCHANGED <<pending, drained>>
        /\ pipe' = [pipe EXCEPT ![n] = Tail(@)]
        /\ parking' = [parking EXCEPT ![n] = Signed(n)]
    BY <1>7 DEF PipeStage, Signable
  <2>2. Plain(Signed(n))
    BY <1>7, <2>1, NoResponse, SignedFacts DEF PipeStage, Plain
  <2>3. \A m \in Peers : parking'[m] # None => Plain(parking'[m])
    BY <1>1, <2>1, <2>2 DEF Typed, Parked
  <2>4. \A m \in Peers : \A i \in 1..Len(pipe'[m]) : pipe'[m][i].kind # "handshake"
    <3> SUFFICES ASSUME NEW m \in Peers, NEW i \in 1..Len(pipe'[m])
                 PROVE  pipe'[m][i].kind # "handshake"
      OBVIOUS
    <3>1. \A j \in 1..Len(pipe[m]) : pipe[m][j].kind # "handshake"
      BY <1>1 DEF Parked
    <3>2. pipe'[m] = IF m = n THEN Tail(pipe[m]) ELSE pipe[m]
      BY <1>1, <2>1 DEF Typed
    <3> QED BY <1>2, <2>1, <3>1, <3>2, PipeSeq
  <2> QED BY <1>1, <2>1, <2>3, <2>4 DEF Parked
<1>8. ASSUME NEW n \in Peers, PipePark(n) PROVE Parked'
  <2>1. /\ parking[n] # None /\ UNCHANGED <<pipe, drained>>
        /\ pending' = [pending EXCEPT ![n] = Append(@, parking[n])]
        /\ parking' = [parking EXCEPT ![n] = None]
    BY <1>8 DEF PipePark
  <2>2. parking[n] \in Msgs /\ Plain(parking[n])
    BY <1>1, <2>1 DEF Typed, Parked
  <2>3. AllPlain(Append(pending[n], parking[n]))
    BY <1>1, <1>2, <2>2, PlainSeq DEF Parked
  <2>4. \A m \in Peers : AllPlain(pending'[m])
    <3> SUFFICES ASSUME NEW m \in Peers PROVE AllPlain(pending'[m])
      OBVIOUS
    <3>1. pending'[m] = IF m = n THEN Append(pending[n], parking[n]) ELSE pending[m]
      BY <1>1, <2>1 DEF Typed
    <3>2. AllPlain(pending[m])
      BY <1>1 DEF Parked
    <3> QED BY <2>3, <3>1, <3>2
  <2>5. \A m \in Peers : parking'[m] # None => Plain(parking'[m])
    BY <1>1, <2>1 DEF Typed, Parked
  <2> QED BY <1>1, <2>1, <2>4, <2>5 DEF Parked
<1>9. ASSUME NEW n \in Peers, Drain(n) PROVE Parked'
  <2>1. /\ UNCHANGED <<pipe, parking>>
        /\ drained' = [drained EXCEPT ![n] = pending[n]]
        /\ pending' = [pending EXCEPT ![n] = <<>>]
    BY <1>9 DEF Drain
  <2>2. AllPlain(<<>>)
    BY DEF AllPlain
  <2>3. ASSUME NEW m \in Peers PROVE AllPlain(pending'[m]) /\ AllPlain(drained'[m])
    <3>1. /\ pending'[m] = IF m = n THEN <<>> ELSE pending[m]
          /\ drained'[m] = IF m = n THEN pending[m] ELSE drained[m]
      BY <1>1, <2>1 DEF Typed
    <3>2. AllPlain(pending[m]) /\ AllPlain(drained[m])
      BY <1>1 DEF Parked
    <3> QED BY <2>2, <3>1, <3>2
  <2> QED BY <1>1, <2>1, <2>3 DEF Parked
<1>10. ASSUME NEW n \in Peers, SendDrained(n) PROVE Parked'
  <2>1. /\ UNCHANGED <<pipe, parking, pending>> /\ drained[n] # <<>>
        /\ drained' = [drained EXCEPT ![n] = Tail(@)]
    BY <1>10 DEF SendDrained
  <2>2. ASSUME NEW m \in Peers PROVE AllPlain(drained'[m])
    <3>1. drained'[m] = IF m = n THEN Tail(drained[m]) ELSE drained[m]
      BY <1>1, <2>1 DEF Typed
    <3>2. AllPlain(drained[m])
      BY <1>1 DEF Parked
    <3> QED BY <1>2, <2>1, <3>1, <3>2, PlainSeq
  <2> QED BY <1>1, <2>1, <2>2 DEF Parked
<1>11. ASSUME NEW n \in Peers,
              \/ OpenChannel(n) \/ Greet(n) \/ RxVerified(n) \/ RxRefused(n)
              \/ RxResponse(n) \/ RxReply(n) \/ RxMessage(n) \/ RxGoodbye(n) \/ OnClose(n)
       PROVE  Parked'
  <2>1. UNCHANGED <<pending, drained, parking, pipe>>
    BY <1>11 DEF OpenChannel, Greet, RxVerified, RxRefused, RxResponse, RxReply,
                 RxMessage, RxGoodbye, OnClose
  <2> QED BY <1>3, <1>11, <2>1
<1> QED BY <1>4, <1>5, <1>6, <1>7, <1>8, <1>9, <1>10, <1>11
        DEF Next, OnOpenTask, PipeTask, RxTask

\* The state of the channel.
LEMMA OpenedStep == ASSUME IInv, Next PROVE Opened'
<1>1. Typed /\ Opened
  BY DEF IInv
<1>2. ASSUME NEW n \in Peers, OpenChannel(n) PROVE Opened'
  <2>1. /\ ~closed' /\ opening[n] = "waiting" /\ UNCHANGED <<tokens, rx>>
        /\ opening' = [opening EXCEPT ![n] = "open"]
        /\ ready' = [ready EXCEPT ![n] = TRUE]
    BY <1>2 DEF OpenChannel
  <2>2. \A m \in Peers : opening'[m] # "waiting" => ready'[m]
    BY <1>1, <1>2, <2>1, Zenon DEF OpenChannel, Opened, Typed
  <2>3. \A m \in Peers : opening'[m] = "waiting" => opening[m] = "waiting"
    BY <1>1, <2>1 DEF Typed
  <2> QED BY <1>1, <2>1, <2>2, <2>3 DEF Opened
<1>3. ASSUME NEW n \in Peers, opening[n] # "waiting", UNCHANGED opening,
             \/ closed'
             \/ UNCHANGED <<ready, closed>>,
             \A m \in Peers : m # n => tokens'[m] = tokens[m] /\ rx'[m] = rx[m]
      PROVE  Opened'
  BY <1>1, <1>3 DEF Opened
<1>4. ASSUME NEW n \in Peers,
             \/ RxHandshake(n) \/ RxVerified(n) \/ RxReissue(n) \/ RxRefused(n)
             \/ RxResponse(n) \/ RxReply(n) \/ RxMessage(n) \/ RxGoodbye(n)
      PROVE  Opened'
  <2>1. opening[n] # "waiting"
    <3>1. rx[n] # "idle" \/ opening[n] # "waiting"
      BY <1>4 DEF RxHandshake, RxVerified, RxReissue, RxRefused, RxResponse, RxReply,
                  RxMessage, RxGoodbye, Incoming
    <3> QED BY <1>1, <3>1 DEF Opened
  <2>2. opening' = opening
    BY <1>4 DEF RxHandshake, RxVerified, RxReissue, RxRefused, RxResponse, RxReply,
                RxMessage, RxGoodbye
  <2>3. closed' \/ (ready' = ready /\ closed' = closed)
    BY <1>4, Zenon DEF RxHandshake, RxVerified, RxReissue, RxRefused, RxResponse,
                       RxReply, RxMessage, RxGoodbye
  <2>4. \A m \in Peers : m # n => tokens'[m] = tokens[m] /\ rx'[m] = rx[m]
    BY <1>1, <1>4 DEF RxHandshake, RxVerified, RxReissue, RxRefused, RxResponse, RxReply,
                      RxMessage, RxGoodbye, IssueToken, NewToken, Goto, Typed
  <2> QED BY <1>3, <2>1, <2>2, <2>3, <2>4
<1>5. ASSUME NEW n \in Peers, Greet(n) \/ Drain(n) PROVE Opened'
  <2>1. /\ UNCHANGED <<ready, closed, tokens, rx>> /\ opening[n] # "waiting"
        /\ \E label \in {"greeted", "drained"} : opening' = [opening EXCEPT ![n] = label]
    BY <1>5 DEF Greet, Drain
  <2>2. \A m \in Peers : opening'[m] = "waiting" <=> opening[m] = "waiting"
    BY <1>1, <2>1 DEF Typed
  <2> QED BY <1>1, <2>1, <2>2 DEF Opened
<1>6. ASSUME UNCHANGED <<opening, ready, closed, tokens, rx>> PROVE Opened'
  BY <1>1, <1>6 DEF Opened
<1>7. ASSUME NEW n \in Peers,
             \/ \E k \in AppKinds : AppSend(n, k)
             \/ SendDrained(n) \/ PipeSend(n) \/ PipeStage(n) \/ PipePark(n)
             \/ PipeTimeout(n) \/ OnClose(n)
      PROVE  Opened'
  <2>1. UNCHANGED <<opening, ready, closed, tokens, rx>>
    BY <1>7 DEF AppSend, SendDrained, PipeSend, PipeStage, PipePark, PipeTimeout, OnClose
  <2> QED BY <1>6, <2>1
<1> QED BY <1>2, <1>4, <1>5, <1>7 DEF Next, OnOpenTask, PipeTask, RxTask


\* The Handshake of each node is sent once, and its receipt is the only step
\* after which it is no longer expected.
LEMMA GreetingsStep ==
    ASSUME IInv, Next
    PROVE  /\ Greetings'
           /\ \A x \in Peers : RxHandshake(x) => Expected(x) /\ ~Expected(x)'
           /\ \A x \in Peers : (Expected(x)' <=> Expected(x)) \/ RxHandshake(x)
<1> DEFINE Goal == /\ Greetings'
                   /\ \A x \in Peers : RxHandshake(x) => Expected(x) /\ ~Expected(x)'
                   /\ \A x \in Peers : (Expected(x)' <=> Expected(x)) \/ RxHandshake(x)
<1>1. Typed /\ Greetings
  BY DEF IInv
<1>2. ASSUME NEW n \in Peers
      PROVE  /\ Other(n) \in Peers /\ Other(n) # n /\ Other(Other(n)) = n
             /\ \A x \in Peers : x = n \/ x = Other(n)
             /\ wire[n] \in Seq(Msgs) /\ Once(wire[n])
             /\ ~Greeted(Other(n)) => ~Has(wire[n])
  <2>1. \A x \in Peers : x = n \/ x = Other(n)
    BY Two
  <2> QED BY <1>1, <2>1, Two DEF Typed, Greetings
<1>3. ASSUME wire' = wire, \A x \in Peers : Greeted(x)' <=> Greeted(x),
             \A x \in Peers : ~RxHandshake(x)
      PROVE  Goal
  BY <1>1, <1>2, <1>3 DEF Greetings, Expected
<1>4. ASSUME NEW n \in Peers, NEW x \in Msgs, x.kind # "handshake", opening' = opening,
             wire' = [wire EXCEPT ![Other(n)] = Append(@, x)],
             \A m \in Peers : ~RxHandshake(m)
      PROVE  Goal
  <2>1. wire'[Other(n)] = Append(wire[Other(n)], x) /\ wire'[n] = wire[n]
    BY <1>1, <1>2, <1>4 DEF Typed
  <2>2. Once(wire'[Other(n)]) /\ (Has(wire'[Other(n)]) <=> Has(wire[Other(n)]))
    BY <1>2, <1>4, <2>1, HandshakeAdded
  <2>3. \A m \in Peers : Once(wire'[m]) /\ (Has(wire'[m]) <=> Has(wire[m]))
    BY <1>2, <2>1, <2>2
  <2>4. \A m \in Peers : Greeted(m)' <=> Greeted(m)
    BY <1>4 DEF Greeted
  <2> QED BY <1>1, <1>2, <1>4, <2>3, <2>4 DEF Greetings, Expected
<1>5. ASSUME NEW n \in Peers, Greet(n) PROVE Goal
  <2>1. /\ wire' = [wire EXCEPT ![Other(n)] = Append(@, Msg("handshake", 0))]
        /\ opening[n] = "open" /\ opening' = [opening EXCEPT ![n] = "greeted"] /\ rx' = rx
    BY <1>5 DEF Greet, Transmit
  <2>2. /\ wire'[Other(n)] = Append(wire[Other(n)], Msg("handshake", 0))
        /\ wire'[n] = wire[n]
    BY <1>1, <1>2, <2>1 DEF Typed
  <2>3. Msg("handshake", 0) \in Msgs /\ Msg("handshake", 0).kind = "handshake"
    BY Made
  <2>4. ~Greeted(n) /\ Greeted(n)' /\ (Greeted(Other(n))' <=> Greeted(Other(n)))
    BY <1>1, <1>2, <2>1 DEF Typed, Greeted
  <2>5. ~Has(wire[Other(n)])
    BY <1>2, <2>4
  <2>6. Once(wire'[Other(n)]) /\ Has(wire'[Other(n)])
    BY <1>2, <2>2, <2>3, <2>5, HandshakeAdded
  <2>7. \A m \in Peers : ~RxHandshake(m)
    BY <1>1, <2>1 DEF RxHandshake, Incoming, Goto, Typed
  <2>8. Greetings'
    BY <1>2, <2>2, <2>4, <2>6 DEF Greetings
  <2>9. \A m \in Peers : Expected(m)' <=> Expected(m)
    BY <1>2, <2>2, <2>4, <2>6 DEF Expected
  <2> QED BY <2>7, <2>8, <2>9
<1>6. ASSUME NEW n \in Peers, RxResponse(n) \/ RxMessage(n) \/ RxGoodbye(n)
      PROVE  Goal
  <2>1. /\ wire' = [wire EXCEPT ![n] = Tail(@)] /\ opening' = opening
        /\ wire[n] # <<>> /\ Head(wire[n]).kind # "handshake"
        /\ \A m \in Peers : m # n => rx'[m] = rx[m]
        /\ rx[n] = "idle"
    BY <1>1, <1>6 DEF RxResponse, RxMessage, RxGoodbye, Incoming, Consume, Goto, Typed
  <2>2. wire'[n] = Tail(wire[n]) /\ wire'[Other(n)] = wire[Other(n)]
    BY <1>1, <1>2, <2>1 DEF Typed
  <2>3. Once(wire'[n]) /\ (Has(wire'[n]) <=> Has(wire[n]))
    BY <1>2, <2>1, <2>2, HandshakeTaken
  <2>4. \A m \in Peers : Greeted(m)' <=> Greeted(m)
    BY <2>1 DEF Greeted
  <2>5. \A m \in Peers : ~RxHandshake(m)
    <3>1. ~RxHandshake(n)
      BY <2>1 DEF RxHandshake, Incoming
    <3>2. \A m \in Peers : m # n => ~RxHandshake(m)
      BY <1>1, <2>1 DEF RxHandshake, Incoming, Goto, Typed
    <3> QED BY <3>1, <3>2
  <2> QED BY <1>2, <2>2, <2>3, <2>4, <2>5 DEF Greetings, Expected
<1>7. ASSUME NEW n \in Peers, RxHandshake(n) PROVE Goal
  <2>1. /\ wire' = [wire EXCEPT ![n] = Tail(@)] /\ opening' = opening
        /\ wire[n] # <<>> /\ Head(wire[n]).kind = "handshake"
        /\ rx' = [rx EXCEPT ![n] = "verify"]
    BY <1>7 DEF RxHandshake, Incoming, Consume, Goto
  <2>2. wire'[n] = Tail(wire[n]) /\ wire'[Other(n)] = wire[Other(n)]
    BY <1>1, <1>2, <2>1 DEF Typed
  <2>3. Once(wire'[n]) /\ Has(wire[n]) /\ ~Has(wire'[n])
    BY <1>2, <2>1, <2>2, HandshakeTaken
  <2>4. \A m \in Peers : Greeted(m)' <=> Greeted(m)
    BY <2>1 DEF Greeted
  <2>5. Greeted(Other(n)) /\ Other(n) \in Peers
    BY <1>2, <2>3
  <2>6. Greetings'
    BY <1>2, <2>2, <2>3, <2>4 DEF Greetings
  <2>7. Expected(n) /\ ~Expected(n)' /\ (Expected(Other(n))' <=> Expected(Other(n)))
    BY <1>2, <2>2, <2>3, <2>4, <2>5 DEF Expected
  <2>8. ~RxHandshake(Other(n))
    BY <1>1, <1>2, <2>1 DEF RxHandshake, Incoming, Goto, Typed
  <2> QED BY <1>2, <1>7, <2>6, <2>7, <2>8
<1>8. ASSUME NEW n \in Peers, SendDrained(n) PROVE Goal
  <2>1. /\ drained[n] # <<>> /\ opening' = opening /\ rx' = rx
        /\ wire' = [wire EXCEPT ![Other(n)] = Append(@, Head(drained[n]))]
    BY <1>8 DEF SendDrained, Transmit
  <2>2. drained[n] \in Seq(Msgs) /\ AllPlain(drained[n])
    BY <1>1 DEF IInv, Typed, Parked
  <2>3. Head(drained[n]) \in Msgs /\ Head(drained[n]).kind # "handshake"
    BY <2>1, <2>2, HeadTail, PlainSeq DEF Plain
  <2>4. \A m \in Peers : ~RxHandshake(m)
    BY <1>1, <2>1 DEF RxHandshake, Incoming, Goto, Typed
  <2> QED BY <1>4, <2>1, <2>3, <2>4
<1>9. ASSUME NEW n \in Peers, PipeSend(n) PROVE Goal
  <2>1. /\ Signable(n) /\ opening' = opening /\ rx' = rx
        /\ wire' = [wire EXCEPT ![Other(n)] = Append(@, Signed(n))]
    BY <1>9 DEF PipeSend, Transmit
  <2>2. \A m \in Peers : ~RxHandshake(m)
    BY <1>1, <2>1 DEF RxHandshake, Incoming, Goto, Typed
  <2> QED BY <1>4, <2>1, <2>2, SignedFacts
<1>10. ASSUME NEW n \in Peers, RxReply(n) PROVE Goal
  <2>1. /\ opening' = opening /\ rx[n] = "reply" /\ tokens[n] + 1 \in Nat
        /\ rx' = [rx EXCEPT ![n] = "idle"]
        /\ wire' = [wire EXCEPT ![Other(n)] = Append(@, Msg("response", tokens[n] + 1))]
    BY <1>1, <1>10 DEF RxReply, Transmit, Goto, Typed
  <2>2. /\ Msg("response", tokens[n] + 1) \in Msgs
        /\ Msg("response", tokens[n] + 1).kind # "handshake"
    BY <2>1, Made
  <2>3. \A m \in Peers : ~RxHandshake(m)
    BY <1>1, <2>1 DEF RxHandshake, Incoming, Goto, Typed
  <2> QED BY <1>4, <2>1, <2>2, <2>3
<1>11. ASSUME NEW n \in Peers,
              \/ OpenChannel(n) \/ (\E k \in AppKinds : AppSend(n, k)) \/ Drain(n)
              \/ PipeStage(n) \/ PipePark(n) \/ PipeTimeout(n)
              \/ RxVerified(n) \/ RxReissue(n) \/ RxRefused(n) \/ OnClose(n)
       PROVE  Goal
  <2>1. wire' = wire
    BY <1>11 DEF OpenChannel, AppSend, Drain, PipeStage, PipePark, PipeTimeout,
                 RxVerified, RxReissue, RxRefused, OnClose
  <2>2. \/ opening' = opening
        \/ /\ opening[n] = "waiting" /\ opening' = [opening EXCEPT ![n] = "open"]
        \/ /\ opening[n] = "greeted" /\ opening' = [opening EXCEPT ![n] = "drained"]
    BY <1>11 DEF OpenChannel, AppSend, Drain, PipeStage, PipePark, PipeTimeout,
                 RxVerified, RxReissue, RxRefused, OnClose
  <2>3. \A x \in Peers : Greeted(x)' <=> Greeted(x)
    BY <1>1, <2>2 DEF Greeted, Typed
  <2>4. \/ rx' = rx
        \/ rx' = [rx EXCEPT ![n] = "idle"] \/ rx' = [rx EXCEPT ![n] = "reissue"]
    BY <1>11 DEF OpenChannel, AppSend, Drain, PipeStage, PipePark, PipeTimeout,
                 RxVerified, RxReissue, RxRefused, OnClose, Goto
  <2>5. \A x \in Peers : ~RxHandshake(x)
    BY <1>1, <2>4 DEF RxHandshake, Incoming, Goto, Typed
  <2> QED BY <1>3, <2>1, <2>3, <2>5
<1>12. Goal
  BY <1>5, <1>6, <1>7, <1>8, <1>9, <1>10, <1>11 DEF Next, OnOpenTask, PipeTask, RxTask
<1> QED BY <1>12

\* The tokens made so far.
LEMMA StagesStep == ASSUME IInv, Next PROVE Stages'
<1>1. Typed /\ Stages
  BY DEF IInv
<1>2. \A x \in Peers : (Expected(x)' <=> Expected(x)) \/ RxHandshake(x)
  BY GreetingsStep
<1>3. ASSUME NEW n \in Peers, ~closed, RxTask(n), NEW m \in Peers, m # n
      PROVE  Stage(m)'
  <2>1. rx'[m] = rx[m] /\ auth'[m] = auth[m] /\ tokens'[m] = tokens[m]
    BY <1>1, <1>3 DEF RxTask, RxHandshake, RxVerified, RxReissue, RxRefused, RxResponse,
                 RxReply, RxMessage, RxGoodbye, IssueToken, NewToken, Goto, Typed
  <2>2. ~RxHandshake(m)
    BY <1>1, <1>3, <2>1 DEF RxHandshake, Incoming, Goto, Typed
  <2>3. Stage(m) /\ (Expected(m)' <=> Expected(m))
    BY <1>1, <1>2, <2>2 DEF Stages
  <2> QED BY <1>3, <2>1, <2>3 DEF Stage
<1>4. ASSUME NEW n \in Peers, ~closed, RxTask(n) PROVE Stage(n)'
  <2>1. Stage(n) /\ rx[n] \in {"idle", "verify", "reissue", "reply"} /\ tokens[n] \in Nat
    BY <1>1 DEF Stages, Typed
  <2>2. CASE RxHandshake(n)
    <3>1. /\ Expected(n) /\ ~Expected(n)' /\ rx[n] = "idle"
          /\ rx'[n] = "verify" /\ tokens'[n] = tokens[n] + 1
      BY <1>1, <2>2, GreetingsStep DEF RxHandshake, Incoming, IssueToken, NewToken, Goto, Typed
    <3> QED BY <2>1, <3>1 DEF Stage
  <2>3. ASSUME ~RxHandshake(n) PROVE Expected(n)' <=> Expected(n)
    BY <1>2, <2>3
  <2>4. CASE RxVerified(n)
    <3>1. rx[n] = "verify" /\ rx'[n] = "reissue" /\ auth'[n] /\ tokens'[n] = tokens[n]
      BY <1>1, <2>4 DEF RxVerified, Goto, Typed
    <3>2. ~RxHandshake(n)
      BY <3>1 DEF RxHandshake, Incoming
    <3> QED BY <2>1, <2>3, <3>1, <3>2 DEF Stage
  <2>5. CASE RxReissue(n)
    <3>1. /\ rx[n] = "reissue" /\ rx'[n] = "idle" /\ auth'[n] = auth[n]
          /\ tokens'[n] = tokens[n] + 1
      BY <1>1, <2>5 DEF RxReissue, IssueToken, NewToken, Goto, Typed
    <3>2. ~RxHandshake(n)
      BY <3>1 DEF RxHandshake, Incoming
    <3> QED BY <2>1, <2>3, <3>1, <3>2 DEF Stage
  <2>6. CASE RxRefused(n)
    <3>1. rx[n] = "verify" /\ rx'[n] = "idle" /\ closed' /\ tokens'[n] = tokens[n]
      BY <1>1, <2>6 DEF RxRefused, Goto, Typed
    <3>2. ~RxHandshake(n)
      BY <3>1 DEF RxHandshake, Incoming
    <3> QED BY <2>1, <2>3, <3>1, <3>2 DEF Stage
  <2>7. CASE RxResponse(n)
    <3>1. /\ rx[n] = "idle" /\ rx'[n] = (IF auth[n] THEN "idle" ELSE "reply")
          /\ auth'[n] /\ tokens'[n] = tokens[n]
      BY <1>1, <2>7 DEF RxResponse, Incoming, Goto, Typed
    <3>2. ~RxHandshake(n)
      BY <2>7 DEF RxResponse, RxHandshake, Incoming
    <3> QED BY <1>4, <2>1, <2>3, <3>1, <3>2 DEF Stage
  <2>8. CASE RxReply(n)
    <3>1. /\ rx[n] = "reply" /\ rx'[n] = "idle" /\ auth'[n] = auth[n]
          /\ tokens'[n] = tokens[n] + 1
      BY <1>1, <2>8 DEF RxReply, NewToken, Goto, Typed
    <3>2. ~RxHandshake(n)
      BY <3>1 DEF RxHandshake, Incoming
    <3> QED BY <2>1, <2>3, <3>1, <3>2 DEF Stage
  <2>9. CASE RxMessage(n) \/ RxGoodbye(n)
    <3>1. UNCHANGED <<rx, auth, tokens>>
      BY <2>9 DEF RxMessage, RxGoodbye
    <3>2. ~RxHandshake(n)
      BY <2>9 DEF RxMessage, RxGoodbye, RxHandshake, Incoming
    <3> QED BY <1>4, <2>1, <2>3, <3>1, <3>2 DEF Stage
  <2> QED BY <1>4, <2>2, <2>4, <2>5, <2>6, <2>7, <2>8, <2>9 DEF RxTask
<1>5. ASSUME UNCHANGED <<rx, auth, tokens, closed>> PROVE Stages'
  <2>1. \A x \in Peers : ~RxHandshake(x)
    BY <1>1, <1>5 DEF RxHandshake, Incoming, Goto, Typed
  <2> QED BY <1>1, <1>2, <1>5, <2>1 DEF Stages, Stage
<1>6. ASSUME NEW n \in Peers,
             \/ OpenChannel(n) \/ (\E k \in AppKinds : AppSend(n, k))
             \/ Greet(n) \/ Drain(n) \/ SendDrained(n) \/ PipeSend(n) \/ PipeStage(n)
             \/ PipePark(n) \/ PipeTimeout(n) \/ OnClose(n)
      PROVE  Stages'
  <2>1. UNCHANGED <<rx, auth, tokens, closed>>
    BY <1>6 DEF OpenChannel, AppSend, Greet, Drain, SendDrained, PipeSend, PipeStage,
                PipePark, PipeTimeout, OnClose
  <2> QED BY <1>5, <2>1
<1>7. ASSUME NEW n \in Peers, RxTask(n) PROVE Stages'
  <2>1. ~closed
    BY <1>7 DEF RxTask
  <2> QED BY <1>3, <1>4, <1>7, <2>1 DEF Stages
<1> QED BY <1>6, <1>7 DEF Next, OnOpenTask, PipeTask


\* The tokens under way in both directions.
LEMMA PathsStep == ASSUME IInv, Next PROVE Paths'
<1>1. Typed /\ Paths
  BY DEF IInv
<1>2. ASSUME NEW n \in Peers
      PROVE  /\ Other(n) \in Peers /\ Other(n) # n /\ Other(Other(n)) = n
             /\ \A x \in Peers : x = n \/ x = Other(n)
             /\ wire[n] \in Seq(Msgs) /\ pipe[n] \in Seq(Msgs)
             /\ tokens[n] \in Nat /\ key[n][n] \in Nat
             /\ key[n][Other(n)] \in Nat /\ key[Other(n)][n] \in Nat
             /\ Path(n)
  <2>1. \A x \in Peers : x = n \/ x = Other(n)
    BY Two
  <2> QED BY <1>1, <2>1, Two DEF Typed, Paths
<1>3. ASSUME NEW n \in Peers, Path(n)', Path(Other(n))' PROVE Paths'
  BY <1>2, <1>3 DEF Paths
<1>4. ASSUME NEW n \in Peers, UNCHANGED <<key, tokens, closed>>,
             NEW m \in Peers, wire'[Other(m)] = wire[Other(m)], pipe'[m] = pipe[m]
      PROVE  Path(m)'
  BY <1>2, <1>4 DEF Path
<1>5. ASSUME UNCHANGED <<wire, pipe, key, tokens, closed>> PROVE Paths'
  BY <1>1, <1>5 DEF Paths, Path
<1>6. ASSUME NEW n \in Peers, OpenChannel(n) \/ Drain(n) \/ PipePark(n) \/ RxVerified(n)
      PROVE  Paths'
  <2>1. UNCHANGED <<wire, pipe, key, tokens, closed>>
    BY <1>6 DEF OpenChannel, Drain, PipePark, RxVerified
  <2> QED BY <1>5, <2>1
<1>7. ASSUME NEW n \in Peers, NEW x \in Msgs, x.kind # "response",
             UNCHANGED <<pipe, key, tokens, closed>>,
             wire' = [wire EXCEPT ![Other(n)] = Append(@, x)]
      PROVE  Paths'
  <2>1. wire'[Other(n)] = Append(wire[Other(n)], x) /\ wire'[n] = wire[n]
    BY <1>1, <1>2, <1>7 DEF Typed
  <2>2. Path(Other(n))'
    BY <1>2, <1>4, <1>7, <2>1
  <2>3. wire[Other(n)] \in Seq(Msgs)
    BY <1>2
  <2>4. Path(n)'
    BY <1>2, <1>7, <2>1, <2>3, WireAdds DEF Path
  <2> QED BY <1>3, <2>2, <2>4
<1>8. ASSUME NEW n \in Peers, Greet(n) \/ SendDrained(n) PROVE Paths'
  <2>1. CASE Greet(n)
    <3>1. Msg("handshake", 0) \in Msgs /\ Msg("handshake", 0).kind # "response"
      BY Made
    <3> QED BY <1>7, <2>1, <3>1 DEF Greet, Transmit
  <2>2. CASE SendDrained(n)
    <3>1. drained[n] \in Seq(Msgs) /\ AllPlain(drained[n]) /\ drained[n] # <<>>
      BY <1>1, <2>2 DEF IInv, Typed, Parked, SendDrained
    <3>2. Head(drained[n]) \in Msgs /\ Head(drained[n]).kind # "response"
      BY <3>1, HeadTail, PlainSeq DEF Plain
    <3> QED BY <1>7, <2>2, <3>2 DEF SendDrained, Transmit
  <2> QED BY <1>8, <2>1, <2>2
<1>9. ASSUME NEW n \in Peers, UNCHANGED <<wire, key, tokens, closed>>,
             \/ \E x \in Msgs : x.kind # "response" /\ pipe' = [pipe EXCEPT ![n] = Append(@, x)]
             \/ /\ pipe[n] # <<>> /\ Head(pipe[n]).kind # "response"
                /\ pipe' = [pipe EXCEPT ![n] = Tail(@)]
      PROVE  Paths'
  <2>1. /\ pipe'[Other(n)] = pipe[Other(n)]
        /\ \/ \E x \in Msgs : x.kind # "response" /\ pipe'[n] = Append(pipe[n], x)
           \/ /\ pipe[n] # <<>> /\ Head(pipe[n]).kind # "response"
              /\ pipe'[n] = Tail(pipe[n])
    BY SMTT(30), <1>1, <1>2, <1>9 DEF Typed
  <2>2. Path(Other(n))'
    BY <1>2, <1>4, <1>9, <2>1
  <2>3. wire[Other(n)] \in Seq(Msgs)
    BY <1>2
  <2>4. Path(n)'
    <3>1. /\ Ordered(wire[Other(n)], pipe[n], key[Other(n)][n], tokens[n])
          /\ key[n][n] <= tokens[n]
          /\ ~closed => /\ Fresh(wire[Other(n)], pipe[n], key[Other(n)][n], tokens[n])
                        /\ key[n][n] = tokens[n]
      BY <1>2 DEF Path
    <3>2. /\ Ordered(wire[Other(n)], pipe'[n], key[Other(n)][n], tokens[n])
          /\ ~closed => Fresh(wire[Other(n)], pipe'[n], key[Other(n)][n], tokens[n])
      <4>1. CASE \E x \in Msgs : x.kind # "response" /\ pipe'[n] = Append(pipe[n], x)
        BY <1>2, <2>3, <3>1, <4>1, PipeAdds
      <4>2. CASE /\ pipe[n] # <<>> /\ Head(pipe[n]).kind # "response"
                 /\ pipe'[n] = Tail(pipe[n])
        BY <1>2, <2>3, <3>1, <4>2, PipeDrops
      <4> QED BY <2>1, <4>1, <4>2
    <3> QED BY <1>9, <3>1, <3>2 DEF Path
  <2> QED BY <1>3, <2>2, <2>4
<1>10. ASSUME NEW n \in Peers, NEW k \in AppKinds, AppSend(n, k) PROVE Paths'
  <2>1. Msg(k, 0) \in Msgs /\ Msg(k, 0).kind # "response"
    BY Made, SessionAssumption
  <2> QED BY <1>9, <1>10, <2>1 DEF AppSend
<1>11. ASSUME NEW n \in Peers, ~closed, PipeStage(n) \/ PipeTimeout(n) PROVE Paths'
  <2>1. pipe[n] # <<>> /\ Head(pipe[n]).kind # "response"
    <3>1. CASE PipeStage(n)
      BY <1>11, <3>1, NoResponse DEF PipeStage, Signable
    <3>2. CASE PipeTimeout(n)
      BY <3>2 DEF PipeTimeout, Signable
    <3> QED BY <1>11, <3>1, <3>2
  <2> QED BY <1>9, <1>11, <2>1 DEF PipeStage, PipeTimeout
<1>12. ASSUME NEW n \in Peers, PipeSend(n) PROVE Paths'
  <2>1. /\ Signable(n) /\ UNCHANGED <<key, tokens, closed>>
        /\ wire' = [wire EXCEPT ![Other(n)] = Append(@, Signed(n))]
        /\ pipe' = [pipe EXCEPT ![n] = Tail(@)]
    BY <1>12 DEF PipeSend, Transmit
  <2>2. /\ wire'[Other(n)] = Append(wire[Other(n)], Signed(n)) /\ wire'[n] = wire[n]
        /\ pipe'[n] = Tail(pipe[n]) /\ pipe'[Other(n)] = pipe[Other(n)]
    BY <1>1, <1>2, <2>1 DEF Typed
  <2>3. Path(Other(n))'
    BY <1>2, <1>4, <2>1, <2>2
  <2>4. wire[Other(n)] \in Seq(Msgs)
    BY <1>2
  <2>5. /\ pipe[n] # <<>> /\ Signed(n) \in Msgs
        /\ Head(pipe[n]).kind = "response" => Signed(n) = Head(pipe[n])
        /\ Head(pipe[n]).kind # "response" => Signed(n).kind # "response"
    BY <2>1, SignedFacts
  <2>6. CASE Head(pipe[n]).kind = "response"
    <3>1. Path(n)'
      BY <1>2, <2>1, <2>2, <2>4, <2>5, <2>6, Passes DEF Path
    <3> QED BY <1>3, <2>3, <3>1
  <2>7. CASE Head(pipe[n]).kind # "response"
    <3> DEFINE w == wire[Other(n)]
               k == key[Other(n)][n]
    <3>1. Tail(pipe[n]) \in Seq(Msgs)
      BY <1>2, <2>5, HeadTail
    <3>2. /\ Ordered(w, Tail(pipe[n]), k, tokens[n])
          /\ ~closed => Fresh(w, Tail(pipe[n]), k, tokens[n])
      BY <1>2, <2>4, <2>5, <2>7, PipeDrops DEF Path
    <3>3. /\ Ordered(Append(w, Signed(n)), Tail(pipe[n]), k, tokens[n])
          /\ ~closed => Fresh(Append(w, Signed(n)), Tail(pipe[n]), k, tokens[n])
      BY <1>2, <2>4, <2>5, <2>7, <3>1, <3>2, WireAdds
    <3>4. Path(n)'
      BY <1>2, <2>1, <2>2, <3>3 DEF Path
    <3> QED BY <1>3, <2>3, <3>4
  <2> QED BY <2>6, <2>7
<1>13. ASSUME NEW n \in Peers, RxHandshake(n) \/ RxReissue(n) PROVE Paths'
  <2>1. /\ tokens' = [tokens EXCEPT ![n] = @ + 1]
        /\ key' = [key EXCEPT ![n][n] = tokens[n] + 1]
        /\ pipe' = [pipe EXCEPT ![n] = Append(@, Msg("response", tokens[n] + 1))]
        /\ closed' = closed
    BY <1>13 DEF RxHandshake, RxReissue, IssueToken, NewToken
  <2>2. \/ wire' = wire
        \/ /\ wire[n] # <<>> /\ Head(wire[n]).kind = "handshake"
           /\ wire' = [wire EXCEPT ![n] = Tail(@)]
    BY <1>13 DEF RxHandshake, RxReissue, Incoming, Consume
  <2>3. /\ tokens'[n] = tokens[n] + 1 /\ tokens'[Other(n)] = tokens[Other(n)]
        /\ key'[n][n] = tokens[n] + 1 /\ key'[n][Other(n)] = key[n][Other(n)]
        /\ key'[Other(n)][n] = key[Other(n)][n]
        /\ key'[Other(n)][Other(n)] = key[Other(n)][Other(n)]
        /\ pipe'[n] = Append(pipe[n], Msg("response", tokens[n] + 1))
        /\ pipe'[Other(n)] = pipe[Other(n)]
    BY <1>1, <1>2, <2>1 DEF Typed
  <2>4. /\ wire'[Other(n)] = wire[Other(n)]
        /\ \/ wire'[n] = wire[n]
           \/ /\ wire[n] # <<>> /\ Head(wire[n]).kind # "response"
              /\ wire'[n] = Tail(wire[n])
    BY <1>1, <1>2, <2>2 DEF Typed
  <2>5. /\ wire[Other(n)] \in Seq(Msgs) /\ pipe[Other(n)] \in Seq(Msgs)
        /\ tokens[Other(n)] \in Nat /\ Path(Other(n))
    BY <1>2
  <2>6. Path(n)'
    <3>1. Ordered(wire[Other(n)], pipe[n], key[Other(n)][n], tokens[n])
      BY <1>2 DEF Path
    <3>2. /\ Ordered(wire[Other(n)], Append(pipe[n], Msg("response", tokens[n] + 1)),
                     key[Other(n)][n], tokens[n] + 1)
          /\ Fresh(wire[Other(n)], Append(pipe[n], Msg("response", tokens[n] + 1)),
                   key[Other(n)][n], tokens[n] + 1)
      BY <1>2, <2>5, <3>1, Issued
    <3>3. tokens[n] + 1 <= tokens[n] + 1
      BY <1>2
    <3> QED BY <2>1, <2>3, <2>4, <3>2, <3>3 DEF Path
  <2>7. Path(Other(n))'
    <3>1. /\ Ordered(wire[n], pipe[Other(n)], key[n][Other(n)], tokens[Other(n)])
          /\ key[Other(n)][Other(n)] <= tokens[Other(n)]
          /\ ~closed => /\ Fresh(wire[n], pipe[Other(n)], key[n][Other(n)], tokens[Other(n)])
                        /\ key[Other(n)][Other(n)] = tokens[Other(n)]
      BY <1>2, <2>5 DEF Path
    <3>2. /\ Ordered(wire'[n], pipe[Other(n)], key[n][Other(n)], tokens[Other(n)])
          /\ ~closed => Fresh(wire'[n], pipe[Other(n)], key[n][Other(n)], tokens[Other(n)])
      BY <1>2, <2>4, <2>5, <3>1, WireDrops
    <3> QED BY <1>2, <2>1, <2>3, <3>1, <3>2 DEF Path
  <2> QED BY <1>3, <2>6, <2>7
<1>14. ASSUME NEW n \in Peers, RxRefused(n) PROVE Paths'
  <2>1. UNCHANGED <<wire, pipe, key, tokens>> /\ closed' = TRUE
    BY <1>14 DEF RxRefused
  <2> QED BY <1>1, <2>1 DEF Paths, Path
<1>15. ASSUME NEW n \in Peers, RxResponse(n) PROVE Paths'
  <2>1. /\ wire[n] # <<>> /\ Head(wire[n]).kind = "response"
        /\ wire' = [wire EXCEPT ![n] = Tail(@)] /\ UNCHANGED <<pipe, tokens, closed>>
        /\ key' = [key EXCEPT ![n][Other(n)] = Head(wire[n]).tok]
    BY <1>15 DEF RxResponse, Incoming, Consume
  <2>2. /\ wire'[n] = Tail(wire[n]) /\ wire'[Other(n)] = wire[Other(n)]
        /\ key'[n][n] = key[n][n] /\ key'[n][Other(n)] = Head(wire[n]).tok
        /\ key'[Other(n)][n] = key[Other(n)][n]
        /\ key'[Other(n)][Other(n)] = key[Other(n)][Other(n)]
    BY <1>1, <1>2, <2>1 DEF Typed
  <2>3. Path(n)'
    BY <1>2, <2>1, <2>2 DEF Path
  <2>4. pipe[Other(n)] \in Seq(Msgs) /\ tokens[Other(n)] \in Nat /\ Path(Other(n))
    BY <1>2
  <2>5. /\ Ordered(wire[n], pipe[Other(n)], key[n][Other(n)], tokens[Other(n)])
        /\ ~closed => Fresh(wire[n], pipe[Other(n)], key[n][Other(n)], tokens[Other(n)])
    BY <1>2, <2>4 DEF Path
  <2>6. /\ Ordered(Tail(wire[n]), pipe[Other(n)], Head(wire[n]).tok, tokens[Other(n)])
        /\ ~closed => Fresh(Tail(wire[n]), pipe[Other(n)], Head(wire[n]).tok, tokens[Other(n)])
    BY <1>2, <2>1, <2>4, <2>5, Taken
  <2>7. Path(Other(n))'
    BY <1>2, <2>1, <2>2, <2>4, <2>6 DEF Path
  <2> QED BY <1>3, <2>3, <2>7
<1>16. ASSUME NEW n \in Peers, RxReply(n) PROVE Paths'
  <2>1. /\ rx[n] = "reply" /\ UNCHANGED <<pipe, closed>>
        /\ tokens' = [tokens EXCEPT ![n] = @ + 1]
        /\ key' = [key EXCEPT ![n][n] = tokens[n] + 1]
        /\ wire' = [wire EXCEPT ![Other(n)] = Append(@, Msg("response", tokens[n] + 1))]
    BY <1>16 DEF RxReply, NewToken, Transmit
  <2>2. tokens[n] = 0 /\ tokens[n] + 1 = 1
    BY <2>1 DEF IInv, Stages, Stage
  <2>3. /\ tokens'[n] = 1 /\ tokens'[Other(n)] = tokens[Other(n)]
        /\ key'[n][n] = 1 /\ key'[n][Other(n)] = key[n][Other(n)]
        /\ key'[Other(n)][n] = key[Other(n)][n]
        /\ key'[Other(n)][Other(n)] = key[Other(n)][Other(n)]
    BY <1>1, <1>2, <2>1, <2>2 DEF Typed
  <2>4. /\ wire'[Other(n)] = Append(wire[Other(n)], Msg("response", 1))
        /\ wire'[n] = wire[n]
    BY <1>1, <1>2, <2>1, <2>2 DEF Typed
  <2>5. wire[Other(n)] \in Seq(Msgs) /\ Path(Other(n))
    BY <1>2
  <2>6. Ordered(wire[Other(n)], pipe[n], key[Other(n)][n], 0)
    BY <1>2, <2>2 DEF Path
  <2>7. Path(n)'
    BY SMTT(30), <1>2, <2>1, <2>3, <2>4, <2>5, <2>6, Replied DEF Path
  <2>8. Path(Other(n))'
    BY <1>2, <2>1, <2>3, <2>4, <2>5 DEF Path
  <2> QED BY <1>3, <2>7, <2>8
<1>17. ASSUME NEW n \in Peers, wire[n] # <<>>, Head(wire[n]).kind # "response",
              wire' = [wire EXCEPT ![n] = Tail(@)], UNCHANGED <<pipe, tokens>>,
              \/ UNCHANGED <<key, closed>>
              \/ key' = [key EXCEPT ![n] = [r \in Peers |-> 0]] /\ closed' = TRUE
       PROVE  Paths'
  <2>1. wire'[n] = Tail(wire[n]) /\ wire'[Other(n)] = wire[Other(n)]
    BY <1>1, <1>2, <1>17 DEF Typed
  <2>2. /\ pipe[Other(n)] \in Seq(Msgs) /\ wire[Other(n)] \in Seq(Msgs)
        /\ tokens[Other(n)] \in Nat /\ Path(Other(n))
    BY <1>2
  <2>3. /\ Ordered(wire[n], pipe[Other(n)], key[n][Other(n)], tokens[Other(n)])
        /\ ~closed => Fresh(wire[n], pipe[Other(n)], key[n][Other(n)], tokens[Other(n)])
    BY <1>2, <2>2 DEF Path
  <2>4. /\ Ordered(Tail(wire[n]), pipe[Other(n)], key[n][Other(n)], tokens[Other(n)])
        /\ ~closed => Fresh(Tail(wire[n]), pipe[Other(n)], key[n][Other(n)], tokens[Other(n)])
    BY <1>2, <1>17, <2>2, <2>3, WireDrops
  <2>5. CASE UNCHANGED <<key, closed>>
    BY <1>2, <1>3, <1>17, <2>1, <2>2, <2>4, <2>5 DEF Path
  <2>6. CASE key' = [key EXCEPT ![n] = [r \in Peers |-> 0]] /\ closed' = TRUE
    <3>1. /\ key'[n][n] = 0 /\ key'[n][Other(n)] = 0
          /\ key'[Other(n)][n] = key[Other(n)][n]
          /\ key'[Other(n)][Other(n)] = key[Other(n)][Other(n)]
      BY <1>1, <1>2, <2>6 DEF Typed
    <3>2. Tail(wire[n]) \in Seq(Msgs)
      BY <1>2, <1>17, HeadTail
    <3>3. Ordered(Tail(wire[n]), pipe[Other(n)], 0, tokens[Other(n)])
      BY <1>2, <2>2, <2>4, <3>2, Forgotten
    <3>4. Path(Other(n))'
      BY <1>2, <1>17, <2>1, <2>2, <2>6, <3>1, <3>3 DEF Path
    <3>5. Path(n)'
      BY <1>2, <1>17, <2>1, <2>6, <3>1 DEF Path
    <3> QED BY <1>3, <3>4, <3>5
  <2> QED BY <1>17, <2>5, <2>6
<1>18. ASSUME NEW n \in Peers, RxMessage(n) PROVE Paths'
  BY <1>17, <1>18 DEF RxMessage, Incoming, Consume
<1>19. ASSUME NEW n \in Peers, RxGoodbye(n) PROVE Paths'
  <2>1. /\ wire[n] # <<>> /\ Head(wire[n]).kind # "response"
        /\ wire' = [wire EXCEPT ![n] = Tail(@)] /\ UNCHANGED <<pipe, tokens>>
    BY <1>19 DEF RxGoodbye, Incoming, Consume
  <2>2. \/ UNCHANGED <<key, closed>>
        \/ key' = [key EXCEPT ![n] = [r \in Peers |-> 0]] /\ closed' = TRUE
    BY <1>19 DEF RxGoodbye
  <2> QED BY <1>17, <2>1, <2>2
<1>20. ASSUME NEW n \in Peers, OnClose(n) PROVE Paths'
  <2>1. /\ closed /\ UNCHANGED <<wire, pipe, tokens, closed>>
        /\ key' = [key EXCEPT ![n] = [r \in Peers |-> 0]]
    BY <1>20 DEF OnClose
  <2>2. /\ key'[n][n] = 0 /\ key'[n][Other(n)] = 0
        /\ key'[Other(n)][n] = key[Other(n)][n]
        /\ key'[Other(n)][Other(n)] = key[Other(n)][Other(n)]
    BY <1>1, <1>2, <2>1 DEF Typed
  <2>3. /\ pipe[Other(n)] \in Seq(Msgs) /\ tokens[Other(n)] \in Nat /\ Path(Other(n))
    BY <1>2
  <2>4. Ordered(wire[n], pipe[Other(n)], key[n][Other(n)], tokens[Other(n)])
    BY <1>2, <2>3 DEF Path
  <2>5. Ordered(wire[n], pipe[Other(n)], 0, tokens[Other(n)])
    BY <1>2, <2>3, <2>4, Forgotten
  <2>6. Path(Other(n))'
    BY <1>2, <2>1, <2>2, <2>3, <2>5 DEF Path
  <2>7. Path(n)'
    BY <1>2, <2>1, <2>2 DEF Path
  <2> QED BY <1>3, <2>6, <2>7
<1> QED BY <1>6, <1>8, <1>10, <1>11, <1>12, <1>13, <1>14, <1>15, <1>16, <1>18, <1>19, <1>20
        DEF Next, OnOpenTask, PipeTask, RxTask

-----------------------------------------------------------------------------
\* Every step keeps the invariant.
LEMMA StepIInv == IInv /\ [Next]_vars => IInv'
<1>1. ASSUME IInv, Next PROVE IInv'
  <2>1. Typed' /\ Parked' /\ Opened' /\ Stages' /\ Paths'
    BY <1>1, TypedStep, ParkedStep, OpenedStep, StagesStep, PathsStep
  <2>2. Greetings'
    BY <1>1, GreetingsStep
  <2> QED BY <2>1, <2>2 DEF IInv
<1>2. ASSUME IInv, UNCHANGED vars PROVE IInv'
  <2>1. Typed' /\ Parked' /\ Opened'
    BY <1>2 DEF IInv, Typed, Parked, Opened, vars
  <2>2. Greetings' /\ Paths'
    BY <1>2 DEF IInv, Greetings, Greeted, Paths, Path, vars
  <2>3. Stages'
    BY <1>2 DEF IInv, Stages, Stage, Expected, Greeted, vars
  <2> QED BY <2>1, <2>2, <2>3 DEF IInv
<1> QED BY <1>1, <1>2

\* The strengthened invariant holds throughout: responses are never parked, and
\* each carries a newer token than those before it.
THEOREM Inductive == Spec => []IInv
BY InitIInv, StepIInv, PTL DEF Spec

\* No node makes more than three tokens.
THEOREM ThreeTokens == Spec => []TokensBounded
<1>1. IInv => TokensBounded
  BY DEF IInv, Stages, Stage, TokensBounded
<1> QED BY <1>1, Inductive, PTL

\* When nothing of the handshake is under way, both nodes are authenticated and
\* hold the newest token of either resource.
THEOREM Agreement == Spec => []KeyAgreement
<1>1. ASSUME IInv, Settled, NEW n \in Peers
      PROVE  auth[n] /\ key[n][n] # 0 /\ key[Other(n)][n] = key[n][n]
  <2>1. /\ ~closed /\ rx[n] = "idle" /\ Other(n) \in Peers /\ Greeted(Other(n))
        /\ \A i \in DOMAIN pipe[n] : pipe[n][i].kind # "response"
        /\ \A i \in DOMAIN wire[n] : wire[n][i].kind # "handshake"
        /\ \A i \in DOMAIN wire[Other(n)] : wire[Other(n)][i].kind # "response"
    BY <1>1, Two DEF Settled, Greeted
  <2>2. /\ wire[n] \in Seq(Msgs) /\ wire[Other(n)] \in Seq(Msgs) /\ pipe[n] \in Seq(Msgs)
    BY <1>1, <2>1 DEF IInv, Typed
  <2>3. ~Expected(n)
    BY <2>1, <2>2 DEF Expected, Has
  <2>4. auth[n] /\ tokens[n] # 0
    BY <1>1, <2>1, <2>3 DEF IInv, Stages, Stage
  <2>5. ~Carries(wire[Other(n)], tokens[n]) /\ ~Carries(pipe[n], tokens[n])
    BY <2>1, <2>2 DEF Carries
  <2>6. key[n][n] = tokens[n] /\ key[Other(n)][n] = tokens[n]
    BY <1>1, <2>1, <2>5 DEF IInv, Paths, Path, Fresh
  <2> QED BY <2>4, <2>6
<1>2. IInv => KeyAgreement
  <2> SUFFICES ASSUME IInv, Settled, NEW n \in Peers, NEW r \in Peers
               PROVE  auth[n] /\ key[n][r] # 0 /\ key[n][r] = key[r][r]
    BY DEF KeyAgreement
  <2>1. n = r \/ n = Other(r)
    BY Two
  <2> QED BY <1>1, <2>1
<1> QED BY <1>2, Inductive, PTL

\* No token is replaced by an older one.
THEOREM Forward == Spec => TokensMoveForward
<1>1. ASSUME IInv, [Next]_vars, NEW n \in Peers, NEW r \in Peers, key'[n][r] # 0
      PROVE  key'[n][r] >= key[n][r]
  <2>1. /\ key \in [Peers -> [Peers -> Nat]] /\ tokens \in [Peers -> Nat]
        /\ key[n][r] \in Nat /\ key[r][r] <= tokens[r]
    BY <1>1 DEF IInv, Typed, Paths, Path
  <2>2. CASE UNCHANGED key
    BY <2>1, <2>2
  <2>3. CASE \E m \in Peers : key' = [key EXCEPT ![m][m] = tokens[m] + 1]
    BY <2>1, <2>3
  <2>4. CASE \E m \in Peers : key' = [key EXCEPT ![m] = [x \in Peers |-> 0]]
    BY <1>1, <2>1, <2>4
  <2>5. CASE \E m \in Peers : RxResponse(m)
    <3>1. PICK m \in Peers : RxResponse(m)
      BY <2>5
    <3>2. /\ wire[m] # <<>> /\ Head(wire[m]).kind = "response"
          /\ key' = [key EXCEPT ![m][Other(m)] = Head(wire[m]).tok]
      BY <3>1 DEF RxResponse, Incoming
    <3>3. /\ Other(m) \in Peers /\ Other(Other(m)) = m
          /\ wire[m] \in Seq(Msgs) /\ pipe[Other(m)] \in Seq(Msgs)
          /\ key[m][Other(m)] \in Nat /\ tokens[Other(m)] \in Nat
      <4>1. Other(m) \in Peers /\ Other(Other(m)) = m
        BY Two
      <4>2. wire \in [Peers -> Seq(Msgs)] /\ pipe \in [Peers -> Seq(Msgs)]
        BY <1>1 DEF IInv, Typed
      <4> QED BY <2>1, <4>1, <4>2
    <3>4. Ordered(wire[m], pipe[Other(m)], key[m][Other(m)], tokens[Other(m)])
      BY <1>1, <3>3 DEF IInv, Paths, Path
    <3>5. key[m][Other(m)] < Head(wire[m]).tok /\ Head(wire[m]).tok \in Nat
      BY <3>2, <3>3, <3>4, Taken
    <3>6. CASE n = m /\ r = Other(m)
      BY <2>1, <3>2, <3>3, <3>5, <3>6
    <3>7. CASE ~(n = m /\ r = Other(m))
      <4>1. key'[n][r] = key[n][r]
        BY <2>1, <3>2, <3>3, <3>7
      <4> QED BY <2>1, <4>1
    <3> QED BY <3>6, <3>7
  <2>6. \/ UNCHANGED key
        \/ \E m \in Peers : \/ key' = [key EXCEPT ![m][m] = tokens[m] + 1]
                            \/ key' = [key EXCEPT ![m] = [x \in Peers |-> 0]]
                            \/ RxResponse(m)
    BY <1>1 DEF Next, OnOpenTask, PipeTask, RxTask, OpenChannel, AppSend, Greet, Drain,
                SendDrained, PipeSend, PipeStage, PipePark, PipeTimeout, RxHandshake,
                RxVerified, RxReissue, RxRefused, RxReply, RxMessage, RxGoodbye, OnClose,
                IssueToken, NewToken, vars
  <2> QED BY <2>2, <2>3, <2>4, <2>5, <2>6
<1>2. IInv /\ [Next]_vars
        => [\A n, r \in Peers : key'[n][r] # 0 => key'[n][r] >= key[n][r]]_vars
  BY <1>1
<1> QED BY <1>2, Inductive, PTL DEF Spec, TokensMoveForward
=============================================================================
