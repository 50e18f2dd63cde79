-------------------------- MODULE EthBackendProofs --------------------------
(***************************************************************************)
(* Proofs about the Ethereum backend, for any number of participants,      *)
(* assets, retries and cancelled contexts: transactions get nonces that    *)
(* can be mined, Fund returns nil only when everybody has deposited, and   *)
(* Withdraw returns nil only when the participant was paid, out of what    *)
(* the outcome gives it and its own surplus.                               *)
(***************************************************************************)
EXTENDS EthBackend, TLAPS, FiniteSetTheorems

-----------------------------------------------------------------------------
(* Sums *)

Less == {ss \in Nat \X Nat : ss[1] < ss[2]}

\* Induction over the naturals, for a set of numbers.
LEMMA NatInd ==
  ASSUME NEW N, 0 \in N, \A n \in Nat : n \in N => n + 1 \in N
  PROVE  Nat \subseteq N
<1>1. IsWellFoundedOn(Less, Nat)
  BY NatLessThanWellFounded DEF OpToRel, Less
<1> SUFFICES ASSUME Nat \ N # {} PROVE FALSE
  OBVIOUS
<1>2. \E x \in Nat \ N : \A y \in Nat \ N : ~(<<y, x>> \in Less)
  <2>1. Nat \ N \subseteq Nat
    OBVIOUS
  <2> QED BY <1>1, <2>1, WFMin, Zenon
<1>3. PICK x \in Nat \ N : \A y \in Nat \ N : ~(<<y, x>> \in Less)
  BY <1>2
<1>4. x # 0 /\ x - 1 \in Nat
  OBVIOUS
<1>5. <<x - 1, x>> \in Less
  BY <1>4 DEF Less
<1> QED BY <1>3, <1>4, <1>5

\* f holds the partial sums of s.
Sums(f, s) ==
  /\ f \in [0..Len(s) -> Nat]
  /\ f[0] = 0
  /\ \A i \in 1..Len(s) : f[i] = f[i - 1] + s[i]

LEMMA SumStep ==
  ASSUME NEW s \in Seq(Nat), NEW f, Sums(f, s), NEW n \in Nat, n + 1 <= Len(s)
  PROVE  f[n + 1] = f[n] + s[n + 1] /\ f[n] \in Nat /\ s[n + 1] \in Nat
<1>1. n + 1 \in 1..Len(s) /\ n \in 0..Len(s) /\ (n + 1) - 1 = n
  OBVIOUS
<1>2. f[n + 1] = f[n] + s[n + 1]
  BY <1>1 DEF Sums
<1>3. f[n] \in Nat
  BY <1>1 DEF Sums
<1> QED BY <1>1, <1>2, <1>3

\* Total is the last of the partial sums.
LEMMA TotalSums ==
  ASSUME NEW s \in Seq(Nat)
  PROVE  \E f : Sums(f, s) /\ Total(s) = f[Len(s)]
<1> DEFINE B(f, i) == IF i = 0 THEN 0 ELSE f[i - 1] + s[i]
           Solves(f, n) == f = [i \in 0..n |-> B(f, i)] /\ \A i \in 0..n : f[i] \in Nat
           N == {n \in Nat : n <= Len(s) => \E f : Solves(f, n)}
           Def(f) == f = [i \in 0..Len(s) |-> B(f, i)]
           F == CHOOSE f : Def(f)
<1>1. 0 \in N
  <2> DEFINE z == [i \in 0..0 |-> 0]
  <2>1. Solves(z, 0)
    OBVIOUS
  <2> QED BY <2>1
<1>2. ASSUME NEW n \in Nat, n \in N, n + 1 <= Len(s) PROVE \E f : Solves(f, n + 1)
  <2>1. PICK f : Solves(f, n)
    BY <1>2
  <2> DEFINE g == [i \in 0..n + 1 |-> IF i = n + 1 THEN B(f, n + 1) ELSE f[i]]
  <2>2. \A i \in 0..n : f[i] = B(f, i) /\ f[i] \in Nat
    <3> HIDE DEF B
    <3> QED BY <2>1
  <2>3. ASSUME NEW i \in 0..n + 1 PROVE g[i] = B(g, i) /\ g[i] \in Nat
    <3>1. CASE i = 0
      BY <3>1, <2>2
    <3>2. CASE i \in 1..n
      <4>1. f[i] = B(f, i) /\ f[i] \in Nat
        BY <2>2, <3>2
      <4>2. g[i] = f[i] /\ g[i - 1] = f[i - 1]
        BY <3>2
      <4> QED BY <4>1, <4>2
    <3>3. CASE i = n + 1
      <4>1. g[i] = B(f, i) /\ g[i - 1] = f[i - 1]
        BY <3>3
      <4>2. f[n] \in Nat /\ s[n + 1] \in Nat
        BY <1>2, <2>2
      <4> QED BY <3>3, <4>1, <4>2
    <3> QED BY <3>1, <3>2, <3>3
  <2>4. Solves(g, n + 1)
    <3> HIDE DEF B
    <3> QED BY <2>3
  <2> HIDE DEF Solves
  <2> QED BY <2>4
<1>3. Nat \subseteq N
  <2> HIDE DEF Solves
  <2>1. \A n \in Nat : n \in N => n + 1 \in N
    BY <1>2
  <2> HIDE DEF N
  <2> QED BY <1>1, <2>1, NatInd
<1>4. PICK f : Solves(f, Len(s))
  <2> HIDE DEF Solves
  <2>1. Len(s) \in N
    BY <1>3
  <2> QED BY <2>1
<1>5. Def(F)
  <2>1. \E g : Def(g)
    BY <1>4
  <2> HIDE DEF Def
  <2> QED BY <2>1, Zenon
<1>6. Total(s) = F[Len(s)]
  BY Zenon DEF Total
<1> HIDE DEF F
<1>7. \A i \in 0..Len(s) : F[i] = B(F, i) /\ f[i] = B(f, i)
  <2> HIDE DEF B
  <2> QED BY <1>4, <1>5
<1>8. \A i \in 0..Len(s) : F[i] = f[i]
  <2> DEFINE M == {n \in Nat : n <= Len(s) => F[n] = f[n]}
  <2>1. 0 \in M
    BY <1>7
  <2>2. \A n \in Nat : n \in M => n + 1 \in M
    BY <1>7
  <2> HIDE DEF M
  <2>3. Nat \subseteq M
    BY <2>1, <2>2, NatInd
  <2> QED BY <2>3 DEF M
<1>9. Sums(f, s)
  <2>1. \A i \in 0..Len(s) : f[i] \in Nat
    BY <1>4
  <2>2. DOMAIN f = 0..Len(s) /\ f = [i \in 0..Len(s) |-> f[i]]
    <3> HIDE DEF B
    <3> QED BY <1>4
  <2>3. f[0] = 0 /\ \A i \in 1..Len(s) : f[i] = f[i - 1] + s[i]
    BY <1>7
  <2> QED BY <2>1, <2>2, <2>3 DEF Sums
<1> QED BY <1>6, <1>8, <1>9

LEMMA TotalType ==
  ASSUME NEW s \in Seq(Nat)
  PROVE  Total(s) \in Nat
  BY TotalSums DEF Sums

\* A row that is nowhere smaller has no smaller total.
LEMMA TotalMonotone ==
  ASSUME NEW s \in Seq(Nat), NEW t \in Seq(Nat), Len(s) = Len(t),
         \A i \in 1..Len(s) : s[i] <= t[i]
  PROVE  Total(s) <= Total(t)
<1>1. PICK f : Sums(f, s) /\ Total(s) = f[Len(s)]
  BY TotalSums
<1>2. PICK g : Sums(g, t) /\ Total(t) = g[Len(t)]
  BY TotalSums
<1> DEFINE N == {n \in Nat : n <= Len(s) => f[n] <= g[n]}
<1>3. 0 \in N
  BY <1>1, <1>2 DEF Sums
<1>4. ASSUME NEW n \in Nat, n \in N PROVE n + 1 \in N
  <2> SUFFICES ASSUME n + 1 <= Len(s) PROVE f[n + 1] <= g[n + 1]
    OBVIOUS
  <2>1. f[n + 1] = f[n] + s[n + 1] /\ f[n] \in Nat
    BY <1>1, SumStep
  <2>2. g[n + 1] = g[n] + t[n + 1] /\ g[n] \in Nat
    BY <1>2, SumStep
  <2>3. f[n] <= g[n] /\ s[n + 1] <= t[n + 1] /\ s[n + 1] \in Nat /\ t[n + 1] \in Nat
    BY <1>4
  <2> QED BY <2>1, <2>2, <2>3
<1> HIDE DEF N
<1>5. Len(s) \in N
  <2>1. Nat \subseteq N
    BY <1>3, <1>4, NatInd
  <2> QED BY <2>1
<1> QED BY <1>1, <1>2, <1>5 DEF N

LEMMA TotalAppend ==
  ASSUME NEW s \in Seq(Nat), NEW x \in Nat
  PROVE  Total(Append(s, x)) = Total(s) + x
<1> DEFINE t == Append(s, x)
<1>0. /\ t \in Seq(Nat) /\ Len(t) = Len(s) + 1 /\ t[Len(s) + 1] = x
      /\ \A i \in 1..Len(s) : t[i] = s[i]
  OBVIOUS
<1> HIDE DEF t
<1>1. PICK f : Sums(f, s) /\ Total(s) = f[Len(s)]
  BY TotalSums
<1>2. PICK g : Sums(g, t) /\ Total(t) = g[Len(t)]
  BY <1>0, TotalSums
<1> DEFINE N == {n \in Nat : n <= Len(s) => f[n] = g[n]}
<1>3. 0 \in N
  BY <1>1, <1>2 DEF Sums
<1>4. ASSUME NEW n \in Nat, n \in N PROVE n + 1 \in N
  <2> SUFFICES ASSUME n + 1 <= Len(s) PROVE f[n + 1] = g[n + 1]
    OBVIOUS
  <2>1. f[n + 1] = f[n] + s[n + 1]
    BY <1>1, SumStep
  <2>2. n + 1 <= Len(t) /\ t \in Seq(Nat) /\ Sums(g, t)
    BY <1>0, <1>2
  <2>3. g[n + 1] = g[n] + t[n + 1]
    BY <2>2, SumStep, Zenon
  <2>4. f[n] = g[n] /\ s[n + 1] = t[n + 1]
    BY <1>0, <1>4
  <2> QED BY <2>1, <2>3, <2>4
<1> HIDE DEF N
<1>5. Len(s) \in N
  <2>1. Nat \subseteq N
    BY <1>3, <1>4, NatInd
  <2> QED BY <2>1
<1>6. f[Len(s)] = g[Len(s)]
  BY <1>5 DEF N
<1>7. g[Len(t)] = g[Len(s)] + x
  BY <1>0, <1>2, SumStep
<1> QED BY <1>1, <1>2, <1>6, <1>7 DEF t

\* A total is at least each of its parts.
LEMMA TotalElement ==
  ASSUME NEW s \in Seq(Nat), NEW j \in 1..Len(s)
  PROVE  s[j] <= Total(s)
<1>1. PICK f : Sums(f, s) /\ Total(s) = f[Len(s)]
  BY TotalSums
<1> DEFINE N == {n \in Nat : j <= n /\ n <= Len(s) => s[j] <= f[n]}
<1>2. 0 \in N
  OBVIOUS
<1>3. ASSUME NEW n \in Nat, n \in N PROVE n + 1 \in N
  <2> SUFFICES ASSUME n + 1 <= Len(s), j <= n + 1 PROVE s[j] <= f[n + 1]
    OBVIOUS
  <2>1. f[n + 1] = f[n] + s[n + 1] /\ f[n] \in Nat /\ s[n + 1] \in Nat
    BY <1>1, SumStep
  <2>2. CASE j = n + 1
    BY <2>1, <2>2
  <2>3. CASE j <= n
    BY <1>3, <2>1, <2>3
  <2> QED BY <2>2, <2>3
<1> HIDE DEF N
<1>4. Len(s) \in N
  <2>1. Nat \subseteq N
    BY <1>2, <1>3, NatInd
  <2> QED BY <2>1
<1> QED BY <1>1, <1>4 DEF N

-----------------------------------------------------------------------------
(* The inductive invariant *)

Fns == {"increaseAllowance", "deposit", "register", "concludeFinal", "conclude", "withdraw"}

Tx == [acc : Parts, nonce : Nat, fn : Fns, asset : Nat, amount : Nat]

LogEvent == [name : {"Deposited", "Registered", "Concluded", "Withdrawn"},
             asset : Nat, part : Nat, amount : Nat]

CallType ==
  [op : {"none", "fund", "register", "withdraw"},
   pc : {"idle", "assets", "deposit", "confirm", "wait", "sub", "secondary", "call", "mine",
         "event", "withdrawing"},
   k : Nat, txs : Seq(Nat), ctx : BOOLEAN, err : BOOLEAN,
   res : {"none", "nil", "other", "txTimedOut", "FundingTimeout"}, funds : Nat]

WaitType ==
  [pc : {"none", "wait", "ok", "timedOut", "ctxErr", "sub", "mine", "event", "err"},
   pos : Nat, left : [Parts -> Nat] \cup {<<>>}, n : Int, again : BOOLEAN, tx : Nat]

TypeOK ==
  /\ pool \in SUBSET Tx
  /\ nonce \in [Parts -> Nat] /\ expectedNextNonce \in [Parts -> Nat]
  /\ log \in Seq(LogEvent)
  /\ holdings \in [Assets -> [Parts -> Nat]] /\ paid \in [Assets -> [Parts -> Nat]]
  /\ dispute \in {"none", "dispute", "elapsed", "concluded"}
  /\ call \in [Parts -> CallType]
  /\ wait \in [Parts -> [Assets -> WaitType]]

\* The nonces from the chain's to the expected one are those of the transactions
\* that wait, each of one, and of those that were never sent.
NonceOK(p) ==
  /\ nonce[p] <= expectedNextNonce[p]
  /\ \A n \in nonce[p]..(expectedNextNonce[p] - 1) :
       <<p, n>> \in unsent \/ \E t \in pool : t.acc = p /\ t.nonce = n
  /\ \A t \in pool : t.acc = p => t.nonce \in nonce[p]..(expectedNextNonce[p] - 1)
  /\ \A t, u \in pool : t.acc = p /\ u.acc = p /\ t.nonce = u.nonce => t = u

\* Whether q has deposited for asset a, if it has to; and everybody for all.
DepositSeen(a, q) == Agreement[a][q] = 0 \/ Seen("Deposited", a, q)
AllDeposited == \A a \in Assets, q \in Parts : DepositSeen(a, q)
WithdrawalSeen(a, p) == Outcome[a][p] = 0 \/ Seen("Withdrawn", a, p)

\* The amounts of the transactions and of the deposits are those of the channel,
\* and only a funded channel is concluded.
PoolOK ==
  \A t \in pool :
    /\ t.fn = "deposit" => t.asset \in Assets /\ t.amount = Agreement[t.asset][t.acc]
    /\ t.fn = "withdraw" => t.asset \in Assets /\ t.amount = Outcome[t.asset][t.acc]
    /\ t.fn \in {"conclude", "concludeFinal"} => AllDeposited
LogOK ==
  \A i \in DOMAIN log : log[i].name = "Deposited" =>
    /\ log[i].asset \in Assets /\ log[i].part \in Parts
    /\ log[i].amount = Agreement[log[i].asset][log[i].part]

\* What the contracts hold for a participant and what they have paid to it: its
\* deposits before the conclusion, its outcome and its surplus after it.
FundsOK(a, p) ==
  /\ ~Concluded => paid[a][p] = 0 /\ holdings[a][p] = deposited(p, a)
  /\ Concluded => holdings[a][p] + paid[a][p]
                    <= Outcome[a][p] + deposited(p, a) - Agreement[a][p]
  /\ Seen("Withdrawn", a, p) => paid[a][p] >= Outcome[a][p]

\* What holds of a call c of p: at which lines it may be in which operation, and
\* what it relies on once Fund or Withdraw has returned nil.
CallOK(p, c) ==
  /\ c.pc \in {"assets", "deposit", "confirm", "wait"} => c.op = "fund"
  /\ c.pc \in {"sub", "secondary", "call", "mine", "event", "withdrawing"} =>
       c.op \in {"register", "withdraw"}
  /\ c.pc \in {"assets", "deposit"} => c.k \in Assets
  /\ c.op \in {"register", "withdraw"} => AllDeposited
  /\ c.op = "fund" /\ c.res = "nil" => AllDeposited
  /\ c.op = "withdraw" /\ c.res = "nil" => \A a \in Assets : WithdrawalSeen(a, p)

\* left is 0 for those whose deposit was counted, and n is how many are left.
Counting(a, w) ==
  /\ w.left \in [Parts -> Nat]
  /\ \A q \in Parts : w.left[q] \in {0, Agreement[a][q]}
                      /\ (w.left[q] = 0 => DepositSeen(a, q))
  /\ w.n = Cardinality({q \in Parts : w.left[q] # 0})

\* What holds of its goroutine w for asset a.
WaitOK(p, a, c, w) ==
  /\ c.op = "fund" =>
       /\ c.pc # "idle" => w.pc \in {"wait", "ok", "timedOut", "ctxErr"}
       /\ w.pc = "wait" => Counting(a, w)
       /\ w.pc = "ok" => \A q \in Parts : DepositSeen(a, q)
  /\ c.pc = "withdrawing" /\ w.pc = "ok" => WithdrawalSeen(a, p)

CallsOK ==
  \A p \in Parts : /\ CallOK(p, call[p])
                    /\ \A a \in Assets : WaitOK(p, a, call[p], wait[p][a])

ChainOK ==
  /\ PoolOK /\ LogOK
  /\ \A p \in Parts : NonceOK(p) /\ \A a \in Assets : FundsOK(a, p)

Inv == TypeOK /\ ChainOK /\ CallsOK

-----------------------------------------------------------------------------
(* Initially *)

LEMMA Rows ==
  /\ Assets = 1..Len(Depositor) /\ 1 \in Assets /\ \A a \in Assets : a \in Nat
  /\ \A p \in Parts : p \in Nat
  /\ \A row \in [Parts -> Nat] : row \in Seq(Nat) /\ DOMAIN row = 1..Len(row) /\ 1..Len(row) = Parts
  /\ \A a \in Assets : Agreement[a] \in [Parts -> Nat] /\ Outcome[a] \in [Parts -> Nat]
<1>1. /\ Assets = 1..Len(Depositor) /\ 1 \in Assets /\ \A a \in Assets : a \in Nat
  BY ChannelAssumption DEF Assets
<1>2. Cardinality(Parts) \in Nat
  BY ChannelAssumption, FS_CardinalityType
<1> DEFINE n == Cardinality(Parts)
<1> HIDE DEF n
<1>3. Parts = 1..n /\ n \in Nat
  BY <1>2, ChannelAssumption DEF n
<1>4. ASSUME NEW row \in [Parts -> Nat]
      PROVE  row \in Seq(Nat) /\ DOMAIN row = 1..Len(row) /\ 1..Len(row) = Parts
  <2>1. row \in [1..n -> Nat]
    BY <1>3
  <2>2. row \in Seq(Nat) /\ Len(row) = n
    BY <2>1, <1>3
  <2> QED BY <2>1, <2>2, <1>3
<1>5. \A a \in Assets : Agreement[a] \in [Parts -> Nat] /\ Outcome[a] \in [Parts -> Nat]
  BY ChannelAssumption
<1>6. \A p \in Parts : p \in Nat
  BY <1>3
<1> QED BY <1>1, <1>4, <1>5, <1>6

LEMMA NoCallType == NoCall \in CallType /\ NoWait \in WaitType
  BY DEF NoCall, NoWait, CallType, WaitType

LEMMA InitInv == Init => Inv
<1> SUFFICES ASSUME Init PROVE Inv
  OBVIOUS
<1>1. TypeOK
  <2>1. log \in Seq(LogEvent) /\ pool \in SUBSET Tx
    BY DEF Init
  <2>2. call \in [Parts -> CallType] /\ wait \in [Parts -> [Assets -> WaitType]]
    BY NoCallType DEF Init
  <2> QED BY <2>1, <2>2 DEF Init, TypeOK
<1>2. \A name, a, p : ~Seen(name, a, p)
  BY DEF Init, Seen
<1>3. \A p \in Parts, a \in Assets : deposited(p, a) = 0
  <2> SUFFICES ASSUME NEW p \in Parts, NEW a \in Assets PROVE deposited(p, a) = 0
    OBVIOUS
  <2> DEFINE s == [i \in DOMAIN log |->
                     IF log[i].name = "Deposited" /\ log[i].asset = a /\ log[i].part = p
                     THEN log[i].amount ELSE 0]
  <2>1. s = <<>>
    BY DEF Init
  <2>2. Total(<<>>) = 0
    <3> DEFINE e == <<>>
    <3>1. e \in Seq(Nat) /\ Len(e) = 0
      OBVIOUS
    <3> HIDE DEF e
    <3>2. PICK f : Sums(f, e) /\ Total(e) = f[Len(e)]
      BY <3>1, TotalSums
    <3>3. Total(e) = 0
      BY <3>1, <3>2 DEF Sums
    <3> QED BY <3>3 DEF e
  <2> QED BY <2>1, <2>2 DEF deposited
<1>4. ChainOK
  BY <1>2, <1>3 DEF ChainOK, PoolOK, LogOK, NonceOK, FundsOK, Init, Concluded
<1>5. CallsOK
  BY DEF CallsOK, CallOK, WaitOK, Init, NoCall, NoWait
<1> QED BY <1>1, <1>4, <1>5 DEF Inv

-----------------------------------------------------------------------------
(* Nonces *)

\* The node never knows of more transactions than were sent, so that the nonce
\* is always the expected one.
LEMMA NonceIsExpected ==
  ASSUME TypeOK, NEW p \in Parts, NonceOK(p), NEW pending \in PendingNonces(p)
  PROVE  NewTransactor(p, pending) = expectedNextNonce[p]
<1>1. nonce[p] \in Nat /\ expectedNextNonce[p] \in Nat
  BY DEF TypeOK
<1>2. pending \in Nat /\ pending >= nonce[p]
  BY <1>1 DEF PendingNonces
<1>3. pending <= expectedNextNonce[p]
  <2> SUFFICES ASSUME pending > expectedNextNonce[p] PROVE FALSE
    BY <1>1, <1>2
  <2>1. expectedNextNonce[p] \in nonce[p]..(pending - 1)
    BY <1>1, <1>2 DEF NonceOK
  <2>2. PICK t \in pool : t.acc = p /\ t.nonce = expectedNextNonce[p]
    BY <2>1 DEF PendingNonces
  <2> QED BY <1>1, <2>2 DEF NonceOK
<1> QED BY <1>1, <1>2, <1>3 DEF NewTransactor

LEMMA SendNonces ==
  ASSUME TypeOK, NEW p \in Parts, NEW fn \in Fns, NEW a \in Nat, NEW amount \in Nat,
         \A q \in Parts : NonceOK(q), Send(p, expectedNextNonce[p], fn, a, amount)
  PROVE  \A q \in Parts : NonceOK(q)'
<1> DEFINE x == [acc |-> p, nonce |-> expectedNextNonce[p], fn |-> fn, asset |-> a,
                 amount |-> amount]
<1>1. /\ pool' = pool \cup {x} /\ nonce' = nonce /\ unsent' = unsent
      /\ expectedNextNonce' = [expectedNextNonce EXCEPT ![p] = expectedNextNonce[p] + 1]
  BY DEF Send
<1>2. x.acc = p /\ x.nonce = expectedNextNonce[p]
  OBVIOUS
<1> HIDE DEF x
<1>3. expectedNextNonce[p] \in Nat /\ nonce[p] \in Nat /\ expectedNextNonce'[p] = expectedNextNonce[p] + 1
  BY <1>1 DEF TypeOK
<1>4. NonceOK(p)'
  <2>1. \A t \in pool : t.acc = p => t.nonce # x.nonce /\ t.nonce \in nonce[p]..(expectedNextNonce[p] - 1)
    BY <1>2, <1>3 DEF NonceOK
  <2>2. nonce'[p] <= expectedNextNonce'[p]
    BY <1>1, <1>3 DEF NonceOK
  <2>3. \A n \in nonce'[p]..(expectedNextNonce'[p] - 1) :
          <<p, n>> \in unsent' \/ \E t \in pool' : t.acc = p /\ t.nonce = n
    <3> SUFFICES ASSUME NEW n \in nonce[p]..expectedNextNonce[p]
                 PROVE  <<p, n>> \in unsent \/ \E t \in pool \cup {x} : t.acc = p /\ t.nonce = n
      BY <1>1, <1>3
    <3>1. CASE n = expectedNextNonce[p]
      BY <1>2, <3>1
    <3>2. CASE n # expectedNextNonce[p]
      BY <1>3, <3>2 DEF NonceOK
    <3> QED BY <3>1, <3>2
  <2>4. \A t \in pool' : t.acc = p => t.nonce \in nonce'[p]..(expectedNextNonce'[p] - 1)
    <3> SUFFICES ASSUME NEW t \in pool \cup {x}, t.acc = p
                 PROVE  t.nonce \in nonce[p]..expectedNextNonce[p]
      BY <1>1, <1>3
    <3>1. CASE t = x
      BY <1>2, <1>3, <3>1 DEF NonceOK
    <3>2. CASE t \in pool
      BY <1>3, <2>1, <3>2
    <3> QED BY <3>1, <3>2
  <2>5. \A t, u \in pool' : t.acc = p /\ u.acc = p /\ t.nonce = u.nonce => t = u
    BY <1>1, <2>1 DEF NonceOK
  <2> QED BY <2>2, <2>3, <2>4, <2>5 DEF NonceOK
<1>5. ASSUME NEW q \in Parts \ {p} PROVE NonceOK(q)'
  <2>1. expectedNextNonce'[q] = expectedNextNonce[q]
    BY <1>1 DEF TypeOK
  <2> QED BY <1>1, <1>2, <2>1 DEF NonceOK
<1> QED BY <1>4, <1>5

LEMMA SendFailsNonces ==
  ASSUME TypeOK, NEW p \in Parts, \A q \in Parts : NonceOK(q),
         SendFails(p, expectedNextNonce[p])
  PROVE  \A q \in Parts : NonceOK(q)'
<1>1. /\ pool' = pool /\ nonce' = nonce /\ unsent' = unsent \cup {<<p, expectedNextNonce[p]>>}
      /\ expectedNextNonce' = [expectedNextNonce EXCEPT ![p] = expectedNextNonce[p] + 1]
  BY DEF SendFails, chainVars
<1>2. /\ expectedNextNonce[p] \in Nat /\ nonce[p] \in Nat
      /\ expectedNextNonce'[p] = expectedNextNonce[p] + 1
  BY <1>1 DEF TypeOK
<1>3. NonceOK(p)'
  <2>1. nonce'[p] <= expectedNextNonce'[p]
    BY <1>1, <1>2 DEF NonceOK
  <2>2. \A n \in nonce'[p]..(expectedNextNonce'[p] - 1) :
          <<p, n>> \in unsent' \/ \E t \in pool' : t.acc = p /\ t.nonce = n
    <3> SUFFICES ASSUME NEW n \in nonce[p]..expectedNextNonce[p]
                 PROVE  <<p, n>> \in unsent' \/ \E t \in pool : t.acc = p /\ t.nonce = n
      BY <1>1, <1>2
    <3>1. CASE n = expectedNextNonce[p]
      BY <1>1, <3>1
    <3>2. CASE n # expectedNextNonce[p]
      BY <1>1, <1>2, <3>2 DEF NonceOK
    <3> QED BY <3>1, <3>2
  <2>3. \A t \in pool' : t.acc = p => t.nonce \in nonce'[p]..(expectedNextNonce'[p] - 1)
    BY <1>1, <1>2 DEF NonceOK
  <2>4. \A t, u \in pool' : t.acc = p /\ u.acc = p /\ t.nonce = u.nonce => t = u
    BY <1>1 DEF NonceOK
  <2> QED BY <2>1, <2>2, <2>3, <2>4 DEF NonceOK
<1>4. ASSUME NEW q \in Parts \ {p} PROVE NonceOK(q)'
  <2>1. expectedNextNonce'[q] = expectedNextNonce[q]
    BY <1>1 DEF TypeOK
  <2> QED BY <1>1, <2>1 DEF NonceOK
<1> QED BY <1>3, <1>4

LEMMA MineNonces ==
  ASSUME TypeOK, NEW t \in pool, \A q \in Parts : NonceOK(q), Mine(t)
  PROVE  \A q \in Parts : NonceOK(q)'
<1>1. /\ pool' = pool \ {t} /\ unsent' = unsent /\ expectedNextNonce' = expectedNextNonce
      /\ nonce' = [nonce EXCEPT ![t.acc] = nonce[t.acc] + 1] /\ t.nonce = nonce[t.acc]
  BY DEF Mine
<1>2. t.acc \in Parts /\ t.nonce \in Nat
  BY DEF TypeOK, Tx
<1>3. ASSUME NEW q \in Parts \ {t.acc} PROVE NonceOK(q)'
  <2>1. nonce'[q] = nonce[q]
    BY <1>1 DEF TypeOK
  <2> QED BY <1>1, <2>1 DEF NonceOK
<1>4. NonceOK(t.acc)'
  <2> DEFINE p == t.acc
  <2>1. /\ nonce[p] \in Nat /\ expectedNextNonce[p] \in Nat /\ nonce'[p] = nonce[p] + 1
        /\ t.nonce = nonce[p] /\ p \in Parts
    BY <1>1, <1>2 DEF TypeOK
  <2>2. NonceOK(p)
    BY <1>2
  <2>3. nonce'[p] <= expectedNextNonce'[p]
    BY <1>1, <2>1, <2>2 DEF NonceOK
  <2>4. \A u \in pool : u.acc = p => u.nonce \in Nat
    BY DEF TypeOK, Tx
  <2>5. \A n \in nonce'[p]..(expectedNextNonce'[p] - 1) :
          <<p, n>> \in unsent' \/ \E u \in pool' : u.acc = p /\ u.nonce = n
    BY <1>1, <2>1, <2>2 DEF NonceOK
  <2>6. \A u \in pool' : u.acc = p => u.nonce \in nonce'[p]..(expectedNextNonce'[p] - 1)
    <3> SUFFICES ASSUME NEW u \in pool, u # t, u.acc = p
                 PROVE  u.nonce \in (nonce[p] + 1)..(expectedNextNonce[p] - 1)
      BY <1>1, <2>1
    <3>1. u.nonce # t.nonce /\ u.nonce \in nonce[p]..(expectedNextNonce[p] - 1)
      BY <2>2 DEF NonceOK
    <3> QED BY <2>1, <3>1
  <2>7. \A u, v \in pool' : u.acc = p /\ v.acc = p /\ u.nonce = v.nonce => u = v
    BY <1>1, <2>2 DEF NonceOK
  <2> HIDE DEF p
  <2>8. NonceOK(p)'
    BY <2>3, <2>5, <2>6, <2>7 DEF NonceOK
  <2> QED BY <2>8 DEF p
<1> QED BY <1>3, <1>4

-----------------------------------------------------------------------------
(* The log *)

\* A step leaves the log or appends an event to it.
Grows == log' = log \/ \E e \in LogEvent : log' = Append(log, e)

LEMMA AppendEvent ==
  ASSUME TypeOK, NEW e \in LogEvent, log' = Append(log, e)
  PROVE  /\ log' \in Seq(LogEvent) /\ DOMAIN log' = 1..(Len(log) + 1)
         /\ Len(log) \in Nat /\ DOMAIN log = 1..Len(log) /\ Len(log') = Len(log) + 1
         /\ log'[Len(log) + 1] = e
         /\ \A i \in DOMAIN log : log'[i] = log[i]
<1>1. log \in Seq(LogEvent)
  BY DEF TypeOK
<1> QED BY <1>1

\* Nothing that was seen is lost.
LEMMA SeenGrows ==
  ASSUME TypeOK, Grows, NEW name, NEW a, NEW p, Seen(name, a, p)
  PROVE  Seen(name, a, p)'
<1>1. CASE log' = log
  BY <1>1 DEF Seen
<1>2. ASSUME NEW e \in LogEvent, log' = Append(log, e) PROVE Seen(name, a, p)'
  <2>1. /\ DOMAIN log' = 1..(Len(log) + 1) /\ Len(log) \in Nat /\ DOMAIN log = 1..Len(log)
        /\ \A i \in DOMAIN log : log'[i] = log[i]
    BY <1>2, AppendEvent
  <2>2. PICK i \in DOMAIN log : log[i].name = name /\ log[i].asset = a /\ log[i].part = p
    BY DEF Seen
  <2>3. i \in DOMAIN log' /\ log'[i] = log[i]
    BY <2>1
  <2> QED BY <2>2, <2>3 DEF Seen
<1> QED BY <1>1, <1>2 DEF Grows

LEMMA DepositSeenGrows ==
  ASSUME TypeOK, Grows
  PROVE  /\ \A a, q : DepositSeen(a, q) => DepositSeen(a, q)'
         /\ AllDeposited => AllDeposited'
         /\ \A a, q : WithdrawalSeen(a, q) => WithdrawalSeen(a, q)'
<1>1. \A name, a, q : Seen(name, a, q) => Seen(name, a, q)'
  BY SeenGrows
<1>2. \A a, q : DepositSeen(a, q) => DepositSeen(a, q)'
  BY <1>1 DEF DepositSeen
<1>3. \A a, q : WithdrawalSeen(a, q) => WithdrawalSeen(a, q)'
  BY <1>1 DEF WithdrawalSeen
<1> QED BY <1>2, <1>3 DEF AllDeposited

\* Another event makes nothing seen but itself.
LEMMA SeenAppend ==
  ASSUME TypeOK, NEW e \in LogEvent, log' = Append(log, e), NEW name, NEW a, NEW p,
         Seen(name, a, p)'
  PROVE  Seen(name, a, p) \/ (e.name = name /\ e.asset = a /\ e.part = p)
<1>1. /\ DOMAIN log' = 1..(Len(log) + 1) /\ Len(log) \in Nat /\ DOMAIN log = 1..Len(log)
      /\ \A i \in DOMAIN log : log'[i] = log[i]
      /\ log'[Len(log) + 1] = e
  BY AppendEvent
<1>2. PICK i \in DOMAIN log' : log'[i].name = name /\ log'[i].asset = a /\ log'[i].part = p
  BY DEF Seen
<1>3. CASE i \in DOMAIN log
  BY <1>1, <1>2, <1>3 DEF Seen
<1>4. CASE i = Len(log) + 1
  BY <1>1, <1>2, <1>4
<1> QED BY <1>1, <1>3, <1>4

\* The amounts that deposited sums.
amounts(p, a) ==
  [i \in DOMAIN log |->
     IF log[i].name = "Deposited" /\ log[i].asset = a /\ log[i].part = p
     THEN log[i].amount ELSE 0]

LEMMA AmountsType ==
  ASSUME TypeOK, NEW p, NEW a
  PROVE  /\ amounts(p, a) \in Seq(Nat) /\ Len(amounts(p, a)) = Len(log)
         /\ \A i \in DOMAIN log : amounts(p, a)[i] =
              IF log[i].name = "Deposited" /\ log[i].asset = a /\ log[i].part = p
              THEN log[i].amount ELSE 0
<1>1. log \in Seq(LogEvent) /\ DOMAIN log = 1..Len(log) /\ Len(log) \in Nat
  BY DEF TypeOK
<1>2. \A i \in DOMAIN log : log[i].amount \in Nat
  <2>1. \A i \in DOMAIN log : log[i] \in LogEvent
    BY <1>1
  <2> QED BY <2>1 DEF LogEvent
<1>3. amounts(p, a) \in [1..Len(log) -> Nat]
  BY <1>1, <1>2 DEF amounts
<1> QED BY <1>1, <1>3 DEF amounts

LEMMA DepositedAppend ==
  ASSUME TypeOK, NEW e \in LogEvent, log' = Append(log, e), NEW p, NEW a
  PROVE  /\ deposited(p, a) \in Nat
         /\ deposited(p, a)' = deposited(p, a) +
              (IF e.name = "Deposited" /\ e.asset = a /\ e.part = p THEN e.amount ELSE 0)
<1> DEFINE x == IF e.name = "Deposited" /\ e.asset = a /\ e.part = p THEN e.amount ELSE 0
<1>1. /\ log' \in Seq(LogEvent) /\ DOMAIN log' = 1..(Len(log) + 1)
      /\ Len(log) \in Nat /\ DOMAIN log = 1..Len(log)
      /\ log'[Len(log) + 1] = e
      /\ \A i \in DOMAIN log : log'[i] = log[i]
  BY AppendEvent
<1>2. /\ amounts(p, a) \in Seq(Nat) /\ Len(amounts(p, a)) = Len(log)
      /\ \A i \in DOMAIN log : amounts(p, a)[i] =
           IF log[i].name = "Deposited" /\ log[i].asset = a /\ log[i].part = p
           THEN log[i].amount ELSE 0
  BY AmountsType
<1>3. x \in Nat
  BY DEF LogEvent
<1>4. amounts(p, a)' = Append(amounts(p, a), x)
  <2> DEFINE s == amounts(p, a)
             t == [i \in 1..(Len(log) + 1) |->
                     IF log'[i].name = "Deposited" /\ log'[i].asset = a /\ log'[i].part = p
                     THEN log'[i].amount ELSE 0]
  <2>1. amounts(p, a)' = t
    BY <1>1 DEF amounts
  <2>2. \A i \in 1..Len(log) : t[i] = s[i]
    BY <1>1, <1>2
  <2>3. t[Len(log) + 1] = x
    BY <1>1
  <2>4. t \in Seq(Nat) /\ Len(t) = Len(log) + 1
    <3>1. \A i \in 1..(Len(log) + 1) : t[i] \in Nat
      BY <2>2, <2>3, <1>2, <1>3, <1>1
    <3>2. t \in [1..(Len(log) + 1) -> Nat]
      BY <3>1
    <3> HIDE DEF t
    <3> QED BY <3>2, <1>1
  <2> HIDE DEF t, s, x
  <2>5. s \in Seq(Nat) /\ Len(s) = Len(log) /\ x \in Nat
    BY <1>2, <1>3 DEF s
  <2>6. t = Append(s, x)
    BY <1>1, <2>2, <2>3, <2>4, <2>5
  <2> QED BY <2>1, <2>6 DEF s
<1>5. Total(Append(amounts(p, a), x)) = Total(amounts(p, a)) + x /\ Total(amounts(p, a)) \in Nat
  BY <1>2, <1>3, TotalAppend, TotalType
<1>6. deposited(p, a) = Total(amounts(p, a))
  BY DEF deposited, amounts
<1>7. deposited(p, a)' = Total(amounts(p, a)')
  BY DEF deposited, amounts
<1> QED BY <1>4, <1>5, <1>6, <1>7

\* Who has deposited has deposited what was agreed.
LEMMA DepositedEnough ==
  ASSUME TypeOK, LogOK, NEW a \in Assets, NEW q \in Parts
  PROVE  /\ deposited(q, a) \in Nat
         /\ DepositSeen(a, q) => deposited(q, a) >= Agreement[a][q]
<1>1. /\ amounts(q, a) \in Seq(Nat) /\ Len(amounts(q, a)) = Len(log)
      /\ \A i \in DOMAIN log : amounts(q, a)[i] =
           IF log[i].name = "Deposited" /\ log[i].asset = a /\ log[i].part = q
           THEN log[i].amount ELSE 0
  BY AmountsType
<1>2. deposited(q, a) = Total(amounts(q, a))
  BY DEF deposited, amounts
<1>3. Total(amounts(q, a)) \in Nat
  BY <1>1, TotalType
<1>4. ASSUME Seen("Deposited", a, q) PROVE Total(amounts(q, a)) >= Agreement[a][q]
  <2>1. PICK i \in DOMAIN log : log[i].name = "Deposited" /\ log[i].asset = a /\ log[i].part = q
    BY <1>4 DEF Seen
  <2>2. amounts(q, a)[i] = Agreement[a][q]
    BY <1>1, <2>1 DEF LogOK
  <2>3. i \in 1..Len(amounts(q, a))
    BY <1>1 DEF TypeOK
  <2>4. amounts(q, a)[i] <= Total(amounts(q, a))
    BY <1>1, <2>3, TotalElement
  <2>5. Agreement[a][q] \in Nat
    BY Rows
  <2> QED BY <1>3, <2>2, <2>4, <2>5
<1> QED BY <1>2, <1>3, <1>4 DEF DepositSeen

-----------------------------------------------------------------------------
(* Mining a transaction *)

LEMMA EventType ==
  ASSUME NEW name \in {"Deposited", "Registered", "Concluded", "Withdrawn"},
         NEW a \in Nat, NEW p \in Nat, NEW amount \in Nat
  PROVE  /\ Event(name, a, p, amount) \in LogEvent
         /\ Event(name, a, p, amount).name = name /\ Event(name, a, p, amount).asset = a
         /\ Event(name, a, p, amount).part = p /\ Event(name, a, p, amount).amount = amount
  BY DEF Event, LogEvent

\* The types of a transaction and of what it moves.
LEMMA TxTypes ==
  ASSUME TypeOK, PoolOK, NEW t \in pool
  PROVE  /\ t.acc \in Parts /\ t.acc \in Nat /\ t.fn \in Fns /\ t.asset \in Nat /\ t.amount \in Nat
         /\ t.fn \in {"deposit", "withdraw"} =>
              /\ t.asset \in Assets
              /\ holdings[t.asset] \in [Parts -> Nat] /\ holdings[t.asset][t.acc] \in Nat
              /\ paid[t.asset] \in [Parts -> Nat] /\ paid[t.asset][t.acc] \in Nat
<1>1. t \in Tx
  BY DEF TypeOK
<1>2. t.acc \in Parts /\ t.fn \in Fns /\ t.asset \in Nat /\ t.amount \in Nat
  BY <1>1 DEF Tx
<1>3. t.fn \in {"deposit", "withdraw"} => t.asset \in Assets
  BY DEF PoolOK
<1> QED BY <1>2, <1>3, Rows DEF TypeOK

\* What the types and the amounts need of a step of the chain.
ChainStep ==
  /\ Grows
  /\ holdings' \in [Assets -> [Parts -> Nat]] /\ paid' \in [Assets -> [Parts -> Nat]]
  /\ dispute' \in {"none", "dispute", "elapsed", "concluded"}
  /\ LogOK'
  /\ \A p \in Parts, a \in Assets : FundsOK(a, p)'

LEMMA FundsSame ==
  ASSUME Inv, log' = log, holdings' = holdings, paid' = paid, Concluded' <=> Concluded,
         dispute' \in {"none", "dispute", "elapsed", "concluded"}
  PROVE  ChainStep
<1>1. \A p, a : deposited(p, a)' = deposited(p, a)
  BY DEF deposited
<1>2. \A p, a : Seen("Withdrawn", a, p)' <=> Seen("Withdrawn", a, p)
  BY DEF Seen
<1>3. ASSUME NEW p \in Parts, NEW a \in Assets PROVE FundsOK(a, p)'
  BY <1>1, <1>2 DEF Inv, ChainOK, FundsOK
<1>4. LogOK'
  BY DEF Inv, ChainOK, LogOK
<1> QED BY <1>3, <1>4 DEF ChainStep, Grows, Inv, TypeOK

\* An event that is no deposit and no withdrawal leaves the sums alone.
LEMMA OtherEvent ==
  ASSUME TypeOK, LogOK, NEW e \in LogEvent, e.name # "Deposited", log' = Append(log, e)
  PROVE  /\ Grows /\ LogOK'
         /\ \A p \in Parts, a \in Assets : deposited(p, a)' = deposited(p, a)
         /\ e.name # "Withdrawn" =>
              \A p, a : Seen("Withdrawn", a, p)' => Seen("Withdrawn", a, p)
<1>1. /\ DOMAIN log' = 1..(Len(log) + 1) /\ Len(log) \in Nat /\ DOMAIN log = 1..Len(log)
      /\ log'[Len(log) + 1] = e /\ \A i \in DOMAIN log : log'[i] = log[i]
  BY AppendEvent
<1>2. LogOK'
  <2> SUFFICES ASSUME NEW i \in DOMAIN log', log'[i].name = "Deposited"
               PROVE  /\ log'[i].asset \in Assets /\ log'[i].part \in Parts
                      /\ log'[i].amount = Agreement[log'[i].asset][log'[i].part]
    BY DEF LogOK
  <2>1. i \in DOMAIN log /\ log'[i] = log[i]
    BY <1>1
  <2> QED BY <2>1 DEF LogOK
<1>3. ASSUME NEW p \in Parts, NEW a \in Assets PROVE deposited(p, a)' = deposited(p, a)
  <2>1. deposited(p, a)' = deposited(p, a) + 0 /\ deposited(p, a) \in Nat
    BY DepositedAppend
  <2> QED BY <2>1
<1>4. e.name # "Withdrawn" => \A p, a : Seen("Withdrawn", a, p)' => Seen("Withdrawn", a, p)
  BY SeenAppend
<1> QED BY <1>2, <1>3, <1>4 DEF Grows

LEMMA MineRegister ==
  ASSUME Inv, NEW t \in pool, Succeeds(t), t.fn = "register", Register(t)
  PROVE  ChainStep
<1> DEFINE e == Event("Registered", 0, 0, 0)
<1>1. e \in LogEvent /\ e.name = "Registered"
  BY EventType
<1> HIDE DEF e
<1>2. log' = Append(log, e) /\ dispute' = "dispute" /\ holdings' = holdings /\ paid' = paid
  BY DEF Register, e
<1>3. ~Concluded /\ ~Concluded'
  BY <1>2 DEF Succeeds, Concluded
<1>4. /\ Grows /\ LogOK'
      /\ \A p \in Parts, a \in Assets : deposited(p, a)' = deposited(p, a)
      /\ \A p, a : Seen("Withdrawn", a, p)' => Seen("Withdrawn", a, p)
  BY <1>1, <1>2, OtherEvent DEF Inv, ChainOK
<1>5. ASSUME NEW p \in Parts, NEW a \in Assets PROVE FundsOK(a, p)'
  <2>1. FundsOK(a, p)
    BY DEF Inv, ChainOK
  <2> QED BY <1>2, <1>3, <1>4, <2>1 DEF FundsOK
<1> QED BY <1>2, <1>4, <1>5 DEF ChainStep, Inv, TypeOK

\* Concluding a channel that everybody has funded sets the outcome.
LEMMA MineConclude ==
  ASSUME Inv, NEW t \in pool, Succeeds(t), t.fn \in {"conclude", "concludeFinal"}, Conclude(t)
  PROVE  ChainStep
<1> DEFINE e == Event("Concluded", 0, 0, 0)
<1>1. e \in LogEvent /\ e.name = "Concluded"
  BY EventType
<1> HIDE DEF e
<1>2. /\ log' = Append(log, e) /\ dispute' = "concluded" /\ paid' = paid
      /\ holdings' = [a \in Assets |->
           IF Total(holdings[a]) >= Total(Outcome[a]) THEN Outcome[a] ELSE holdings[a]]
  BY DEF Conclude, e
<1>3. ~Concluded /\ Concluded'
  BY <1>2 DEF Succeeds, Concluded
<1>4. /\ Grows /\ LogOK'
      /\ \A p \in Parts, a \in Assets : deposited(p, a)' = deposited(p, a)
      /\ \A p, a : Seen("Withdrawn", a, p)' => Seen("Withdrawn", a, p)
  BY <1>1, <1>2, OtherEvent DEF Inv, ChainOK
<1>5. AllDeposited
  BY DEF Inv, ChainOK, PoolOK
<1>6. ASSUME NEW p \in Parts, NEW a \in Assets
      PROVE  /\ deposited(p, a) \in Nat /\ deposited(p, a) >= Agreement[a][p]
             /\ holdings[a][p] = deposited(p, a) /\ paid[a][p] = 0
             /\ Agreement[a][p] \in Nat /\ Outcome[a][p] \in Nat
  <2>1. deposited(p, a) \in Nat /\ deposited(p, a) >= Agreement[a][p]
    BY <1>5, DepositedEnough DEF Inv, ChainOK, AllDeposited
  <2>2. holdings[a][p] = deposited(p, a) /\ paid[a][p] = 0
    BY <1>3 DEF Inv, ChainOK, FundsOK
  <2> QED BY <2>1, <2>2, Rows
<1>7. ASSUME NEW a \in Assets PROVE holdings'[a] = Outcome[a] /\ Outcome[a] \in [Parts -> Nat]
  <2>1. /\ Agreement[a] \in Seq(Nat) /\ 1..Len(Agreement[a]) = Parts /\ Len(Agreement[a]) \in Nat
        /\ Agreement[a] \in [Parts -> Nat]
    BY Rows
  <2>2. /\ holdings[a] \in Seq(Nat) /\ 1..Len(holdings[a]) = Parts /\ Len(holdings[a]) \in Nat
        /\ holdings[a] \in [Parts -> Nat]
    BY Rows DEF Inv, TypeOK
  <2>3. Len(Agreement[a]) = Len(holdings[a])
    BY <2>1, <2>2
  <2>4. \A i \in 1..Len(Agreement[a]) : Agreement[a][i] <= holdings[a][i]
    BY <1>6, <2>1
  <2>5. Total(Agreement[a]) <= Total(holdings[a])
    BY <2>1, <2>2, <2>3, <2>4, TotalMonotone
  <2>6. Total(Outcome[a]) = Total(Agreement[a])
    BY ChannelAssumption
  <2>7. Total(Agreement[a]) \in Nat /\ Total(holdings[a]) \in Nat
    BY <2>1, <2>2, TotalType
  <2>8. Total(holdings[a]) >= Total(Outcome[a])
    BY <2>5, <2>6, <2>7
  <2> QED BY <1>2, <2>8, Rows
<1>8. ASSUME NEW p \in Parts, NEW a \in Assets PROVE FundsOK(a, p)'
  <2>1. holdings'[a][p] = Outcome[a][p] /\ paid'[a][p] = 0 /\ deposited(p, a)' = deposited(p, a)
    BY <1>2, <1>4, <1>6, <1>7
  <2>2. FundsOK(a, p)
    BY DEF Inv, ChainOK
  <2>3. Outcome[a][p] + 0 <= Outcome[a][p] + deposited(p, a) - Agreement[a][p]
    BY <1>6
  <2>4. Seen("Withdrawn", a, p)' => paid'[a][p] >= Outcome[a][p]
    BY <1>2, <1>4, <2>2 DEF FundsOK
  <2> QED BY <1>3, <2>1, <2>3, <2>4 DEF FundsOK
<1>9. holdings' \in [Assets -> [Parts -> Nat]]
  BY <1>2, <1>7
<1> QED BY <1>2, <1>4, <1>8, <1>9 DEF ChainStep, Inv, TypeOK

LEMMA MineDeposit ==
  ASSUME Inv, NEW t \in pool, Succeeds(t), t.fn = "deposit", Deposit(t)
  PROVE  ChainStep
<1> DEFINE e == Event("Deposited", t.asset, t.acc, t.amount)
<1>1. /\ t.acc \in Parts /\ t.acc \in Nat /\ t.asset \in Assets /\ t.asset \in Nat /\ t.amount \in Nat
      /\ holdings[t.asset] \in [Parts -> Nat] /\ holdings[t.asset][t.acc] \in Nat
      /\ t.amount = Agreement[t.asset][t.acc]
  <2>1. t.amount = Agreement[t.asset][t.acc]
    BY DEF Inv, ChainOK, PoolOK
  <2> QED BY <2>1, TxTypes DEF Inv, ChainOK
<1>2. /\ e \in LogEvent /\ e.name = "Deposited" /\ e.asset = t.asset /\ e.part = t.acc
      /\ e.amount = t.amount
  BY <1>1 DEF Event, LogEvent
<1> HIDE DEF e
<1>3. /\ log' = Append(log, e) /\ dispute' = dispute /\ paid' = paid
      /\ holdings' = [holdings EXCEPT ![t.asset][t.acc] = holdings[t.asset][t.acc] + t.amount]
  BY DEF Deposit, e
<1>4. Grows /\ (Concluded' <=> Concluded)
  BY <1>2, <1>3 DEF Grows, Concluded
<1>5. ASSUME NEW p \in Parts, NEW a \in Assets
      PROVE  holdings'[a][p] = holdings[a][p] + (IF t.asset = a /\ t.acc = p THEN t.amount ELSE 0)
  <2>1. holdings[a][p] \in Nat /\ holdings \in [Assets -> [Parts -> Nat]]
    BY DEF Inv, TypeOK
  <2>2. CASE t.asset = a
    BY <1>1, <1>3, <2>1, <2>2
  <2>3. CASE t.asset # a
    BY <1>1, <1>3, <2>1, <2>3
  <2> QED BY <2>2, <2>3
<1>6. holdings' \in [Assets -> [Parts -> Nat]]
  BY <1>1, <1>3 DEF Inv, TypeOK
<1>7. LogOK'
  <2>1. /\ DOMAIN log' = 1..(Len(log) + 1) /\ Len(log) \in Nat /\ DOMAIN log = 1..Len(log)
        /\ log'[Len(log) + 1] = e /\ \A i \in DOMAIN log : log'[i] = log[i]
    BY <1>2, <1>3, AppendEvent DEF Inv
  <2> SUFFICES ASSUME NEW i \in DOMAIN log', log'[i].name = "Deposited"
               PROVE  /\ log'[i].asset \in Assets /\ log'[i].part \in Parts
                      /\ log'[i].amount = Agreement[log'[i].asset][log'[i].part]
    BY DEF LogOK
  <2>2. CASE i \in DOMAIN log
    BY <2>1, <2>2 DEF Inv, ChainOK, LogOK
  <2>3. CASE i = Len(log) + 1
    BY <1>1, <1>2, <2>1, <2>3
  <2> QED BY <2>1, <2>2, <2>3
<1>8. ASSUME NEW p \in Parts, NEW a \in Assets PROVE FundsOK(a, p)'
  <2> DEFINE x == IF t.asset = a /\ t.acc = p THEN t.amount ELSE 0
  <2>1. deposited(p, a)' = deposited(p, a) + x /\ deposited(p, a) \in Nat
    <3>1. /\ deposited(p, a) \in Nat
          /\ deposited(p, a)' = deposited(p, a) +
               (IF e.name = "Deposited" /\ e.asset = a /\ e.part = p THEN e.amount ELSE 0)
      BY <1>2, <1>3, DepositedAppend DEF Inv
    <3> QED BY <3>1, <1>2
  <2>2. holdings'[a][p] = holdings[a][p] + x /\ x \in Nat /\ paid'[a][p] = paid[a][p]
    BY <1>1, <1>3, <1>5
  <2> HIDE DEF x
  <2>3. holdings[a][p] \in Nat /\ paid[a][p] \in Nat /\ Agreement[a][p] \in Nat /\ Outcome[a][p] \in Nat
    BY Rows DEF Inv, TypeOK
  <2>4. FundsOK(a, p)
    BY DEF Inv, ChainOK
  <2>5. Seen("Withdrawn", a, p)' => Seen("Withdrawn", a, p)
    BY <1>2, <1>3, SeenAppend DEF Inv
  <2>6. ~Concluded' => paid'[a][p] = 0 /\ holdings'[a][p] = deposited(p, a)'
    BY <1>4, <2>1, <2>2, <2>4 DEF FundsOK
  <2>7. Concluded' => holdings'[a][p] + paid'[a][p]
                        <= Outcome[a][p] + deposited(p, a)' - Agreement[a][p]
    BY <1>4, <2>1, <2>2, <2>3, <2>4 DEF FundsOK
  <2>8. Seen("Withdrawn", a, p)' => paid'[a][p] >= Outcome[a][p]
    BY <2>2, <2>4, <2>5 DEF FundsOK
  <2> QED BY <2>6, <2>7, <2>8 DEF FundsOK
<1> QED BY <1>3, <1>4, <1>6, <1>7, <1>8 DEF ChainStep, Inv, TypeOK

\* A withdrawal pays what is held, so that all withdrawals together pay no more.
LEMMA MineWithdraw ==
  ASSUME Inv, NEW t \in pool, Succeeds(t), t.fn = "withdraw", Withdraw(t)
  PROVE  ChainStep
<1> DEFINE e == Event("Withdrawn", t.asset, t.acc, t.amount)
<1>1. /\ t.acc \in Parts /\ t.acc \in Nat /\ t.asset \in Assets /\ t.asset \in Nat /\ t.amount \in Nat
      /\ holdings[t.asset] \in [Parts -> Nat] /\ holdings[t.asset][t.acc] \in Nat
      /\ paid[t.asset] \in [Parts -> Nat] /\ paid[t.asset][t.acc] \in Nat
      /\ t.amount = Outcome[t.asset][t.acc]
  <2>1. t.amount = Outcome[t.asset][t.acc]
    BY DEF Inv, ChainOK, PoolOK
  <2> QED BY <2>1, TxTypes DEF Inv, ChainOK
<1>2. e \in LogEvent /\ e.name = "Withdrawn" /\ e.asset = t.asset /\ e.part = t.acc
  BY <1>1 DEF Event, LogEvent
<1> HIDE DEF e
<1>3. /\ log' = Append(log, e) /\ dispute' = dispute
      /\ holdings' = [holdings EXCEPT ![t.asset][t.acc] = holdings[t.asset][t.acc] - t.amount]
      /\ paid' = [paid EXCEPT ![t.asset][t.acc] = paid[t.asset][t.acc] + t.amount]
  BY DEF Withdraw, e
<1>4. Concluded /\ Concluded' /\ holdings[t.asset][t.acc] >= t.amount
  BY <1>3 DEF Succeeds, Concluded
<1>5. /\ Grows /\ LogOK'
      /\ \A p \in Parts, a \in Assets : deposited(p, a)' = deposited(p, a)
  BY <1>2, <1>3, OtherEvent DEF Inv, ChainOK
<1>6. ASSUME NEW p \in Parts, NEW a \in Assets
      PROVE  LET x == IF t.asset = a /\ t.acc = p THEN t.amount ELSE 0
             IN holdings'[a][p] = holdings[a][p] - x /\ paid'[a][p] = paid[a][p] + x
  <2>1. /\ holdings[a][p] \in Nat /\ holdings \in [Assets -> [Parts -> Nat]]
        /\ paid[a][p] \in Nat /\ paid \in [Assets -> [Parts -> Nat]]
    BY DEF Inv, TypeOK
  <2>2. CASE t.asset = a
    BY <1>1, <1>3, <2>1, <2>2
  <2>3. CASE t.asset # a
    BY <1>1, <1>3, <2>1, <2>3
  <2> QED BY <2>2, <2>3
<1>7. holdings' \in [Assets -> [Parts -> Nat]]
  <2>1. holdings[t.asset][t.acc] - t.amount \in Nat
    BY <1>1, <1>4
  <2> QED BY <1>1, <1>3, <2>1 DEF Inv, TypeOK
<1>8. paid' \in [Assets -> [Parts -> Nat]]
  BY <1>1, <1>3 DEF Inv, TypeOK
<1>9. ASSUME NEW p \in Parts, NEW a \in Assets PROVE FundsOK(a, p)'
  <2> DEFINE x == IF t.asset = a /\ t.acc = p THEN t.amount ELSE 0
  <2>1. holdings'[a][p] = holdings[a][p] - x /\ paid'[a][p] = paid[a][p] + x /\ x \in Nat
    BY <1>1, <1>6
  <2>2. holdings[a][p] \in Nat /\ paid[a][p] \in Nat /\ Agreement[a][p] \in Nat /\ Outcome[a][p] \in Nat
    BY Rows DEF Inv, TypeOK
  <2>3. FundsOK(a, p)
    BY DEF Inv, ChainOK
  <2>4. Seen("Withdrawn", a, p)' =>
          Seen("Withdrawn", a, p) \/ (t.asset = a /\ t.acc = p)
    BY <1>2, <1>3, SeenAppend DEF Inv
  <2>5. t.asset = a /\ t.acc = p => x = Outcome[a][p]
    BY <1>1
  <2> HIDE DEF x
  <2>6. holdings'[a][p] + paid'[a][p] = holdings[a][p] + paid[a][p]
    BY <2>1, <2>2
  <2>7. Seen("Withdrawn", a, p)' => paid'[a][p] >= Outcome[a][p]
    BY <2>1, <2>2, <2>3, <2>4, <2>5 DEF FundsOK
  <2>8. holdings'[a][p] + paid'[a][p] <= Outcome[a][p] + deposited(p, a)' - Agreement[a][p]
    BY <1>4, <1>5, <2>3, <2>6 DEF FundsOK
  <2> QED BY <1>4, <2>7, <2>8 DEF FundsOK
<1> QED BY <1>3, <1>5, <1>7, <1>8, <1>9 DEF ChainStep, Inv, TypeOK

\* Calls rely only on what has been seen.
LEMMA CallsGrow ==
  ASSUME Inv, Grows, call' = call, wait' = wait
  PROVE  CallsOK'
<1>1. /\ \A a, q : DepositSeen(a, q) => DepositSeen(a, q)'
      /\ AllDeposited => AllDeposited'
      /\ \A a, q : WithdrawalSeen(a, q) => WithdrawalSeen(a, q)'
  BY DepositSeenGrows DEF Inv
<1>2. ASSUME NEW p \in Parts PROVE CallOK(p, call[p])'
  <2>1. CallOK(p, call[p])
    BY DEF Inv, CallsOK
  <2> QED BY <1>1, <2>1 DEF CallOK
<1>3. ASSUME NEW p \in Parts, NEW a \in Assets PROVE WaitOK(p, a, call[p], wait[p][a])'
  <2>1. WaitOK(p, a, call[p], wait[p][a])
    BY DEF Inv, CallsOK
  <2>2. Counting(a, wait[p][a]) => Counting(a, wait[p][a])'
    BY <1>1 DEF Counting
  <2> QED BY <1>1, <2>1, <2>2 DEF WaitOK
<1> QED BY <1>2, <1>3 DEF CallsOK

LEMMA ChainStepInv ==
  ASSUME Inv, ChainStep, pool' \subseteq pool, nonce' \in [Parts -> Nat],
         expectedNextNonce' = expectedNextNonce, call' = call, wait' = wait,
         \A p \in Parts : NonceOK(p)'
  PROVE  Inv'
<1>1. log' \in Seq(LogEvent)
  <2>1. CASE log' = log
    BY <2>1 DEF Inv, TypeOK
  <2>2. ASSUME NEW e \in LogEvent, log' = Append(log, e) PROVE log' \in Seq(LogEvent)
    BY <2>2, AppendEvent DEF Inv
  <2> QED BY <2>1, <2>2 DEF ChainStep, Grows
<1>2. TypeOK'
  BY <1>1 DEF Inv, TypeOK, ChainStep
<1>3. PoolOK'
  <2>1. AllDeposited => AllDeposited'
    BY DepositSeenGrows DEF Inv, ChainStep
  <2> QED BY <2>1 DEF Inv, ChainOK, PoolOK
<1>4. CallsOK'
  BY CallsGrow DEF ChainStep
<1> QED BY <1>2, <1>3, <1>4 DEF Inv, ChainOK, ChainStep

LEMMA MineInv ==
  ASSUME Inv, NEW t \in pool, Mine(t)
  PROVE  Inv'
<1>1. ChainStep
  <2>1. CASE UNCHANGED <<log, holdings, allowance, dispute, paid>>
    BY <2>1, FundsSame DEF Inv, TypeOK, Concluded
  <2>2. CASE IncreaseAllowance(t)
    BY <2>2, FundsSame DEF Inv, TypeOK, Concluded, IncreaseAllowance
  <2> QED BY <2>1, <2>2, MineDeposit, MineRegister, MineConclude, MineWithdraw DEF Mine
<1>2. \A p \in Parts : NonceOK(p)'
  BY MineNonces DEF Inv, ChainOK
<1>3. nonce' \in [Parts -> Nat]
  <2>1. t.acc \in Parts
    BY TxTypes DEF Inv, ChainOK
  <2> QED BY <2>1 DEF Mine, Inv, TypeOK
<1> QED BY <1>1, <1>2, <1>3, ChainStepInv DEF Mine

LEMMA ElapseInv ==
  ASSUME Inv, Elapse
  PROVE  Inv'
<1>1. ChainStep
  BY FundsSame DEF Elapse, Inv, TypeOK, Concluded
<1>2. \A p \in Parts : NonceOK(p)'
  BY DEF Elapse, Inv, ChainOK, NonceOK
<1> QED BY <1>1, <1>2, ChainStepInv DEF Elapse, Inv, TypeOK

-----------------------------------------------------------------------------
(* The calls *)

\* The chain and the nonces after a step of a call.
Kept ==
  /\ log' = log /\ ChainOK'
  /\ pool' \in SUBSET Tx /\ nonce' \in [Parts -> Nat] /\ expectedNextNonce' \in [Parts -> Nat]
  /\ holdings' = holdings /\ paid' = paid /\ dispute' = dispute

LEMMA KeptFunds ==
  ASSUME Inv, log' = log, holdings' = holdings, paid' = paid, dispute' = dispute
  PROVE  LogOK' /\ \A p \in Parts, a \in Assets : FundsOK(a, p)'
  BY FundsSame DEF ChainStep, Inv, TypeOK, Concluded

LEMMA QuietKept ==
  ASSUME Inv, UNCHANGED <<chainVars, expectedNextNonce, unsent>>
  PROVE  Kept
<1>1. /\ pool' = pool /\ nonce' = nonce /\ log' = log /\ holdings' = holdings /\ paid' = paid
      /\ dispute' = dispute /\ expectedNextNonce' = expectedNextNonce /\ unsent' = unsent
  BY DEF chainVars
<1>2. LogOK' /\ \A p \in Parts, a \in Assets : FundsOK(a, p)'
  BY <1>1, KeptFunds
<1>3. \A p \in Parts : NonceOK(p)'
  BY <1>1 DEF Inv, ChainOK, NonceOK
<1>4. PoolOK'
  BY <1>1 DEF Inv, ChainOK, PoolOK, AllDeposited, DepositSeen, Seen
<1> QED BY <1>1, <1>2, <1>3, <1>4 DEF Kept, ChainOK, Inv, TypeOK

LEMMA SendFailsKept ==
  ASSUME Inv, NEW p \in Parts, NEW pending \in PendingNonces(p),
         SendFails(p, NewTransactor(p, pending))
  PROVE  Kept
<1>1. NewTransactor(p, pending) = expectedNextNonce[p]
  BY NonceIsExpected DEF Inv, ChainOK
<1>2. SendFails(p, expectedNextNonce[p])
  BY <1>1
<1>3. /\ pool' = pool /\ nonce' = nonce /\ log' = log /\ holdings' = holdings /\ paid' = paid
      /\ dispute' = dispute
      /\ expectedNextNonce' = [expectedNextNonce EXCEPT ![p] = expectedNextNonce[p] + 1]
  BY <1>2 DEF SendFails, chainVars
<1>4. \A q \in Parts : NonceOK(q)'
  BY <1>2, SendFailsNonces DEF Inv, ChainOK
<1>5. LogOK' /\ \A q \in Parts, a \in Assets : FundsOK(a, q)'
  BY <1>3, KeptFunds
<1>6. PoolOK'
  BY <1>3 DEF Inv, ChainOK, PoolOK, AllDeposited, DepositSeen, Seen
<1>7. expectedNextNonce' \in [Parts -> Nat]
  BY <1>3 DEF Inv, TypeOK
<1> QED BY <1>3, <1>4, <1>5, <1>6, <1>7 DEF Kept, ChainOK, Inv, TypeOK

LEMMA SendKept ==
  ASSUME Inv, NEW p \in Parts, NEW pending \in PendingNonces(p),
         NEW fn \in Fns, NEW a \in Nat, NEW amount \in Nat,
         Send(p, NewTransactor(p, pending), fn, a, amount),
         fn = "deposit" => a \in Assets /\ amount = Agreement[a][p],
         fn = "withdraw" => a \in Assets /\ amount = Outcome[a][p],
         fn \in {"conclude", "concludeFinal"} => AllDeposited
  PROVE  Kept /\ NewTransactor(p, pending) \in Nat
<1>1. NewTransactor(p, pending) = expectedNextNonce[p] /\ expectedNextNonce[p] \in Nat
  BY NonceIsExpected DEF Inv, ChainOK, TypeOK
<1>2. Send(p, expectedNextNonce[p], fn, a, amount)
  BY <1>1
<1> DEFINE x == [acc |-> p, nonce |-> expectedNextNonce[p], fn |-> fn, asset |-> a,
                 amount |-> amount]
<1>3. /\ pool' = pool \cup {x} /\ nonce' = nonce /\ log' = log /\ holdings' = holdings
      /\ paid' = paid /\ dispute' = dispute
      /\ expectedNextNonce' = [expectedNextNonce EXCEPT ![p] = expectedNextNonce[p] + 1]
  BY <1>2 DEF Send
<1>4. x \in Tx /\ x.acc = p /\ x.fn = fn /\ x.asset = a /\ x.amount = amount
  BY <1>1 DEF Tx
<1> HIDE DEF x
<1>5. \A q \in Parts : NonceOK(q)'
  BY <1>2, SendNonces DEF Inv, ChainOK
<1>6. LogOK' /\ \A q \in Parts, b \in Assets : FundsOK(b, q)'
  BY <1>3, KeptFunds
<1>7. PoolOK'
  <2>1. AllDeposited => AllDeposited'
    BY <1>3 DEF AllDeposited, DepositSeen, Seen
  <2>2. ASSUME NEW t \in pool \cup {x}
        PROVE  /\ t.fn = "deposit" => t.asset \in Assets /\ t.amount = Agreement[t.asset][t.acc]
               /\ t.fn = "withdraw" => t.asset \in Assets /\ t.amount = Outcome[t.asset][t.acc]
               /\ t.fn \in {"conclude", "concludeFinal"} => AllDeposited
    BY <1>4 DEF Inv, ChainOK, PoolOK
  <2> QED BY <1>3, <2>1, <2>2 DEF PoolOK
<1>8. expectedNextNonce' \in [Parts -> Nat] /\ pool' \in SUBSET Tx
  BY <1>1, <1>3, <1>4 DEF Inv, TypeOK
<1> QED BY <1>1, <1>3, <1>5, <1>6, <1>7, <1>8 DEF Kept, ChainOK, Inv, TypeOK

\* A step of p's call alone.
LEMMA CallStep ==
  ASSUME Inv, Kept, NEW p \in Parts, NEW x \in CallType, NEW y \in [Assets -> WaitType],
         call' = [call EXCEPT ![p] = x], wait' = [wait EXCEPT ![p] = y],
         CallOK(p, x), \A a \in Assets : WaitOK(p, a, x, y[a])
  PROVE  Inv'
<1>1. /\ log \in Seq(LogEvent) /\ holdings \in [Assets -> [Parts -> Nat]]
      /\ paid \in [Assets -> [Parts -> Nat]] /\ dispute \in {"none", "dispute", "elapsed", "concluded"}
      /\ call \in [Parts -> CallType] /\ wait \in [Parts -> [Assets -> WaitType]]
  BY DEF Inv, TypeOK
<1>2. TypeOK'
  BY <1>1 DEF Kept, TypeOK
<1>3. call'[p] = x /\ wait'[p] = y
     /\ \A q \in Parts \ {p} : call'[q] = call[q] /\ wait'[q] = wait[q]
  BY <1>1
<1>4. /\ \A a, q : DepositSeen(a, q)' <=> DepositSeen(a, q)
      /\ \A a, q : WithdrawalSeen(a, q)' <=> WithdrawalSeen(a, q)
      /\ AllDeposited' <=> AllDeposited
  BY DEF Kept, DepositSeen, WithdrawalSeen, AllDeposited, Seen
<1>5. ASSUME NEW q \in Parts PROVE CallOK(q, call[q])'
  <2>1. CallOK(q, call'[q])
    BY <1>3 DEF Inv, CallsOK
  <2> QED BY <1>4, <2>1 DEF CallOK
<1>6. ASSUME NEW q \in Parts, NEW a \in Assets PROVE WaitOK(q, a, call[q], wait[q][a])'
  <2>1. WaitOK(q, a, call'[q], wait'[q][a])
    BY <1>3 DEF Inv, CallsOK
  <2>2. Counting(a, wait'[q][a]) => Counting(a, wait[q][a])'
    BY <1>4 DEF Counting
  <2> QED BY <1>4, <2>1, <2>2 DEF WaitOK
<1>7. CallsOK'
  BY <1>5, <1>6 DEF CallsOK
<1> QED BY <1>2, <1>7 DEF Inv, Kept

\* It leaves the goroutines alone, or changes one of them only.
LEMMA CallOnly ==
  ASSUME Inv, Kept, NEW p \in Parts, NEW x \in CallType,
         SetCall(p, x), wait' = wait,
         CallOK(p, x), \A a \in Assets : WaitOK(p, a, x, wait[p][a])
  PROVE  Inv'
<1>1. wait[p] \in [Assets -> WaitType] /\ wait' = [wait EXCEPT ![p] = wait[p]]
  BY DEF Inv, TypeOK
<1>2. call' = [call EXCEPT ![p] = x]
  BY DEF SetCall
<1> QED BY <1>1, <1>2, CallStep

LEMMA WaitOnly ==
  ASSUME Inv, Kept, NEW p \in Parts, NEW a \in Assets, NEW w \in WaitType,
         call' = call, wait' = [wait EXCEPT ![p][a] = w], WaitOK(p, a, call[p], w)
  PROVE  Inv'
<1> DEFINE y == [wait[p] EXCEPT ![a] = w]
<1>1. wait[p] \in [Assets -> WaitType] /\ wait \in [Parts -> [Assets -> WaitType]]
      /\ call \in [Parts -> CallType]
  BY DEF Inv, TypeOK
<1>2. y \in [Assets -> WaitType] /\ y[a] = w /\ \A b \in Assets \ {a} : y[b] = wait[p][b]
  BY <1>1
<1>3. wait' = [wait EXCEPT ![p] = y] /\ call' = [call EXCEPT ![p] = call[p]] /\ call[p] \in CallType
  BY <1>1
<1> HIDE DEF y
<1>4. CallOK(p, call[p]) /\ \A b \in Assets : WaitOK(p, b, call[p], y[b])
  BY <1>2 DEF Inv, CallsOK
<1> QED BY <1>2, <1>3, <1>4, CallStep

\* Sets of participants are finite.
LEMMA FinitePart ==
  ASSUME NEW S \in SUBSET Parts
  PROVE  IsFiniteSet(S) /\ Cardinality(S) \in Nat
<1>1. IsFiniteSet(S)
  BY ChannelAssumption, FS_Subset
<1> QED BY <1>1, FS_CardinalityType

LEMMA WaiterOK ==
  ASSUME NEW a \in Assets
  PROVE  /\ Waiter(a) \in WaitType /\ Waiter(a).pc \in {"wait", "ok"}
         /\ Waiter(a).pc = "wait" => Counting(a, Waiter(a))
         /\ Waiter(a).pc = "ok" => \A q \in Parts : DepositSeen(a, q)
<1> DEFINE S == {q \in Parts : Agreement[a][q] # 0}
           n == Cardinality(S)
           w == Waiter(a)
<1>1. IsFiniteSet(S) /\ n \in Nat
  BY FinitePart
<1>2. n = 0 => S = {}
  BY <1>1, FS_EmptySet
<1>3. Agreement[a] \in [Parts -> Nat]
  BY Rows
<1>4. w = [NoWait EXCEPT !.pc = IF n = 0 THEN "ok" ELSE "wait", !.left = Agreement[a], !.n = n]
  BY DEF Waiter
<1> HIDE DEF n, w
<1>5. w \in WaitType
  <2> DEFINE L == [Parts -> Nat] \cup {<<>>}
             v == IF n = 0 THEN "ok" ELSE "wait"
  <2>1. Agreement[a] \in L /\ n \in Int /\ v \in {"wait", "ok"}
    BY <1>1, <1>3
  <2>2. w = [NoWait EXCEPT !.pc = v, !.left = Agreement[a], !.n = n]
    BY <1>4
  <2>3. WaitType = [pc : {"none", "wait", "ok", "timedOut", "ctxErr", "sub", "mine", "event", "err"},
                    pos : Nat, left : L, n : Int, again : BOOLEAN, tx : Nat]
    BY DEF WaitType
  <2> HIDE DEF L, v
  <2> QED BY <2>1, <2>2, <2>3, NoCallType
<1>6. w.pc = (IF n = 0 THEN "ok" ELSE "wait") /\ w.left = Agreement[a] /\ w.n = n
  BY <1>4, NoCallType DEF WaitType
<1>7. w.pc = "ok" => \A q \in Parts : DepositSeen(a, q)
  BY <1>2, <1>6 DEF DepositSeen
<1>8. Counting(a, w)
  BY <1>3, <1>6 DEF Counting, DepositSeen, n
<1> QED BY <1>5, <1>6, <1>7, <1>8 DEF w

LEMMA FundInv ==
  ASSUME Inv, NEW p \in Parts, Fund(p)
  PROVE  Inv'
<1> DEFINE x == [NoCall EXCEPT !.op = "fund", !.pc = "assets", !.k = 1,
                               !.funds = call[p].funds + 1]
           y == [a \in Assets |-> Waiter(a)]
<1>1. Kept
  BY QuietKept DEF Fund
<1>2. call[p] \in CallType /\ call[p].funds \in Nat
  BY DEF Inv, TypeOK, CallType
<1>3. x \in CallType /\ x.op = "fund" /\ x.pc = "assets" /\ x.k = 1 /\ x.res = "none"
  <2> DEFINE f == call[p].funds + 1
  <2>1. x \in CallType
    <3>1. f \in Nat /\ x = [NoCall EXCEPT !.op = "fund", !.pc = "assets", !.k = 1, !.funds = f]
      BY <1>2
    <3> HIDE DEF f, x
    <3> QED BY <3>1, NoCallType DEF CallType
  <2>2. x.res = NoCall.res /\ x.op = "fund" /\ x.pc = "assets" /\ x.k = 1
    BY NoCallType DEF CallType
  <2> QED BY <2>1, <2>2 DEF NoCall
<1>4. y \in [Assets -> WaitType] /\ \A a \in Assets : WaitOK(p, a, x, y[a])
  BY <1>3, WaiterOK DEF WaitOK
<1>5. CallOK(p, x)
  BY <1>3, Rows DEF CallOK
<1>6. call' = [call EXCEPT ![p] = x] /\ wait' = [wait EXCEPT ![p] = y]
  BY DEF Fund, SetCall
<1> HIDE DEF x, y
<1> QED BY <1>1, <1>3, <1>4, <1>5, <1>6, CallStep

\* Going on with the next asset, or to the confirmations.
LEMMA NextAsset ==
  ASSUME Inv, NEW p \in Parts, call[p].op = "fund", call[p].pc \in {"assets", "deposit"},
         NEW x \in CallType, x.op = "fund", x.res = call[p].res,
         x.pc \in {"assets", "deposit", "confirm"},
         x.pc \in {"assets", "deposit"} => x.k \in Assets,
         Kept, SetCall(p, x), wait' = wait
  PROVE  Inv'
<1>1. CallOK(p, call[p]) /\ \A a \in Assets : WaitOK(p, a, call[p], wait[p][a])
  BY DEF Inv, CallsOK
<1>2. CallOK(p, x)
  BY <1>1 DEF CallOK
<1>3. \A a \in Assets : WaitOK(p, a, x, wait[p][a])
  BY <1>1 DEF WaitOK
<1> QED BY <1>2, <1>3, CallOnly

LEMMA SendFundingInv ==
  ASSUME Inv, NEW p \in Parts, sendFundingTx(p)
  PROVE  Inv'
<1> DEFINE c == call[p]
           a == c.k
           next == [c EXCEPT !.k = a + 1, !.pc = IF a + 1 \in Assets THEN "assets" ELSE "confirm"]
           Good(x) == /\ x \in CallType /\ x.op = "fund" /\ x.res = c.res
                      /\ x.pc \in {"assets", "deposit", "confirm"}
                      /\ x.pc \in {"assets", "deposit"} => x.k \in Assets
<1>1. c \in CallType /\ c.op = "fund" /\ c.pc \in {"assets", "deposit"} /\ wait' = wait
  BY DEF sendFundingTx, Inv, TypeOK
<1>2. a \in Assets /\ a \in Nat /\ c.txs \in Seq(Nat) /\ c.err \in BOOLEAN
  BY <1>1, Rows DEF Inv, CallsOK, CallOK, CallType
<1>3. /\ next \in CallType /\ next.op = "fund" /\ next.res = c.res /\ next.txs = c.txs
      /\ next.pc \in {"assets", "confirm"} /\ (next.pc = "assets" => next.k \in Assets)
  <2> HIDE DEF c
  <2>1. a + 1 \in Nat
    BY <1>2
  <2>2. next \in CallType
    BY <1>1, <2>1 DEF CallType
  <2>3. next.op = c.op /\ next.res = c.res /\ next.txs = c.txs /\ next.k = a + 1
        /\ next.pc = (IF a + 1 \in Assets THEN "assets" ELSE "confirm")
    BY <1>1 DEF CallType
  <2> QED BY <1>1, <2>2, <2>3
<1>4. ASSUME NEW x, Good(x), Kept, SetCall(p, x) PROVE Inv'
  BY <1>1, <1>4, NextAsset
<1> HIDE DEF next
<1>5. ASSUME NEW txs \in Seq(Nat), NEW err \in BOOLEAN
      PROVE  /\ Good([next EXCEPT !.err = err]) /\ Good([next EXCEPT !.txs = txs])
             /\ Good([next EXCEPT !.err = err, !.txs = txs])
             /\ Good([c EXCEPT !.pc = "deposit", !.txs = txs])
  <2>1. [next EXCEPT !.err = err] \in CallType /\ [next EXCEPT !.txs = txs] \in CallType
    BY <1>3 DEF CallType
  <2>2. [next EXCEPT !.err = err, !.txs = txs] \in CallType
    BY <1>3 DEF CallType
  <2>3. [c EXCEPT !.pc = "deposit", !.txs = txs] \in CallType
    BY <1>1 DEF CallType
  <2> HIDE DEF c
  <2>4. Good([next EXCEPT !.err = err]) /\ Good([next EXCEPT !.txs = txs])
    BY <1>3, <2>1 DEF CallType
  <2>5. Good([next EXCEPT !.err = err, !.txs = txs])
    BY <1>3, <2>2 DEF CallType
  <2>6. Good([c EXCEPT !.pc = "deposit", !.txs = txs])
    BY <1>1, <1>2, <2>3 DEF CallType
  <2> QED BY <2>4, <2>5, <2>6
<1>6. CASE /\ SetCall(p, [next EXCEPT !.err = c.err \/ ~Skips(p, a)])
           /\ UNCHANGED <<chainVars, expectedNextNonce, unsent>>
  <2>1. Kept
    BY <1>6, QuietKept
  <2>2. (c.err \/ ~Skips(p, a)) \in BOOLEAN
    OBVIOUS
  <2>3. Good([next EXCEPT !.err = c.err \/ ~Skips(p, a)])
    <3>1. <<>> \in Seq(Nat)
      OBVIOUS
    <3> HIDE DEF Good
    <3> QED BY <1>5, <2>2, <3>1
  <2> HIDE DEF Good
  <2> QED BY <1>4, <1>6, <2>1, <2>3
<1>7. ASSUME NEW pending \in PendingNonces(p), NEW fn, fn = NextFn(a, c),
             Send(p, NewTransactor(p, pending), fn, a, Agreement[a][p]),
             SetCall(p, IF fn = "deposit"
                        THEN [next EXCEPT !.txs = Append(c.txs, NewTransactor(p, pending))]
                        ELSE [c EXCEPT !.pc = "deposit",
                                       !.txs = Append(c.txs, NewTransactor(p, pending))])
      PROVE  Inv'
  <2>1. fn \in {"deposit", "increaseAllowance"}
    BY <1>7 DEF NextFn, ERC20Deposit, ETHDeposit, Last
  <2>2. Agreement[a][p] \in Nat
    BY <1>2, Rows
  <2>3. Kept /\ NewTransactor(p, pending) \in Nat
    BY <1>2, <1>7, <2>1, <2>2, SendKept DEF Fns
  <2>4. Append(c.txs, NewTransactor(p, pending)) \in Seq(Nat)
    BY <1>2, <2>3
  <2> HIDE DEF Good
  <2>5. CASE fn = "deposit"
    BY <1>4, <1>5, <1>7, <2>3, <2>4, <2>5
  <2>6. CASE fn # "deposit"
    BY <1>4, <1>5, <1>7, <2>3, <2>4, <2>6
  <2> QED BY <2>5, <2>6
<1>8. ASSUME NEW pending \in PendingNonces(p),
             SendFails(p, NewTransactor(p, pending)),
             SetCall(p, [next EXCEPT !.err = TRUE,
                           !.txs = IF c.pc = "deposit" THEN Front(c.txs) ELSE c.txs])
      PROVE  Inv'
  <2>1. Kept
    BY <1>8, SendFailsKept
  <2>2. (IF c.pc = "deposit" THEN Front(c.txs) ELSE c.txs) \in Seq(Nat)
    BY <1>2 DEF Front
  <2> HIDE DEF Good
  <2> QED BY <1>4, <1>5, <1>8, <2>1, <2>2
<1> QED BY <1>6, <1>7, <1>8 DEF sendFundingTx, next

\* A call returns what it may return.
LEMMA ReturnInv ==
  ASSUME Inv, Kept, NEW p \in Parts,
         NEW res \in {"nil", "other", "txTimedOut", "FundingTimeout"}, Return(p, res),
         call[p].op = "fund" /\ res = "nil" => AllDeposited,
         call[p].op = "withdraw" /\ res = "nil" => \A a \in Assets : WithdrawalSeen(a, p)
  PROVE  Inv'
<1> DEFINE c == call[p]
           x == [c EXCEPT !.pc = "idle", !.res = res, !.txs = <<>>, !.k = 0, !.err = FALSE]
           y == [a \in Assets |-> NoWait]
<1>1. c \in CallType /\ CallOK(p, c)
  BY DEF Inv, TypeOK, CallsOK
<1>2. call' = [call EXCEPT ![p] = x] /\ wait' = [wait EXCEPT ![p] = y]
  BY DEF Return, SetCall
<1>3. y \in [Assets -> WaitType] /\ \A a \in Assets : y[a].pc = "none"
  BY NoCallType DEF NoWait
<1>4. x \in CallType /\ x.pc = "idle" /\ x.op = c.op /\ x.res = res
  <2> HIDE DEF c
  <2>1. <<>> \in Seq(Nat)
    OBVIOUS
  <2> QED BY <1>1, <2>1 DEF CallType
<1>5. CallOK(p, x)
  <2> HIDE DEF x
  <2> QED BY <1>1, <1>4 DEF CallOK
<1> HIDE DEF x, y
<1>6. \A a \in Assets : WaitOK(p, a, x, y[a])
  BY <1>3, <1>4 DEF WaitOK
<1> QED BY <1>2, <1>3, <1>4, <1>5, <1>6, CallStep

LEMMA ConfirmInv ==
  ASSUME Inv, NEW p \in Parts, ConfirmTransaction(p)
  PROVE  Inv'
<1> DEFINE c == call[p]
<1>1. Kept
  BY QuietKept DEF ConfirmTransaction
<1>2. c \in CallType /\ c.txs \in Seq(Nat) /\ c.op = "fund" /\ c.pc = "confirm"
  BY DEF ConfirmTransaction, At, Inv, TypeOK, CallType
<1>3. CallOK(p, c) /\ \A a \in Assets : WaitOK(p, a, c, wait[p][a])
  BY DEF Inv, CallsOK
<1>4. ASSUME NEW x \in CallType, x.op = "fund", x.pc \in {"confirm", "wait"}, x.res = c.res,
             SetCall(p, x), wait' = wait
      PROVE  Inv'
  <2>1. CallOK(p, x)
    BY <1>2, <1>3, <1>4 DEF CallOK
  <2>2. \A a \in Assets : WaitOK(p, a, x, wait[p][a])
    BY <1>2, <1>3, <1>4 DEF WaitOK
  <2> QED BY <1>1, <1>4, <2>1, <2>2, CallOnly
<1>5. CASE c.txs # <<>> /\ SetCall(p, [c EXCEPT !.txs = Tail(@)]) /\ UNCHANGED wait
  <2> DEFINE x == [c EXCEPT !.txs = Tail(c.txs)]
  <2>1. Tail(c.txs) \in Seq(Nat)
    BY <1>2, <1>5
  <2>2. x \in CallType /\ x.op = "fund" /\ x.pc = "confirm" /\ x.res = c.res
    <3> HIDE DEF c
    <3> QED BY <1>2, <2>1 DEF CallType
  <2> HIDE DEF x
  <2>3. SetCall(p, x) /\ wait' = wait
    BY <1>5 DEF x
  <2> QED BY <1>4, <2>2, <2>3
<1>6. CASE SetCall(p, [c EXCEPT !.pc = "wait"]) /\ UNCHANGED wait
  <2> DEFINE x == [c EXCEPT !.pc = "wait"]
  <2>1. x \in CallType /\ x.op = "fund" /\ x.pc = "wait" /\ x.res = c.res
    <3> HIDE DEF c
    <3> QED BY <1>2 DEF CallType
  <2> HIDE DEF x
  <2>2. SetCall(p, x) /\ wait' = wait
    BY <1>6 DEF x
  <2> QED BY <1>4, <2>1, <2>2
<1>7. CASE \E res \in {"other", "txTimedOut"} : Return(p, res)
  BY <1>1, <1>2, <1>7, ReturnInv
<1> QED BY <1>5, <1>6, <1>7 DEF ConfirmTransaction

\* Counting a deposit takes its depositor off, once.
LEMMA CountOK ==
  ASSUME Inv, NEW a \in Assets, NEW r \in WaitType, Counting(a, r),
         NEW i \in DOMAIN log, log[i].name = "Deposited", log[i].asset = a
  PROVE  /\ Count(r, log[i]) \in WaitType /\ Counting(a, Count(r, log[i]))
         /\ Count(r, log[i]).pc = r.pc
<1> DEFINE q == log[i].part
           e == log[i]
           S == {u \in Parts : r.left[u] # 0}
<1>1. q \in Parts /\ e.part = q /\ e.amount = Agreement[a][q] /\ Agreement[a][q] \in Nat
  BY Rows DEF Inv, ChainOK, LogOK
<1>2. DepositSeen(a, q)
  BY DEF DepositSeen, Seen
<1>3. /\ r.left \in [Parts -> Nat] /\ r.n = Cardinality(S)
      /\ \A u \in Parts : r.left[u] \in {0, Agreement[a][u]} /\ (r.left[u] = 0 => DepositSeen(a, u))
  BY DEF Counting
<1> HIDE DEF q, e
<1>4. CASE r.left[q] = 0
  <2>1. Count(r, e) = r
    BY <1>1, <1>4 DEF Count
  <2> QED BY <2>1 DEF e
<1>5. CASE r.left[q] # 0
  <2> DEFINE x == [r EXCEPT !.left[q] = 0, !.n = r.n - 1]
             left == [r.left EXCEPT ![q] = 0]
  <2>1. r.left[q] = Agreement[a][q]
    BY <1>1, <1>3, <1>5
  <2>2. Count(r, e) = x
    <3> DEFINE d == r.left[e.part] - e.amount
    <3>1. d = 0 /\ r.left[e.part] # 0 /\ e.part = q
      BY <1>1, <1>5, <2>1
    <3>2. Count(r, e) = [r EXCEPT !.left[e.part] = IF d <= 0 THEN 0 ELSE d,
                                  !.n = IF d <= 0 THEN @ - 1 ELSE @]
      BY <3>1 DEF Count
    <3> HIDE DEF d
    <3>3. d <= 0
      BY <3>1
    <3>4. Count(r, e) = [r EXCEPT !.left[q] = 0, !.n = @ - 1]
      BY <3>1, <3>2, <3>3
    <3> QED BY <3>4
  <2>3. left \in [Parts -> Nat] /\ left[q] = 0 /\ \A u \in Parts \ {q} : left[u] = r.left[u]
    BY <1>1, <1>3
  <2>4. IsFiniteSet(S) /\ Cardinality(S) \in Nat
    BY FinitePart
  <2>5. {u \in Parts : left[u] # 0} = S \ {q} /\ q \in S
    BY <1>1, <1>5, <2>3
  <2>6. Cardinality(S \ {q}) = Cardinality(S) - 1
    BY <2>4, <2>5, FS_RemoveElement
  <2> HIDE DEF S, left
  <2>7. x.left = left /\ x.n = r.n - 1 /\ x.pc = r.pc
    BY DEF WaitType, left
  <2>8. x \in WaitType
    <3> DEFINE L == [Parts -> Nat] \cup {<<>>}
               n == r.n - 1
    <3>1. left \in L /\ n \in Int
      BY <1>3, <2>3, <2>4
    <3>2. x = [r EXCEPT !.left = left, !.n = n]
      BY DEF left, WaitType
    <3>3. WaitType = [pc : {"none", "wait", "ok", "timedOut", "ctxErr", "sub", "mine", "event", "err"},
                      pos : Nat, left : L, n : Int, again : BOOLEAN, tx : Nat]
      BY DEF WaitType
    <3> HIDE DEF L, n, x
    <3> QED BY <3>1, <3>2, <3>3
  <2> HIDE DEF x
  <2>9. Counting(a, x)
    <3>1. x.n = Cardinality({u \in Parts : x.left[u] # 0})
      BY <1>3, <2>5, <2>6, <2>7
    <3>2. \A u \in Parts : x.left[u] \in {0, Agreement[a][u]} /\ (x.left[u] = 0 => DepositSeen(a, u))
      BY <1>2, <1>3, <2>3, <2>7
    <3> QED BY <2>3, <2>7, <3>1, <3>2 DEF Counting
  <2> QED BY <2>2, <2>7, <2>8, <2>9 DEF e
<1> QED BY <1>4, <1>5

LEMMA WaitFundingInv ==
  ASSUME Inv, NEW p \in Parts, NEW a \in Assets, waitForFundingConfirmation(p, a)
  PROVE  Inv'
<1> DEFINE w == wait[p][a]
           done(x) == IF x.pc = "wait" /\ x.n <= 0 THEN [x EXCEPT !.pc = "ok"] ELSE x
           set(x) == wait' = [wait EXCEPT ![p][a] = done(x)]
<1>1. Kept /\ call' = call
  BY QuietKept DEF waitForFundingConfirmation
<1>2. w \in WaitType /\ call[p].op = "fund" /\ w.pc = "wait"
  BY DEF waitForFundingConfirmation, Inv, TypeOK
<1>3. Counting(a, w) /\ CallOK(p, call[p])
  BY <1>2 DEF Inv, CallsOK, WaitOK
<1>4. call[p].pc # "withdrawing"
  BY <1>2, <1>3 DEF CallOK
<1>5. ASSUME NEW x \in WaitType, WaitOK(p, a, call[p], x), wait' = [wait EXCEPT ![p][a] = x]
      PROVE  Inv'
  BY <1>1, <1>5, WaitOnly
<1>6. ASSUME NEW i \in (w.pos + 1)..Len(log), NextDeposit(a, w.pos, i), NEW r \in Read(w, i),
             set(Count(r, log[i]))
      PROVE  Inv'
  <2> DEFINE x == Count(r, log[i])
  <2>1. log \in Seq(LogEvent) /\ w.pos \in Nat
    BY <1>2 DEF Inv, TypeOK, WaitType
  <2>2. i \in DOMAIN log /\ i \in Nat
    BY <1>6, <2>1
  <2>3. log[i].name = "Deposited" /\ log[i].asset = a
    BY <1>6 DEF NextDeposit
  <2>4. r \in WaitType /\ r.pc = "wait" /\ r.left = w.left /\ r.n = w.n
    <3> HIDE DEF w
    <3>1. \A j \in Nat, b \in BOOLEAN :
            /\ [w EXCEPT !.pos = j, !.again = b] \in WaitType
            /\ [w EXCEPT !.pos = j, !.again = b].pc = "wait"
            /\ [w EXCEPT !.pos = j, !.again = b].left = w.left
            /\ [w EXCEPT !.pos = j, !.again = b].n = w.n
      BY <1>2 DEF WaitType
    <3>2. \A b \in BOOLEAN :
            /\ [w EXCEPT !.again = b] \in WaitType
            /\ [w EXCEPT !.again = b].pc = "wait"
            /\ [w EXCEPT !.again = b].left = w.left
            /\ [w EXCEPT !.again = b].n = w.n
      BY <1>2 DEF WaitType
    <3>3. r = [w EXCEPT !.pos = i, !.again = FALSE] \/ r = [w EXCEPT !.again = TRUE]
      BY <1>6 DEF Read
    <3> QED BY <2>2, <3>1, <3>2, <3>3
  <2>5. Counting(a, r)
    BY <1>3, <2>4 DEF Counting
  <2>6. x \in WaitType /\ Counting(a, x) /\ x.pc = "wait"
    BY <2>2, <2>3, <2>4, <2>5, CountOK
  <2> HIDE DEF x
  <2>7. CASE x.n <= 0
    <3> DEFINE S == {q \in Parts : x.left[q] # 0}
    <3>1. IsFiniteSet(S) /\ Cardinality(S) \in Nat
      BY FinitePart
    <3>2. x.n = Cardinality(S)
      BY <2>6 DEF Counting
    <3>3. S = {}
      <4> HIDE DEF S
      <4>1. Cardinality(S) = 0
        BY <2>7, <3>1, <3>2
      <4> QED BY <3>1, <4>1, FS_EmptySet, Zenon
    <3>4. \A q \in Parts : DepositSeen(a, q)
      BY <2>6, <3>3 DEF Counting
    <3>5. [x EXCEPT !.pc = "ok"] \in WaitType /\ [x EXCEPT !.pc = "ok"].pc = "ok"
      BY <2>6 DEF WaitType
    <3>6. WaitOK(p, a, call[p], [x EXCEPT !.pc = "ok"])
      BY <1>4, <3>4, <3>5 DEF WaitOK
    <3>7. wait' = [wait EXCEPT ![p][a] = [x EXCEPT !.pc = "ok"]]
      BY <1>6, <2>6, <2>7 DEF x
    <3> QED BY <1>5, <3>5, <3>6, <3>7
  <2>8. CASE ~(x.n <= 0)
    <3>1. WaitOK(p, a, call[p], x)
      BY <1>4, <2>6 DEF WaitOK
    <3>2. wait' = [wait EXCEPT ![p][a] = x]
      BY <1>6, <2>8 DEF x
    <3> QED BY <1>5, <2>6, <3>1, <3>2
  <2> QED BY <2>7, <2>8
<1>7. ASSUME NEW r \in {"timedOut", "ctxErr"}, set([w EXCEPT !.pc = r]) PROVE Inv'
  <2> DEFINE x == [w EXCEPT !.pc = r]
  <2>1. x \in WaitType /\ x.pc = r
    <3> HIDE DEF w
    <3> QED BY <1>2 DEF WaitType
  <2> HIDE DEF x
  <2>2. WaitOK(p, a, call[p], x)
    BY <1>4, <2>1 DEF WaitOK
  <2>3. wait' = [wait EXCEPT ![p][a] = x]
    BY <1>7, <2>1 DEF x
  <2> QED BY <1>5, <2>1, <2>2, <2>3
<1> QED BY <1>6, <1>7 DEF waitForFundingConfirmation

\* Fund returns nil only if no goroutine has failed or still waits.
LEMMA FundReturnsInv ==
  ASSUME Inv, NEW p \in Parts, FundReturns(p)
  PROVE  Inv'
<1>1. Kept
  BY QuietKept DEF FundReturns
<1>2. call[p].op = "fund" /\ call[p].pc = "wait" /\ errgWait(p)
  BY DEF FundReturns, At
<1>3. gathered(p) = {} => AllDeposited
  <2> SUFFICES ASSUME gathered(p) = {}, NEW a \in Assets, NEW q \in Parts
               PROVE  DepositSeen(a, q)
    BY DEF AllDeposited
  <2>1. WaitOK(p, a, call[p], wait[p][a])
    BY DEF Inv, CallsOK
  <2>2. wait[p][a].pc \in {"wait", "ok", "timedOut", "ctxErr"} /\ wait[p][a].pc # "wait"
    BY <1>2, <2>1 DEF WaitOK, errgWait
  <2>3. wait[p][a].pc \notin {"timedOut", "ctxErr"}
    BY DEF gathered
  <2> QED BY <1>2, <2>1, <2>2, <2>3 DEF WaitOK
<1> DEFINE res == IF "timedOut" \in gathered(p) THEN "FundingTimeout"
                  ELSE IF gathered(p) # {} THEN "other" ELSE "nil"
<1>4. res \in {"nil", "other", "FundingTimeout"} /\ (res = "nil" => AllDeposited)
  BY <1>3
<1>5. Return(p, res)
  BY DEF FundReturns
<1> HIDE DEF res
<1> QED BY <1>1, <1>2, <1>4, <1>5, ReturnInv

\* A call changes its record and nothing that the invariant says of it.
LEMMA CallMoves ==
  ASSUME Inv, Kept, NEW p \in Parts, NEW x \in CallType, SetCall(p, x), wait' = wait,
         CallOK(p, x), x.op \in {"register", "withdraw"}, x.pc # "withdrawing"
  PROVE  Inv'
  BY CallOnly DEF WaitOK

LEMMA CtxDoneInv ==
  ASSUME Inv, NEW p \in Parts, CtxDone(p)
  PROVE  Inv'
<1> DEFINE x == [call[p] EXCEPT !.ctx = FALSE]
<1>1. Kept /\ SetCall(p, x) /\ wait' = wait
  BY QuietKept DEF CtxDone
<1>2. call[p] \in CallType
  BY DEF Inv, TypeOK
<1>3. x \in CallType /\ x.op = call[p].op /\ x.pc = call[p].pc /\ x.k = call[p].k
      /\ x.res = call[p].res
  BY <1>2 DEF CallType
<1> HIDE DEF x
<1>4. CallOK(p, call[p]) /\ \A a \in Assets : WaitOK(p, a, call[p], wait[p][a])
  BY DEF Inv, CallsOK
<1>5. CallOK(p, x)
  BY <1>3, <1>4 DEF CallOK
<1>6. \A a \in Assets : WaitOK(p, a, x, wait[p][a])
  BY <1>3, <1>4 DEF WaitOK
<1> QED BY <1>1, <1>3, <1>5, <1>6, CallOnly

\* The steps of Register and Withdraw.
LEMMA CallAdjudicatorInv ==
  ASSUME Inv, NEW p \in Parts, NEW op \in {"register", "withdraw"}, CallAdjudicator(p, op)
  PROVE  Inv'
<1> DEFINE pc == IF op = "register" /\ ~final THEN "call" ELSE "sub"
           x == [NoCall EXCEPT !.op = op, !.funds = call[p].funds, !.pc = pc]
<1>1. Kept /\ SetCall(p, x) /\ wait' = wait
  BY QuietKept DEF CallAdjudicator
<1>2. call[p] \in CallType /\ call[p].funds \in Nat /\ CallOK(p, call[p])
  BY DEF Inv, TypeOK, CallType, CallsOK
<1>3. pc \in {"call", "sub"}
  OBVIOUS
<1> HIDE DEF pc
<1>4. x \in CallType /\ x.op = op /\ x.pc = pc /\ x.res = "none"
  <2> DEFINE f == call[p].funds
  <2>1. f \in Nat /\ x = [NoCall EXCEPT !.op = op, !.funds = f, !.pc = pc]
    BY <1>2
  <2> HIDE DEF f, x
  <2>2. x \in CallType
    BY <1>3, <2>1, NoCallType DEF CallType
  <2>3. x.op = op /\ x.pc = pc /\ x.res = NoCall.res
    BY <2>1, NoCallType DEF CallType
  <2> QED BY <2>2, <2>3 DEF NoCall
<1> HIDE DEF x
<1>5. AllDeposited
  BY <1>2 DEF CallAdjudicator, CallOK
<1>6. CallOK(p, x)
  BY <1>3, <1>4, <1>5 DEF CallOK
<1> QED BY <1>1, <1>3, <1>4, <1>6, CallMoves

\* A running call goes on to pc, ends with an error, or ends with nil when it is
\* no Withdraw.
LEMMA GoOn ==
  ASSUME Inv, NEW p \in Parts, call[p].op \in {"register", "withdraw"}, Kept, wait' = wait,
         NEW x \in CallType, SetCall(p, x), x.op = call[p].op,
         x.pc \in {"idle", "sub", "secondary", "call", "mine", "event"},
         x.res = call[p].res \/ (x.res # "nil" \/ x.op # "withdraw")
  PROVE  Inv'
<1>1. CallOK(p, call[p])
  BY DEF Inv, CallsOK
<1>2. CallOK(p, x)
  BY <1>1 DEF CallOK
<1> QED BY <1>2, CallMoves

Pcs == {"idle", "sub", "secondary", "call", "mine", "event", "withdrawing"}

LEMMA SetPc ==
  ASSUME NEW c \in CallType, NEW pc \in Pcs, NEW x, x = [c EXCEPT !.pc = pc]
  PROVE  x \in CallType /\ x.pc = pc /\ x.op = c.op /\ x.res = c.res
  BY DEF CallType, Pcs

\* EndCall, and the step to another line of the call.
LEMMA EndCallInv ==
  ASSUME Inv, NEW p \in Parts, call[p].op \in {"register", "withdraw"}, Kept, wait' = wait,
         NEW res \in {"nil", "other", "txTimedOut"}, EndCall(p, res),
         res = "nil" => call[p].op = "register"
  PROVE  Inv'
<1> DEFINE x == [call[p] EXCEPT !.pc = "idle", !.res = res]
<1>1. x \in CallType /\ x.pc = "idle" /\ x.op = call[p].op /\ x.res = res
  <2>1. call[p] \in CallType
    BY DEF Inv, TypeOK
  <2> DEFINE c == call[p]
  <2>2. c \in CallType /\ x = [c EXCEPT !.pc = "idle", !.res = res]
    BY <2>1
  <2> HIDE DEF x, c
  <2>3. x \in CallType /\ x.pc = "idle" /\ x.op = c.op /\ x.res = res
    BY <2>2 DEF CallType
  <2> QED BY <2>3 DEF c
<1>2. SetCall(p, x)
  BY DEF EndCall
<1> HIDE DEF x
<1> QED BY <1>1, <1>2, GoOn

LEMMA GoToInv ==
  ASSUME Inv, NEW p \in Parts, call[p].op \in {"register", "withdraw"}, Kept, wait' = wait,
         NEW pc \in {"secondary", "call", "event"}, SetCall(p, [call[p] EXCEPT !.pc = pc])
  PROVE  Inv'
<1> DEFINE x == [call[p] EXCEPT !.pc = pc]
<1>1. x \in CallType /\ x.pc = pc /\ x.op = call[p].op /\ x.res = call[p].res
  <2>1. call[p] \in CallType /\ pc \in Pcs
    BY DEF Inv, TypeOK, Pcs
  <2> QED BY <2>1, SetPc
<1>2. SetCall(p, x)
  OBVIOUS
<1> HIDE DEF x
<1> QED BY <1>1, <1>2, GoOn

LEMMA AfterConcludeInv ==
  ASSUME Inv, NEW p \in Parts, call[p].op \in {"register", "withdraw"}, Kept, AfterConclude(p)
  PROVE  Inv'
<1>1. CASE call[p].op = "register"
  <2>1. EndCall(p, "nil") /\ wait' = wait
    BY <1>1 DEF AfterConclude
  <2> QED BY <1>1, <2>1, EndCallInv
<1>2. CASE call[p].op = "withdraw"
  <2> DEFINE x == [call[p] EXCEPT !.pc = "withdrawing"]
             pc(a) == IF Outcome[a][p] = 0 THEN "ok" ELSE "sub"
             y == [a \in Assets |-> [NoWait EXCEPT !.pc = pc(a)]]
  <2>1. call' = [call EXCEPT ![p] = x] /\ wait' = [wait EXCEPT ![p] = y]
    BY <1>2 DEF AfterConclude, SetCall
  <2>2. x \in CallType /\ x.pc = "withdrawing" /\ x.op = call[p].op /\ x.res = call[p].res
    <3>1. call[p] \in CallType /\ "withdrawing" \in Pcs
      BY DEF Inv, TypeOK, Pcs
    <3> QED BY <3>1, SetPc
  <2>3. ASSUME NEW a \in Assets PROVE y[a] \in WaitType /\ y[a].pc = pc(a)
    <3>1. pc(a) \in {"ok", "sub"}
      OBVIOUS
    <3> HIDE DEF pc
    <3> QED BY <3>1, NoCallType DEF WaitType
  <2>4. y \in [Assets -> WaitType]
    BY <2>3
  <2> HIDE DEF x, y
  <2>5. CallOK(p, call[p])
    BY DEF Inv, CallsOK
  <2>6. CallOK(p, x)
    BY <1>2, <2>2, <2>5 DEF CallOK
  <2>7. \A a \in Assets : WaitOK(p, a, x, y[a])
    BY <1>2, <2>2, <2>3 DEF WaitOK, WithdrawalSeen
  <2> QED BY <2>1, <2>2, <2>4, <2>6, <2>7, CallStep
<1> QED BY <1>1, <1>2

LEMMA ConcludingInv ==
  ASSUME Inv, NEW p \in Parts,
         isConcluded(p) \/ waitConcludedForNBlocks(p) \/ ensureConcluded(p)
  PROVE  Inv'
<1>1. Kept
  BY QuietKept DEF isConcluded, waitConcludedForNBlocks, ensureConcluded
<1>2. call[p].op \in {"register", "withdraw"}
  BY DEF isConcluded, waitConcludedForNBlocks, ensureConcluded, Inv, CallsOK, CallOK
<1>3. CASE AfterConclude(p)
  BY <1>1, <1>2, <1>3, AfterConcludeInv
<1>4. ASSUME NEW pc \in {"secondary", "call"}, SetCall(p, [call[p] EXCEPT !.pc = pc]), wait' = wait
      PROVE  Inv'
  BY <1>1, <1>2, <1>4, GoToInv
<1>5. CASE EndCall(p, "other") /\ wait' = wait
  BY <1>1, <1>2, <1>5, EndCallInv
<1>6. CASE isConcluded(p)
  <2> DEFINE pc == IF final THEN "secondary" ELSE "call"
  <2>1. pc \in {"secondary", "call"}
    OBVIOUS
  <2>2. AfterConclude(p) \/ (SetCall(p, [call[p] EXCEPT !.pc = pc]) /\ wait' = wait)
    BY <1>6 DEF isConcluded
  <2> HIDE DEF pc
  <2> QED BY <1>3, <1>4, <2>1, <2>2
<1>7. CASE waitConcludedForNBlocks(p)
  BY <1>3, <1>4, <1>5, <1>7 DEF waitConcludedForNBlocks
<1>8. CASE ensureConcluded(p)
  BY <1>3, <1>5, <1>8 DEF ensureConcluded
<1> QED BY <1>6, <1>7, <1>8

LEMMA CallingInv ==
  ASSUME Inv, NEW p \in Parts, callAdjudicator(p)
  PROVE  Inv'
<1>1. call[p].op \in {"register", "withdraw"} /\ AllDeposited /\ wait' = wait
      /\ call[p] \in CallType
  BY DEF callAdjudicator, Inv, CallsOK, CallOK, TypeOK
<1>2. PICK pending \in PendingNonces(p) :
        \/ /\ Send(p, NewTransactor(p, pending), AdjFn(p), 0, 0)
           /\ SetCall(p, [call[p] EXCEPT !.pc = "mine", !.k = NewTransactor(p, pending)])
        \/ SendFails(p, NewTransactor(p, pending)) /\ EndCall(p, "other")
  BY DEF callAdjudicator
<1> DEFINE n == NewTransactor(p, pending)
           x == [call[p] EXCEPT !.pc = "mine", !.k = n]
<1>3. CASE Send(p, n, AdjFn(p), 0, 0) /\ SetCall(p, x)
  <2>1. AdjFn(p) \in {"register", "concludeFinal", "conclude"}
    BY DEF AdjFn
  <2>2. AdjFn(p) \in Fns /\ AdjFn(p) # "deposit" /\ AdjFn(p) # "withdraw" /\ 0 \in Nat
    BY <2>1 DEF Fns
  <2>3. Kept /\ n \in Nat
    BY <1>1, <1>3, <2>2, SendKept
  <2>4. x \in CallType /\ x.pc = "mine" /\ x.op = call[p].op /\ x.res = call[p].res
    <3> DEFINE c == call[p]
    <3>1. c \in CallType /\ x = [c EXCEPT !.pc = "mine", !.k = n]
      BY <1>1
    <3> HIDE DEF x, n, c
    <3>2. x \in CallType /\ x.pc = "mine" /\ x.op = c.op /\ x.res = c.res
      BY <2>3, <3>1 DEF CallType
    <3> QED BY <3>2 DEF c
  <2> HIDE DEF x, n
  <2> QED BY <1>1, <1>3, <2>3, <2>4, GoOn
<1>4. CASE SendFails(p, n) /\ EndCall(p, "other")
  BY <1>1, <1>4, SendFailsKept, EndCallInv
<1> QED BY <1>2, <1>3, <1>4

LEMMA ConfirmCallInv ==
  ASSUME Inv, NEW p \in Parts, confirmCall(p)
  PROVE  Inv'
<1>1. call[p].op \in {"register", "withdraw"}
  BY DEF confirmCall, Inv, CallsOK, CallOK
<1>2. Kept /\ wait' = wait
  BY QuietKept DEF confirmCall
<1>3. CASE AdjFn(p) = "register" /\ EndCall(p, "nil")
  <2>1. call[p].op = "register"
    BY <1>3 DEF AdjFn
  <2> QED BY <1>1, <1>2, <1>3, <2>1, EndCallInv
<1>4. CASE SetCall(p, [call[p] EXCEPT !.pc = "event"])
  BY <1>1, <1>2, <1>4, GoToInv
<1>5. ASSUME NEW res \in {"other", "txTimedOut"}, EndCall(p, res) PROVE Inv'
  BY <1>1, <1>2, <1>5, EndCallInv
<1> QED BY <1>3, <1>4, <1>5 DEF confirmCall

\* A goroutine of Withdraw is done only when its withdrawal was seen.
LEMMA EnsureWithdrawnInv ==
  ASSUME Inv, NEW p \in Parts, NEW a \in Assets, ensureWithdrawn(p, a)
  PROVE  Inv'
<1> DEFINE w == wait[p][a]
<1>1. call[p].op = "withdraw" /\ call[p].pc = "withdrawing" /\ call' = call
  BY DEF ensureWithdrawn, At
<1>2. /\ w \in WaitType /\ wait[p] \in [Assets -> WaitType]
      /\ wait \in [Parts -> [Assets -> WaitType]]
  BY DEF Inv, TypeOK
<1>3. ASSUME NEW x \in WaitType, Kept, x.pc = "ok" => WithdrawalSeen(a, p),
             wait' = [wait EXCEPT ![p][a] = x]
      PROVE  Inv'
  <2>1. WaitOK(p, a, call[p], x)
    BY <1>1, <1>3 DEF WaitOK
  <2> QED BY <1>1, <1>3, <2>1, WaitOnly
<1>4. ASSUME NEW pc \in {"ok", "err", "event"}, Kept, wait' = [wait EXCEPT ![p][a].pc = pc],
             pc = "ok" => Seen("Withdrawn", a, p)
      PROVE  Inv'
  <2> DEFINE x == [w EXCEPT !.pc = pc]
  <2>1. x \in WaitType /\ x.pc = pc
    <3> HIDE DEF w
    <3> QED BY <1>2 DEF WaitType
  <2>2. wait' = [wait EXCEPT ![p][a] = x]
    BY <1>2, <1>4
  <2> HIDE DEF x
  <2> QED BY <1>3, <1>4, <2>1, <2>2 DEF WithdrawalSeen
<1>5. ASSUME NEW pending \in PendingNonces(p),
             Send(p, NewTransactor(p, pending), "withdraw", a, Outcome[a][p]),
             wait' = [wait EXCEPT ![p][a].pc = "mine", ![p][a].tx = NewTransactor(p, pending)]
      PROVE  Inv'
  <2> DEFINE n == NewTransactor(p, pending)
             x == [w EXCEPT !.pc = "mine", !.tx = n]
  <2>1. a \in Nat /\ Outcome[a][p] \in Nat /\ "withdraw" \in Fns
    BY Rows DEF Fns
  <2>2. Kept /\ n \in Nat
    BY <1>5, <2>1, SendKept
  <2>3. wait' = [wait EXCEPT ![p][a] = x]
    BY <1>2, <1>5
  <2> HIDE DEF n
  <2>4. x \in WaitType /\ x.pc = "mine"
    <3> HIDE DEF w
    <3> QED BY <1>2, <2>2 DEF WaitType
  <2> HIDE DEF x
  <2> QED BY <1>3, <2>2, <2>3, <2>4
<1>6. ASSUME NEW pending \in PendingNonces(p), SendFails(p, NewTransactor(p, pending)),
             wait' = [wait EXCEPT ![p][a].pc = "err"]
      PROVE  Inv'
  BY <1>4, <1>6, SendFailsKept
<1>7. UNCHANGED <<chainVars, expectedNextNonce, unsent>> => Kept
  BY QuietKept
<1> QED BY <1>4, <1>5, <1>6, <1>7 DEF ensureWithdrawn

LEMMA WithdrawReturnsInv ==
  ASSUME Inv, NEW p \in Parts, WithdrawReturns(p)
  PROVE  Inv'
<1> DEFINE ends == {wait[p][a].pc : a \in Assets}
           res == IF "err" \in ends THEN "other" ELSE "nil"
<1>1. Kept /\ Return(p, res) /\ ends \subseteq {"ok", "err"}
  BY QuietKept DEF WithdrawReturns
<1>2. call[p].op = "withdraw" /\ call[p].pc = "withdrawing"
  BY DEF WithdrawReturns, At
<1>3. res = "nil" => \A a \in Assets : WithdrawalSeen(a, p)
  <2> SUFFICES ASSUME "err" \notin ends, NEW a \in Assets PROVE WithdrawalSeen(a, p)
    OBVIOUS
  <2>1. wait[p][a].pc = "ok"
    BY <1>1
  <2> QED BY <1>2, <2>1 DEF Inv, CallsOK, WaitOK
<1>4. res \in {"nil", "other"}
  OBVIOUS
<1> HIDE DEF res
<1> QED BY <1>1, <1>2, <1>3, <1>4, ReturnInv

LEMMA RegisterAssetInv ==
  ASSUME Inv, NEW p \in Parts, NEW a \in Assets, RegisterAsset(p, a)
  PROVE  Inv'
<1>1. Kept /\ call' = call /\ wait' = wait
  BY QuietKept DEF RegisterAsset
<1>2. call[p] \in CallType /\ call' = [call EXCEPT ![p] = call[p]]
  BY <1>1 DEF Inv, TypeOK
<1>3. CallOK(p, call[p]) /\ \A b \in Assets : WaitOK(p, b, call[p], wait[p][b])
  BY DEF Inv, CallsOK
<1> QED BY <1>1, <1>2, <1>3, CallOnly DEF SetCall

-----------------------------------------------------------------------------
(* The theorems *)

LEMMA NextInv ==
  ASSUME Inv, [Next]_vars
  PROVE  Inv'
<1>1. CASE UNCHANGED vars
  <2>1. ChainStep
    BY <1>1, FundsSame DEF vars, chainVars, Inv, TypeOK, Concluded
  <2>2. \A p \in Parts : NonceOK(p)'
    BY <1>1 DEF vars, chainVars, Inv, ChainOK, NonceOK
  <2> QED BY <1>1, <2>1, <2>2, ChainStepInv DEF vars, chainVars, Inv, TypeOK
<1>2. ASSUME NEW p \in Parts, Goroutine(p) PROVE Inv'
  BY <1>2, SendFundingInv, ConfirmInv, FundReturnsInv, ConcludingInv, CallingInv,
     ConfirmCallInv, WithdrawReturnsInv DEF Goroutine
<1>3. ASSUME NEW p \in Parts, CallAdjudicator(p, "register") \/ CallAdjudicator(p, "withdraw")
      PROVE  Inv'
  BY <1>3, CallAdjudicatorInv
<1> QED BY <1>1, <1>2, <1>3, MineInv, ElapseInv, FundInv, CtxDoneInv, RegisterAssetInv,
           WaitFundingInv, EnsureWithdrawnInv DEF Next

\* The inductive invariant holds in every reachable state of a channel with any
\* number of participants and assets, however many Funds, Withdraws, ended
\* contexts and transactions that cannot be sent.
THEOREM EthInvariance == Spec => []Inv
<1>1. Init => Inv
  BY InitInv
<1>2. Inv /\ [Next]_vars => Inv'
  BY NextInv
<1> QED BY <1>1, <1>2, PTL DEF Spec

\* ContractBackend: the nonces of the transactions that were sent are unique, and
\* below each of them nothing is missing but what could not be sent.
THEOREM SentCanBeMinedAlways == Spec => []SentCanBeMined
<1>1. Inv => SentCanBeMined
  <2> SUFFICES ASSUME Inv, NEW t \in pool
               PROVE  /\ t.nonce >= nonce[t.acc]
                      /\ \A u \in pool \ {t} : u.acc # t.acc \/ u.nonce # t.nonce
                      /\ \A n \in nonce[t.acc]..(t.nonce - 1) :
                           <<t.acc, n>> \in unsent \/ \E u \in pool : u.acc = t.acc /\ u.nonce = n
    BY DEF SentCanBeMined
  <2> DEFINE p == t.acc
  <2>1. p \in Parts /\ NonceOK(p) /\ nonce[p] \in Nat /\ expectedNextNonce[p] \in Nat
    BY TxTypes DEF Inv, ChainOK, TypeOK
  <2>2. t.nonce \in nonce[p]..(expectedNextNonce[p] - 1)
    BY <2>1 DEF NonceOK
  <2>3. \A n \in nonce[p]..(t.nonce - 1) : n \in nonce[p]..(expectedNextNonce[p] - 1)
    BY <2>1, <2>2
  <2> QED BY <2>1, <2>2, <2>3 DEF NonceOK
<1> QED BY <1>1, EthInvariance, PTL

\* Funder.Fund: a nil error means that everybody's deposit is in the asset
\* holders, however often events are read, calls retried and contexts ended.
THEOREM NilMeansFundedAlways == Spec => []NilMeansFunded
<1>1. Inv => NilMeansFunded
  <2> SUFFICES ASSUME Inv, NEW p \in Parts, call[p].op = "fund", call[p].res = "nil",
                      NEW a \in Assets, ~Concluded, NEW q \in Parts
               PROVE  holdings[a][q] >= Agreement[a][q]
    BY DEF NilMeansFunded
  <2>1. DepositSeen(a, q)
    BY DEF Inv, CallsOK, CallOK, AllDeposited
  <2>2. deposited(q, a) >= Agreement[a][q]
    BY <2>1, DepositedEnough DEF Inv, ChainOK
  <2>3. holdings[a][q] = deposited(q, a)
    BY DEF Inv, ChainOK, FundsOK
  <2> QED BY <2>2, <2>3
<1> QED BY <1>1, EthInvariance, PTL

\* Adjudicator.Withdraw: a nil error means that the participant was paid what the
\* outcome gives it, and never more than that and its own surplus of deposits.
THEOREM WithdrawnIsPaidAlways == Spec => []WithdrawnIsPaid
<1>1. Inv => WithdrawnIsPaid
  <2> SUFFICES ASSUME Inv, NEW p \in Parts, call[p].op = "withdraw", call[p].res = "nil",
                      NEW a \in Assets
               PROVE  /\ paid[a][p] >= Outcome[a][p]
                      /\ paid[a][p] - Outcome[a][p] <= deposited(p, a) - Agreement[a][p]
    BY DEF WithdrawnIsPaid
  <2>1. AllDeposited /\ WithdrawalSeen(a, p) /\ FundsOK(a, p)
    BY DEF Inv, CallsOK, CallOK, ChainOK
  <2>2. deposited(p, a) \in Nat /\ deposited(p, a) >= Agreement[a][p]
    BY <2>1, DepositedEnough DEF Inv, ChainOK, AllDeposited
  <2>3. /\ paid[a][p] \in Nat /\ holdings[a][p] \in Nat /\ Outcome[a][p] \in Nat
        /\ Agreement[a][p] \in Nat
    BY Rows DEF Inv, TypeOK
  <2>4. paid[a][p] >= Outcome[a][p]
    BY <2>1, <2>3 DEF WithdrawalSeen, FundsOK
  <2>5. CASE Concluded
    BY <2>1, <2>2, <2>3, <2>4, <2>5 DEF FundsOK
  <2>6. CASE ~Concluded
    BY <2>1, <2>2, <2>3, <2>4, <2>6 DEF FundsOK
  <2> QED BY <2>4, <2>5, <2>6
<1> QED BY <1>1, EthInvariance, PTL
=============================================================================
