--------------------------- MODULE SupportProofs ----------------------------
(***************************************************************************)
(* What holds of the services in Support for any number of requests; laid  *)
(* out as module BillingProofs.                                            *)
(***************************************************************************)
EXTENDS Support, Sums, SequenceTheorems, TLAPS

(* A step of the composition is a step of each service or leaves it alone. *)
LEMMA PartsStep ==
  ASSUME [Next]_vars
  PROVE  /\ [C!Next]_cardVars
         /\ [R!Next]_rateVars
         /\ [T!Next]_taxVars
         /\ [U!Next]_userVars
         /\ [W!Next]_webhookVars
         /\ [D!Next]_feedVars
  BY DEF Next, Rest, vars, cardVars, rateVars, taxVars, userVars, webhookVars, feedVars

(* The composition starts each service in its own initial state.           *)
LEMMA PartsInit == Init => C!Init /\ R!Init /\ T!Init /\ U!Init /\ W!Init /\ D!Init
  BY DEF Init

(* A non-empty set of naturals that is bounded has a greatest element.     *)
LEMMA Greatest ==
  ASSUME NEW n \in Nat, NEW S, S \subseteq 0 .. n, S # {}
  PROVE  \E x \in S : \A y \in S : y <= x
<1> DEFINE F == {n - x : x \in S}
<1>1. F \subseteq Nat /\ F # {}
  <2>1. \A x \in S : n - x \in Nat
    OBVIOUS
  <2>2. PICK x \in S : TRUE
    OBVIOUS
  <2>3. n - x \in F
    OBVIOUS
  <2> QED
    BY <2>1, <2>3
<1>2. \E z \in F : \A y \in F : ~(<<y, z>> \in OpToRel(<, Nat))
  BY <1>1, WFMin, NatLessThanWellFounded
<1>3. PICK z \in F : \A y \in F : ~(y < z)
  BY <1>1, <1>2 DEF OpToRel
<1>4. PICK x \in S : z = n - x
  BY <1>3
<1>5. ASSUME NEW y \in S PROVE y <= x
  <2>1. n - y \in F
    OBVIOUS
  <2>2. ~(n - y < n - x)
    BY <1>3, <1>4, <2>1
  <2> QED
    BY <2>2, <1>4
<1> QED
  BY <1>5

-----------------------------------------------------------------------------
(* Ten does not divide two numbers less than ten apart.                    *)
LEMMA CloseToMultiple ==
  ASSUME NEW m \in Int, NEW n \in -9 .. 9, n # 0, m % 10 = 0
  PROVE  (m + n) % 10 # 0
  OBVIOUS

(* CardChecks: figures that differ at one place do not have sums that are  *)
(* both divisible by ten ...                                               *)
LEMMA OneFigureCounts ==
  ASSUME NEW S, IsFiniteSet(S), NEW f \in [S -> 0 .. 9], NEW g \in [S -> 0 .. 9], NEW i \in S,
         f[i] # g[i], \A j \in S \ {i} : g[j] = f[j],
         SumFunctionOnSet(f, S) % 10 = 0
  PROVE  SumFunctionOnSet(g, S) % 10 # 0
<1>1. \A j \in S : f[j] \in Int /\ g[j] \in Int
  OBVIOUS
<1>2. SumFunctionOnSet(g, S) = SumFunctionOnSet(f, S) + g[i] - f[i]
  BY <1>1, SumOfChange
<1>3. SumFunctionOnSet(f, S) \in Int
  BY <1>1, SumIsInteger
<1>4. f[i] \in 0 .. 9 /\ g[i] \in 0 .. 9
  OBVIOUS
<1>5. PICK n \in -9 .. 9 : n # 0 /\ SumFunctionOnSet(g, S) = SumFunctionOnSet(f, S) + n
  <2>1. g[i] - f[i] \in -9 .. 9 /\ g[i] - f[i] # 0
    BY <1>4
  <2>2. SumFunctionOnSet(g, S) = SumFunctionOnSet(f, S) + (g[i] - f[i])
    BY <1>2, <1>3, <1>4
  <2> QED
    BY <2>1, <2>2
<1> QED
  BY <1>3, <1>5, CloseToMultiple

(* ... nor do figures that differ at two places, unless the differences    *)
(* cancel out.                                                             *)
LEMMA TwoFiguresCount ==
  ASSUME NEW S, IsFiniteSet(S), NEW f \in [S -> 0 .. 9], NEW g \in [S -> 0 .. 9],
         NEW i \in S, NEW k \in S, i # k, \A j \in S \ {i, k} : g[j] = f[j],
         NEW n \in -9 .. 9, n # 0, n = (g[i] - f[i]) + (g[k] - f[k]),
         SumFunctionOnSet(f, S) % 10 = 0
  PROVE  SumFunctionOnSet(g, S) % 10 # 0
<1> DEFINE h == [f EXCEPT ![i] = g[i]]
<1>1. /\ \A j \in S : f[j] \in Int /\ g[j] \in Int /\ h[j] \in Int
      /\ \A j \in S \ {i} : h[j] = f[j]
      /\ \A j \in S \ {k} : g[j] = h[j]
      /\ h[i] = g[i] /\ h[k] = f[k]
  OBVIOUS
<1> HIDE DEF h
<1>2. SumFunctionOnSet(h, S) = SumFunctionOnSet(f, S) + h[i] - f[i]
  BY <1>1, SumOfChange
<1>3. SumFunctionOnSet(g, S) = SumFunctionOnSet(h, S) + g[k] - h[k]
  BY <1>1, SumOfChange
<1>4. SumFunctionOnSet(f, S) \in Int
  BY <1>1, SumIsInteger
<1>5. SumFunctionOnSet(g, S) = SumFunctionOnSet(f, S) + n
  BY <1>1, <1>2, <1>3, <1>4
<1> QED
  BY <1>4, <1>5, CloseToMultiple

(* What a digit counts for when it is doubled and folded.                  *)
LEMMA DigitCounts ==
  ASSUME NEW d \in 0 .. 9
  PROVE  /\ C!Doubled(d) \in 0 .. 9
         /\ d > 4 => C!Doubled(d) = 2 * d - 9
         /\ d <= 4 => C!Doubled(d) = 2 * d
  BY DEF C!Doubled

(* The figure tells it from every other digit in its place.                *)
LEMMA DigitsTellApart ==
  ASSUME NEW d \in 0 .. 9, NEW e \in 0 .. 9, d # e
  PROVE  C!Doubled(d) # C!Doubled(e)
  BY DigitCounts

(* Next to each other, only 0 and 9 count as much when they are swapped.   *)
LEMMA SwapsTell ==
  ASSUME NEW d \in 0 .. 9, NEW e \in 0 .. 9, d # e, {d, e} # {0, 9}
  PROVE  /\ (C!Doubled(e) - C!Doubled(d)) + (d - e) \in -9 .. 9
         /\ (C!Doubled(e) - C!Doubled(d)) + (d - e) # 0
         /\ (e - d) + (C!Doubled(d) - C!Doubled(e)) \in -9 .. 9
         /\ (e - d) + (C!Doubled(d) - C!Doubled(e)) # 0
<1>1. ~(d = 0 /\ e = 9) /\ ~(d = 9 /\ e = 0)
  OBVIOUS
<1> QED
  BY <1>1, DigitCounts

(* SumFunctionOnSet, as CardChecks has it.                                 *)
LEMMA CardSums ==
  ASSUME NEW h, NEW S
  PROVE  C!SumFunctionOnSet(h, S) = SumFunctionOnSet(h, S)
  BY DEF C!SumFunctionOnSet, C!FoldFunctionOnSet, C!MapThenFoldSet,
         SumFunctionOnSet, FoldFunctionOnSet, MapThenFoldSet

(* What the figures of a number are, and that they are summed.             *)
PlacesIn(pan) == 1 .. Len(pan)
Figures(pan) == [i \in PlacesIn(pan) |-> C!Worth(pan, i)]

(* The number's sum is that of its figures, each less than ten.            *)
LEMMA LuhnIsSum ==
  ASSUME NEW pan \in Seq(0 .. 9)
  PROVE  /\ C!LuhnSum(pan) = SumFunctionOnSet(Figures(pan), PlacesIn(pan))
         /\ Figures(pan) \in [PlacesIn(pan) -> 0 .. 9]
         /\ IsFiniteSet(PlacesIn(pan))
         /\ \A i \in PlacesIn(pan) : pan[i] \in 0 .. 9
<1>1. Len(pan) \in Nat /\ DOMAIN pan = PlacesIn(pan) /\ \A i \in PlacesIn(pan) : pan[i] \in 0 .. 9
  BY DEF PlacesIn
<1>2. ASSUME NEW i \in PlacesIn(pan) PROVE C!Worth(pan, i) \in 0 .. 9
  <2>1. pan[i] \in 0 .. 9 /\ C!Doubled(pan[i]) \in 0 .. 9
    BY <1>1, DigitCounts
  <2> QED
    BY <2>1 DEF C!Worth
<1>3. IsFiniteSet(PlacesIn(pan))
  BY <1>1, FS_Interval DEF PlacesIn
<1>4. DOMAIN Figures(pan) = PlacesIn(pan)
  BY DEF Figures
<1>5. C!LuhnSum(pan) = C!SumFunctionOnSet(Figures(pan), DOMAIN Figures(pan))
  BY <1>1 DEF C!LuhnSum, C!SumFunction, Figures
<1>6. C!LuhnSum(pan) = SumFunctionOnSet(Figures(pan), PlacesIn(pan))
  BY <1>4, <1>5, CardSums
<1> QED
  BY <1>1, <1>2, <1>3, <1>6 DEF Figures

(* A valid number is not valid with one wrong digit.                       *)
LEMMA WrongDigit ==
  ASSUME NEW pan \in Seq(0 .. 9), NEW i \in PlacesIn(pan), NEW d \in 0 .. 9 \ {pan[i]},
         C!LuhnSum(pan) % 10 = 0
  PROVE  C!LuhnSum([pan EXCEPT ![i] = d]) % 10 # 0
<1> DEFINE other == [pan EXCEPT ![i] = d]
           f == Figures(pan)
           g == Figures(other)
<1>1. /\ other \in Seq(0 .. 9) /\ Len(other) = Len(pan) /\ other[i] = d
      /\ \A j \in PlacesIn(pan) \ {i} : other[j] = pan[j]
  BY DEF PlacesIn
<1> HIDE DEF other
<1>2. /\ PlacesIn(other) = PlacesIn(pan) /\ IsFiniteSet(PlacesIn(pan))
      /\ f \in [PlacesIn(pan) -> 0 .. 9] /\ g \in [PlacesIn(pan) -> 0 .. 9]
      /\ pan[i] \in 0 .. 9
      /\ C!LuhnSum(pan) = SumFunctionOnSet(f, PlacesIn(pan))
      /\ C!LuhnSum(other) = SumFunctionOnSet(g, PlacesIn(pan))
  <2>1. PlacesIn(other) = PlacesIn(pan)
    BY <1>1 DEF PlacesIn
  <2> QED
    BY <1>1, <2>1, LuhnIsSum
<1>3. \A j \in PlacesIn(pan) \ {i} : g[j] = f[j]
  BY <1>1, <1>2 DEF Figures, C!Worth
<1>4. f[i] # g[i]
  <2>1. C!Doubled(pan[i]) # C!Doubled(d) /\ pan[i] # d
    BY <1>2, DigitsTellApart
  <2>2. f[i] = C!Worth(pan, i) /\ g[i] = C!Worth(other, i)
    BY <1>2 DEF Figures
  <2>3. \/ f[i] = C!Doubled(pan[i]) /\ g[i] = C!Doubled(d)
        \/ f[i] = pan[i] /\ g[i] = d
    BY <1>1, <2>2 DEF C!Worth
  <2> QED
    BY <2>1, <2>3
<1> HIDE DEF f, g
<1>5. SumFunctionOnSet(g, PlacesIn(pan)) % 10 # 0
  BY <1>2, <1>3, <1>4, OneFigureCounts
<1> QED
  BY <1>2, <1>5 DEF other

(* Nor with two different neighbours swapped, but for 0 and 9.             *)
LEMMA SwappedDigits ==
  ASSUME NEW pan \in Seq(0 .. 9), NEW i \in 1 .. Len(pan) - 1,
         pan[i] # pan[i + 1], {pan[i], pan[i + 1]} # {0, 9},
         C!LuhnSum(pan) % 10 = 0
  PROVE  C!LuhnSum([pan EXCEPT ![i] = pan[i + 1], ![i + 1] = pan[i]]) % 10 # 0
<1> DEFINE other == [pan EXCEPT ![i] = pan[i + 1], ![i + 1] = pan[i]]
           f == Figures(pan)
           g == Figures(other)
           d == pan[i]
           e == pan[i + 1]
<1>0. PICK k : k = i + 1
  OBVIOUS
<1>1. i \in PlacesIn(pan) /\ k \in PlacesIn(pan) /\ i # k /\ ((Len(pan) - i) % 2 = 1 <=> (Len(pan) - k) % 2 # 1)
  <2>1. Len(pan) \in Nat
    OBVIOUS
  <2> DEFINE n == Len(pan)
  <2> HIDE DEF n
  <2>2. n \in Nat /\ i \in 1 .. n - 1
    BY <2>1 DEF n
  <2>3. i \in 1 .. n /\ k \in 1 .. n /\ i # k /\ ((n - i) % 2 = 1 <=> (n - k) % 2 # 1)
    BY <1>0, <2>2
  <2> QED
    BY <2>3 DEF PlacesIn, n
<1>2. /\ other \in Seq(0 .. 9) /\ Len(other) = Len(pan) /\ other[i] = e /\ other[k] = d
      /\ \A j \in PlacesIn(pan) \ {i, k} : other[j] = pan[j]
  <2>1. other = [pan EXCEPT ![i] = e, ![k] = d]
    BY <1>0
  <2>2. DOMAIN pan = PlacesIn(pan) /\ d \in 0 .. 9 /\ e \in 0 .. 9
    BY <1>0, <1>1 DEF PlacesIn
  <2> HIDE DEF other, d, e
  <2> DEFINE first == [pan EXCEPT ![i] = e]
  <2>3. first \in Seq(0 .. 9) /\ Len(first) = Len(pan)
    BY <1>1, <2>2, ExceptSeq DEF PlacesIn
  <2>4. other = [first EXCEPT ![k] = d]
    BY <1>1, <2>1, <2>2
  <2> HIDE DEF first
  <2>5. other \in Seq(0 .. 9) /\ Len(other) = Len(pan)
    BY <1>1, <2>2, <2>3, <2>4, ExceptSeq DEF PlacesIn
  <2> QED
    BY <1>1, <2>1, <2>2, <2>5
<1>3. d \in 0 .. 9 /\ e \in 0 .. 9
  BY <1>0, <1>1, LuhnIsSum
<1> HIDE DEF other
<1>4. /\ PlacesIn(other) = PlacesIn(pan) /\ IsFiniteSet(PlacesIn(pan))
      /\ f \in [PlacesIn(pan) -> 0 .. 9] /\ g \in [PlacesIn(pan) -> 0 .. 9]
      /\ C!LuhnSum(pan) = SumFunctionOnSet(f, PlacesIn(pan))
      /\ C!LuhnSum(other) = SumFunctionOnSet(g, PlacesIn(pan))
  <2>1. PlacesIn(other) = PlacesIn(pan)
    BY <1>2 DEF PlacesIn
  <2> QED
    BY <1>2, <2>1, LuhnIsSum
<1>5. \A j \in PlacesIn(pan) \ {i, k} : g[j] = f[j]
  BY <1>2, <1>4 DEF Figures, C!Worth
<1>6. \/ f[i] = C!Doubled(d) /\ f[k] = e /\ g[i] = C!Doubled(e) /\ g[k] = d
      \/ f[i] = d /\ f[k] = C!Doubled(e) /\ g[i] = e /\ g[k] = C!Doubled(d)
  <2>1. /\ f[i] = C!Worth(pan, i) /\ f[k] = C!Worth(pan, k)
        /\ g[i] = C!Worth(other, i) /\ g[k] = C!Worth(other, k) /\ pan[k] = e
    BY <1>0, <1>1, <1>4 DEF Figures
  <2> HIDE DEF f, g, d, e
  <2>2. pan[i] = d
    BY DEF d
  <2> QED
    BY <1>1, <1>2, <2>1, <2>2 DEF C!Worth
<1>7. \E n \in -9 .. 9 : n # 0 /\ n = (g[i] - f[i]) + (g[k] - f[k])
  <2>1. CASE f[i] = C!Doubled(d) /\ f[k] = e /\ g[i] = C!Doubled(e) /\ g[k] = d
    BY <1>3, <2>1, SwapsTell
  <2>2. CASE f[i] = d /\ f[k] = C!Doubled(e) /\ g[i] = e /\ g[k] = C!Doubled(d)
    BY <1>3, <2>2, SwapsTell
  <2> QED
    BY <1>6, <2>1, <2>2
<1> HIDE DEF f, g
<1>8. SumFunctionOnSet(g, PlacesIn(pan)) % 10 # 0
  BY <1>1, <1>4, <1>5, <1>7, TwoFiguresCount
<1> QED
  BY <1>4, <1>8 DEF other

(* A card that was accepted has a number that is valid.                    *)
CardInv ==
  answer \in {"valid", "approved"} => card \in Cards /\ C!ValidateCardNumber(card.pan)

(* Only a card that passes the checks is accepted.                         *)
LEMMA CardInvStep == ASSUME CardInv, [C!Next]_cardVars PROVE CardInv'
<1>1. ASSUME NEW c \in Cards, C!AskIfValid(c) PROVE CardInv'
  BY <1>1 DEF CardInv, C!AskIfValid, C!ValidateCard
<1>2. ASSUME NEW c \in Cards, C!ProcessVisaPayment(c) PROVE CardInv'
  BY <1>2 DEF CardInv, C!ProcessVisaPayment, C!ValidateCard
<1>3. CASE UNCHANGED cardVars
  BY <1>3 DEF cardVars, CardInv
<1> QED
  BY <1>1, <1>2, <1>3 DEF C!Next

(* If a card is accepted, its number with one wrong digit would not be,    *)
(* nor with two different neighbours swapped unless they are 0 and 9: for  *)
(* any set of cards.                                                       *)
THEOREM LuhnCatchesSlips == Spec => []SlipsAreCaught
<1>1. C!Init => CardInv
  BY DEF C!Init, CardInv
<1>2. CardInv /\ [Next]_vars => CardInv'
  BY PartsStep, CardInvStep
<1>3. CardInv => SlipsAreCaught
  <2> SUFFICES ASSUME CardInv, answer \in {"valid", "approved"} PROVE SlipsAreCaught
    BY DEF SlipsAreCaught, C!SlipsAreCaught
  <2> DEFINE pan == card.pan
  <2>1. pan \in Seq(0 .. 9) /\ C!LuhnSum(pan) % 10 = 0 /\ DOMAIN pan = PlacesIn(pan)
    BY SupportAssumption DEF CardInv, C!ValidateCardNumber, PlacesIn
  <2>2. ASSUME NEW i \in DOMAIN pan, NEW d \in 0 .. 9 \ {pan[i]}
        PROVE  ~C!ValidateCardNumber([pan EXCEPT ![i] = d])
    BY <2>1, WrongDigit DEF C!ValidateCardNumber
  <2>3. ASSUME NEW i \in 1 .. Len(pan) - 1, pan[i] # pan[i + 1], {pan[i], pan[i + 1]} # {0, 9}
        PROVE  ~C!ValidateCardNumber([pan EXCEPT ![i] = pan[i + 1], ![i + 1] = pan[i]])
    BY <2>1, <2>3, SwappedDigits DEF C!ValidateCardNumber
  <2> QED
    BY <2>2, <2>3 DEF SlipsAreCaught, C!SlipsAreCaught
<1> QED
  BY <1>1, <1>2, <1>3, PartsInit, PTL DEF Spec

-----------------------------------------------------------------------------
(* Users: nobody is told of a user before the row is there.                *)
UserInv ==
  /\ users = [u \in Users |-> users[u]]
  /\ registering = [h \in Handlers |-> registering[h]]
  /\ \A t \in told : t[1] # None /\ t[2] \in Users
  /\ U!OneUserPerEmail

(* No step of Users breaks its invariant.                                  *)
LEMMA UserInvStep == ASSUME UserInv, [U!Next]_userVars PROVE UserInv'
<1> USE DEF UserInv, U!OneUserPerEmail
<1>1. ASSUME NEW h \in Handlers, NEW u \in Users, U!InsertUser(h, u) PROVE UserInv'
  BY <1>1 DEF U!InsertUser, U!EmailTaken
<1>2. ASSUME NEW h \in Handlers, U!Interrupt(h) PROVE UserInv'
  BY <1>2 DEF U!Interrupt, U!EmailTaken
<1>3. ASSUME NEW h \in Handlers, NEW e \in Emails, NEW fails \in BOOLEAN, U!LookUpEmail(h, e, fails)
      PROVE  UserInv'
  BY <1>3 DEF U!LookUpEmail
<1>4. ASSUME NEW u \in Users, U!VerifyUser(u) PROVE UserInv'
  BY <1>4 DEF U!VerifyUser
<1>5. CASE UNCHANGED userVars
  BY <1>5 DEF userVars
<1> QED
  BY <1>1, <1>2, <1>3, <1>4, <1>5 DEF U!Next

(* An email has one user, the one its client was told of, for any number   *)
(* of requests that look it up before any of them inserts it.              *)
THEOREM EmailsAreUnique == Spec => []OneUserPerEmail
<1>1. U!Init => UserInv
  BY DEF U!Init, UserInv, U!OneUserPerEmail
<1>2. UserInv /\ [Next]_vars => UserInv'
  BY PartsStep, UserInvStep
<1>3. UserInv => OneUserPerEmail
  BY DEF UserInv, OneUserPerEmail
<1> QED
  BY <1>1, <1>2, <1>3, PartsInit, PTL DEF Spec

-----------------------------------------------------------------------------
(* DashboardFeed: a task asks for the message after those received.        *)
Fed(c) ==
  /\ since[c] \in Nat /\ received[c] \in Seq(Nat) /\ since[c] + Len(received[c]) <= tail
  /\ socket[c] = "none" => task[c] = "none" /\ received[c] = <<>>
  /\ task[c] # "none" => next[c] = since[c] + Len(received[c]) + 1
  /\ task[c] = "holding" => next[c] <= tail
  /\ \A i \in DOMAIN received[c] : received[c][i] = since[c] + i
  /\ socket[c] = "open" /\ task[c] = "ended" => tail - (since[c] + Len(received[c])) > Capacity

FeedInv ==
  /\ tail \in Nat
  /\ next = [c \in Clients |-> next[c]] /\ since = [c \in Clients |-> since[c]]
  /\ task = [c \in Clients |-> task[c]] /\ socket = [c \in Clients |-> socket[c]]
  /\ received = [c \in Clients |-> received[c]]
  /\ \A c \in Clients : Fed(c)

(* No step of DashboardFeed breaks its invariant.                          *)
LEMMA FeedInvStep == ASSUME FeedInv, [D!Next]_feedVars PROVE FeedInv'
<1> USE SupportAssumption DEF FeedInv
<1>1. ASSUME NEW c \in Clients, D!Connect(c) PROVE FeedInv'
  <2>1. Fed(c)'
    BY <1>1 DEF D!Connect, Fed
  <2>2. ASSUME NEW d \in Clients, d # c PROVE Fed(d)'
    BY <1>1, <2>2 DEF D!Connect, Fed
  <2> QED
    BY <1>1, <2>1, <2>2 DEF D!Connect
<1>2. ASSUME NEW c \in Clients, D!Recv(c) PROVE FeedInv'
  <2>1. Fed(c)'
    BY <1>2 DEF D!Recv, Fed
  <2>2. ASSUME NEW d \in Clients, d # c PROVE Fed(d)'
    BY <1>2, <2>2 DEF D!Recv, Fed
  <2> QED
    BY <1>2, <2>1, <2>2 DEF D!Recv
<1>3. ASSUME NEW c \in Clients, D!RecvLagged(c) PROVE FeedInv'
  <2>1. Fed(c)'
    BY <1>3 DEF D!RecvLagged, D!Lags, Fed
  <2>2. ASSUME NEW d \in Clients, d # c PROVE Fed(d)'
    BY <1>3, <2>2 DEF D!RecvLagged, Fed
  <2> QED
    BY <1>3, <2>1, <2>2 DEF D!RecvLagged
<1>4. ASSUME NEW c \in Clients, D!Forward(c) PROVE FeedInv'
  <2>1. Fed(c)'
    <3>1. /\ received[c] \in Seq(Nat) /\ next[c] \in Nat
          /\ next[c] = since[c] + Len(received[c]) + 1 /\ next[c] <= tail
      BY <1>4 DEF D!Forward, Fed
    <3>2. received'[c] = Append(received[c], next[c])
      BY <1>4 DEF D!Forward
    <3>3. /\ received'[c] \in Seq(Nat) /\ Len(received'[c]) = Len(received[c]) + 1
          /\ \A i \in DOMAIN received'[c] : received'[c][i] = since[c] + i
      <4>1. /\ received'[c] \in Seq(Nat) /\ Len(received'[c]) = Len(received[c]) + 1
            /\ \A i \in 1 .. Len(received[c]) : received'[c][i] = received[c][i]
            /\ received'[c][Len(received[c]) + 1] = next[c]
        BY <3>1, <3>2, AppendProperties
      <4>2. DOMAIN received[c] = 1 .. Len(received[c]) /\ Len(received[c]) \in Nat
        BY <3>1
      <4>3. DOMAIN received'[c] = 1 .. Len(received[c]) + 1
        BY <4>1
      <4>4. \A i \in 1 .. Len(received[c]) : received[c][i] = since[c] + i
        BY <4>2 DEF Fed
      <4>5. ASSUME NEW i \in 1 .. Len(received[c]) + 1 PROVE received'[c][i] = since[c] + i
        <5>1. CASE i = Len(received[c]) + 1
          BY <3>1, <4>1, <4>2, <5>1 DEF Fed
        <5>2. CASE i # Len(received[c]) + 1
          BY <4>1, <4>2, <4>4, <5>2
        <5> QED
          BY <5>1, <5>2
      <4> QED
        BY <4>1, <4>3, <4>5
    <3>4. /\ since' = since /\ tail' = tail /\ socket'[c] = "open" /\ task'[c] = "waiting"
          /\ next'[c] = next[c] + 1
      BY <1>4 DEF D!Forward
    <3> QED
      BY <3>1, <3>3, <3>4 DEF Fed
  <2>2. ASSUME NEW d \in Clients, d # c PROVE Fed(d)'
    BY <1>4, <2>2 DEF D!Forward, Fed
  <2> QED
    BY <1>4, <2>1, <2>2 DEF D!Forward
<1>5. ASSUME NEW c \in Clients, D!ForwardFails(c) PROVE FeedInv'
  <2>1. Fed(c)'
    BY <1>5 DEF D!ForwardFails, Fed
  <2>2. ASSUME NEW d \in Clients, d # c PROVE Fed(d)'
    BY <1>5, <2>2 DEF D!ForwardFails, Fed
  <2> QED
    BY <1>5, <2>1, <2>2 DEF D!ForwardFails
<1>6. ASSUME NEW c \in Clients, D!Disconnect(c) PROVE FeedInv'
  <2>1. Fed(c)'
    BY <1>6 DEF D!Disconnect, Fed
  <2>2. ASSUME NEW d \in Clients, d # c PROVE Fed(d)'
    BY <1>6, <2>2 DEF D!Disconnect, Fed
  <2> QED
    BY <1>6, <2>1, <2>2 DEF D!Disconnect
<1>7. ASSUME D!Broadcast PROVE FeedInv'
  BY <1>7 DEF D!Broadcast, Fed
<1>8. CASE UNCHANGED feedVars
  BY <1>8 DEF feedVars, Fed
<1> QED
  BY <1>1, <1>2, <1>3, <1>4, <1>5, <1>6, <1>7, <1>8 DEF D!Next

(* Every dashboard's feed is without gaps, whatever the ring's capacity.   *)
THEOREM FeedsHaveNoGaps == Spec => []FeedHasNoGaps
<1>1. D!Init => FeedInv
  BY DEF D!Init, FeedInv, Fed
<1>2. FeedInv /\ [Next]_vars => FeedInv'
  BY PartsStep, FeedInvStep
<1>3. FeedInv => FeedHasNoGaps
  BY DEF FeedInv, Fed, FeedHasNoGaps, D!FeedHasNoGaps
<1> QED
  BY <1>1, <1>2, <1>3, PartsInit, PTL DEF Spec

-----------------------------------------------------------------------------
(* Webhooks: where each row of webhook_events has got to.  An endpoint     *)
(* still to be served has no row, but for the one about to be spawned.     *)
Left(e) == delivery[e].todo

Placed(e) ==
  /\ delivery[e] \in [pc : {"none", "insert", "spawn", "done"}, todo : SUBSET Endpoints]
  /\ delivery[e].pc = "none" => \A w : <<e, w>> \notin webhook_events
  /\ delivery[e].pc = "insert" => \A w \in Left(e) : <<e, w>> \notin webhook_events
  /\ delivery[e].pc = "spawn" =>
       /\ W!Newest(e) \in Left(e)
       /\ \A w \in Left(e) : <<e, w>> \in webhook_events <=> w = W!Newest(e)
       /\ <<e, W!Newest(e)>> \notin posted \cup sending \cup cut

WebhookInv ==
  /\ delivery = [e \in Events |-> delivery[e]]
  /\ \A e \in Events : Placed(e)
  /\ posted \cup sending \cup cut \subseteq webhook_events
  /\ posted \cap sending = {} /\ posted \cap cut = {} /\ sending \cap cut = {}
  /\ webhook_events \subseteq posted \cup sending \cup cut \cup W!Unspawned(Events)

(* A row without a POST is that of a delivery about to be spawned.         *)
LEMMA UnspawnedIs ==
  ASSUME NEW r
  PROVE  r \in W!Unspawned(Events) <=>
           \E d \in Events : delivery[d].pc = "spawn" /\ r = <<d, W!Newest(d)>>
  BY DEF W!Unspawned

(* The first endpoint that is left is one of those left.                   *)
LEMMA NewestIsLeft ==
  ASSUME NEW e \in Events, Left(e) \subseteq Endpoints, Left(e) # {}
  PROVE  W!Newest(e) \in Left(e)
<1>1. Cardinality(Endpoints) \in Nat
  BY SupportAssumption, FS_CardinalityType
<1>2. Left(e) \subseteq 0 .. Cardinality(Endpoints)
  BY <1>1, SupportAssumption
<1>3. PICK x \in Left(e) : \A y \in Left(e) : y <= x
  BY <1>1, <1>2, Greatest
<1>4. \A y \in Left(e) : x >= y
  BY <1>1, <1>2, <1>3
<1> QED
  BY <1>4 DEF W!Newest, W!Max, Left

(* No step of Webhooks breaks its invariant.                               *)
LEMMA WebhookInvStep == ASSUME WebhookInv, [W!Next]_webhookVars PROVE WebhookInv'
<1> USE DEF WebhookInv
<1>1. ASSUME NEW w \in Endpoints, NEW types, W!CreateWebhook(w, types) PROVE WebhookInv'
  BY <1>1 DEF W!CreateWebhook, Placed, Left, W!Newest, W!Unspawned
<1>2. ASSUME NEW e \in Events, W!ListWebhooks(e) PROVE WebhookInv'
  BY <1>2 DEF W!ListWebhooks, Placed, Left, W!Newest, W!Unspawned, W!Subscribed
<1>3. ASSUME NEW e \in Events, NEW inserted \in BOOLEAN, W!InsertEvent(e, inserted)
      PROVE  WebhookInv'
  <2>1. /\ delivery[e].pc = "insert" /\ Left(e) \subseteq Endpoints /\ Left(e) # {}
        /\ UNCHANGED <<posted, sending, cut>> /\ W!Newest(e) \in Left(e)
    BY <1>3, NewestIsLeft DEF W!InsertEvent, Placed, Left
  <2>2. /\ delivery' = [d \in Events |-> delivery'[d]]
        /\ \A d \in Events \ {e} : delivery'[d] = delivery[d]
        /\ delivery'[e] = [pc |-> IF inserted THEN "spawn" ELSE "done", todo |-> Left(e)]
    BY <1>3 DEF W!InsertEvent, W!AfterInsert, Placed, Left
  <2>3. /\ inserted => webhook_events' = webhook_events \cup {<<e, W!Newest(e)>>}
        /\ ~inserted => webhook_events' = webhook_events
    BY <1>3 DEF W!InsertEvent
  <2>4. \A d \in Events : W!Newest(d)' = W!Newest(d) /\ Left(d)' = Left(d)
    BY <2>2 DEF W!Newest, Left
  <2>5. <<e, W!Newest(e)>> \notin posted \cup sending \cup cut
    BY <2>1 DEF Placed
  <2>6. Placed(e)'
    BY <2>1, <2>2, <2>3, <2>4, <2>5 DEF Placed
  <2>7. ASSUME NEW d \in Events, d # e PROVE Placed(d)'
    BY <2>1, <2>2, <2>3, <2>4, <2>7 DEF Placed
  <2>8. webhook_events' \subseteq posted' \cup sending' \cup cut' \cup W!Unspawned(Events)'
    BY <2>1, <2>2, <2>3, <2>4 DEF W!Unspawned
  <2> QED
    BY <2>1, <2>2, <2>3, <2>6, <2>7, <2>8
<1>4. ASSUME NEW e \in Events, W!Spawn(e) PROVE WebhookInv'
  <2>1. /\ delivery[e].pc = "spawn" /\ UNCHANGED <<posted, cut, webhook_events>>
        /\ sending' = sending \cup {<<e, W!Newest(e)>>}
    BY <1>4 DEF W!Spawn
  <2>2. /\ delivery' = [d \in Events |-> delivery'[d]]
        /\ \A d \in Events \ {e} : delivery'[d] = delivery[d]
        /\ delivery'[e] = [pc |-> "insert", todo |-> Left(e) \ {W!Newest(e)}]
    BY <1>4 DEF W!Spawn, Left
  <2>3. \A d \in Events \ {e} : W!Newest(d)' = W!Newest(d) /\ Left(d)' = Left(d)
    BY <2>2 DEF W!Newest, Left
  <2>4. Left(e)' = Left(e) \ {W!Newest(e)}
    BY <2>2 DEF Left
  <2>5. /\ W!Newest(e) \in Left(e) /\ <<e, W!Newest(e)>> \in webhook_events
        /\ <<e, W!Newest(e)>> \notin posted \cup sending \cup cut
    BY <2>1 DEF Placed
  <2>6. Placed(e)'
    <3>1. \A w \in Left(e) \ {W!Newest(e)} : <<e, w>> \notin webhook_events
      BY <2>1 DEF Placed
    <3>2. [pc |-> "insert", todo |-> Left(e) \ {W!Newest(e)}]
            \in [pc : {"none", "insert", "spawn", "done"}, todo : SUBSET Endpoints]
      BY DEF Placed, Left
    <3> QED
      BY <2>1, <2>2, <2>4, <3>1, <3>2 DEF Placed
  <2>7. ASSUME NEW d \in Events, d # e PROVE Placed(d)'
    BY <2>1, <2>2, <2>3, <2>7 DEF Placed
  <2>8. webhook_events' \subseteq posted' \cup sending' \cup cut' \cup W!Unspawned(Events)'
    BY <2>1, <2>2, <2>3 DEF W!Unspawned
  <2> QED
    BY <2>1, <2>2, <2>5, <2>6, <2>7, <2>8
<1>5. ASSUME NEW e \in Events, W!Interrupt(e) PROVE WebhookInv'
  <2>1. /\ delivery[e].pc \in {"insert", "spawn"} /\ cut' = cut \cup W!Unspawned({e})
        /\ UNCHANGED <<webhook_events, posted, sending>>
    BY <1>5 DEF W!Interrupt
  <2>2. /\ delivery' = [d \in Events |-> delivery'[d]]
        /\ \A d \in Events \ {e} : delivery'[d] = delivery[d]
        /\ delivery'[e] = [pc |-> "done", todo |-> Left(e)]
    BY <1>5 DEF W!Interrupt, Placed, Left
  <2>3. W!Unspawned({e}) = IF delivery[e].pc = "spawn" THEN {<<e, W!Newest(e)>>} ELSE {}
    BY DEF W!Unspawned
  <2>4. \A d \in Events \ {e} : W!Newest(d)' = W!Newest(d) /\ Left(d)' = Left(d)
    BY <2>2 DEF W!Newest, Left
  <2>5. /\ W!Unspawned({e}) \subseteq webhook_events
        /\ W!Unspawned({e}) \cap (posted \cup sending) = {}
    <3>1. delivery[e].pc = "spawn" =>
            <<e, W!Newest(e)>> \in webhook_events \ (posted \cup sending)
      BY DEF Placed
    <3> QED
      BY <2>3, <3>1
  <2>6. Placed(e)'
    <3>1. Left(e) \in SUBSET Endpoints
      BY DEF Placed, Left
    <3> QED
      BY <2>2, <3>1 DEF Placed
  <2>7. ASSUME NEW d \in Events, d # e PROVE Placed(d)'
    BY <2>1, <2>2, <2>3, <2>4, <2>7 DEF Placed
  <2>8. webhook_events' \subseteq posted' \cup sending' \cup cut' \cup W!Unspawned(Events)'
    BY <2>1, <2>2, <2>3, <2>4 DEF W!Unspawned
  <2> QED
    BY <2>1, <2>2, <2>5, <2>6, <2>7, <2>8
<1>6. ASSUME NEW t \in sending, W!Post(t) PROVE WebhookInv'
  BY <1>6 DEF W!Post, Placed, Left, W!Newest, W!Unspawned
<1>7. ASSUME W!Crash PROVE WebhookInv'
  <2>1. /\ sending' = {} /\ cut' = cut \cup sending \cup W!Unspawned(Events)
        /\ UNCHANGED <<webhook_events, posted>>
    BY <1>7 DEF W!Crash
  <2>2. /\ delivery' = [d \in Events |-> delivery'[d]]
        /\ \A d \in Events :
             /\ delivery[d].pc = "none" => delivery'[d] = delivery[d]
             /\ delivery[d].pc # "none" => delivery'[d] = [pc |-> "done", todo |-> Left(d)]
    BY <1>7 DEF W!Crash, Placed, Left
  <2>3. W!Unspawned(Events) \subseteq webhook_events /\ posted \cap W!Unspawned(Events) = {}
    <3>1. ASSUME NEW d \in Events, delivery[d].pc = "spawn"
          PROVE  <<d, W!Newest(d)>> \in webhook_events \ posted
      BY <3>1 DEF Placed
    <3>2. ASSUME NEW r \in W!Unspawned(Events) PROVE r \in webhook_events \ posted
      BY <3>1, <3>2, UnspawnedIs
    <3> QED
      BY <3>2
  <2>4. ASSUME NEW d \in Events PROVE Placed(d)'
    <3>1. Left(d) \in SUBSET Endpoints
      BY DEF Placed, Left
    <3>2. CASE delivery[d].pc = "none"
      BY <2>1, <2>2, <3>2 DEF Placed
    <3>3. CASE delivery[d].pc # "none"
      BY <2>2, <3>1, <3>3 DEF Placed
    <3> QED
      BY <3>2, <3>3
  <2> QED
    BY <2>1, <2>2, <2>3, <2>4
<1>8. CASE UNCHANGED webhookVars
  BY <1>8 DEF webhookVars, Placed, Left, W!Newest, W!Unspawned
<1> QED
  BY <1>1, <1>2, <1>3, <1>4, <1>5, <1>6, <1>7, <1>8 DEF W!Next

(* The rows of webhook_events account for every POST, and what is missing  *)
(* was cut off, for any number of endpoints, events and crashes.           *)
THEOREM RowsAccountForPosts == Spec => []RowsMatchPosts
<1>1. W!Init => WebhookInv
  BY DEF W!Init, WebhookInv, Placed, Left
<1>2. WebhookInv /\ [Next]_vars => WebhookInv'
  BY PartsStep, WebhookInvStep
<1>3. WebhookInv => RowsMatchPosts
  BY DEF WebhookInv, RowsMatchPosts, W!RowsMatchPosts
<1> QED
  BY <1>1, <1>2, <1>3, PartsInit, PTL DEF Spec

-----------------------------------------------------------------------------
(* TaxRates: rates are natural numbers, and the last answer was reversible *)
(* when it was given.                                                      *)
TaxInv ==
  /\ tax_rate = [r \in TaxRates |-> tax_rate[r]]
  /\ \A r \in TaxRates :
       tax_rate[r] # None => tax_rate[r].percentage \in Nat /\ tax_rate[r].inclusive \in BOOLEAN
  /\ T!TaxIsReversible

(* A number within less than half of d from a multiple of d has that as    *)
(* its one nearest multiple.                                               *)
LEMMA NearestIs ==
  ASSUME NEW n \in Int, NEW d \in Nat \ {0}, NEW k \in Int,
         -d < 2 * (n - k * d), 2 * (n - k * d) < d
  PROVE  T!Nearest(n, d) = {k}
<1> DEFINE q == n \div d
<1>1. q \in Int /\ q * d <= n /\ n < q * d + d
  OBVIOUS
<1>2. q = k \/ q = k - 1
  OBVIOUS
<1> QED
  BY <1>2 DEF T!Nearest

(* The tax in a total made by adding tax is that tax.                      *)
LEMMA AddedTaxIsIn ==
  ASSUME NEW a \in Int, NEW p \in Nat, p > 0, NEW tax \in T!TaxOn(a, p)
  PROVE  T!TaxIn(a + tax, p) = {tax}
<1>1. /\ tax \in Int /\ T!Whole = 10000
      /\ -10000 <= 2 * (a * p - tax * 10000) /\ 2 * (a * p - tax * 10000) <= 10000
  BY DEF T!TaxOn, T!Nearest, T!Whole
<1>2. (a + tax) * p - tax * (10000 + p) = a * p - tax * 10000
  BY <1>1
<1>3. (a + tax) * p \in Int /\ 10000 + p \in Nat \ {0}
  BY <1>1
<1>4. T!Nearest((a + tax) * p, 10000 + p) = {tax}
  BY <1>1, <1>2, <1>3, NearestIs
<1> QED
  BY <1>1, <1>4 DEF T!TaxIn

(* Adding the tax to a subtotal comes within a cent of the tax taken out.  *)
LEMMA TaxOutIsNear ==
  ASSUME NEW a \in Int, NEW p \in Nat, p <= T!Whole, NEW tax \in T!TaxIn(a, p)
  PROVE  T!TaxOn(a - tax, p) \subseteq tax - 1 .. tax + 1
<1> DEFINE e == a * p - tax * (10000 + p)
<1>1. /\ tax \in Int /\ p <= 10000 /\ e \in Int
      /\ -(10000 + p) <= 2 * e /\ 2 * e <= 10000 + p
  BY DEF T!TaxIn, T!Nearest, T!Whole
<1>2. (a - tax) * p = tax * 10000 + e
  BY <1>1
<1>3. ASSUME NEW k \in T!TaxOn(a - tax, p) PROVE k \in tax - 1 .. tax + 1
  <2> HIDE DEF e
  <2>1. /\ k \in Int
        /\ -10000 <= 2 * (tax * 10000 + e - k * 10000) /\ 2 * (tax * 10000 + e - k * 10000) <= 10000
    BY <1>1, <1>2 DEF T!TaxOn, T!Nearest, T!Whole
  <2> QED
    BY <1>1, <2>1
<1> QED
  BY <1>3

(* No step of TaxRates breaks its invariant.                               *)
LEMMA TaxInvStep == ASSUME TaxInv, [T!Next]_taxVars PROVE TaxInv'
<1> USE DEF TaxInv
<1>1. ASSUME NEW r \in TaxRates, NEW percentage \in Percentages, NEW inclusive \in BOOLEAN,
             NEW place \in Places, T!CreateTaxRate(r, percentage, inclusive, place)
      PROVE  TaxInv'
  <2>1. /\ tax_rate' = [tax_rate EXCEPT ![r] = [percentage |-> T!Stored(percentage),
                           inclusive |-> inclusive, place |-> place]]
        /\ calculation' = calculation
    BY <1>1 DEF T!CreateTaxRate
  <2>2. T!Stored(percentage) \in Nat
    BY SupportAssumption DEF T!Stored
  <2>3. T!TaxIsReversible'
    BY <2>1 DEF T!TaxIsReversible, T!TaxIn, T!TaxOn, T!Nearest
  <2> QED
    BY <2>1, <2>2, <2>3
<1>2. ASSUME NEW a \in TaxedAmounts, NEW country, NEW jurisdiction,
             T!CalculateTax(a, country, jurisdiction)
      PROVE  TaxInv'
  <2> DEFINE rows == {r \in TaxRates : T!Applies(r, country, jurisdiction)}
             rate == T!ApplicableTaxRate(country, jurisdiction)
  <2>1. rate.percentage \in Nat /\ rate.inclusive \in BOOLEAN
    <3>1. CASE rows = {}
      BY <3>1 DEF T!ApplicableTaxRate, T!NoTax
    <3>2. CASE rows # {}
      <4>1. Cardinality(TaxRates) \in Nat /\ rows \subseteq 0 .. Cardinality(TaxRates)
        BY SupportAssumption, FS_CardinalityType
      <4>2. PICK x \in rows : \A y \in rows : y <= x
        BY <3>2, <4>1, Greatest
      <4>3. \A y \in rows : x >= y
        BY <4>1, <4>2
      <4>4. T!Max(rows) \in rows
        BY <4>3 DEF T!Max
      <4>5. rate = tax_rate[T!Max(rows)]
        BY <3>2 DEF T!ApplicableTaxRate
      <4> QED
        BY <4>4, <4>5 DEF T!Applies
    <3> QED
      BY <3>1, <3>2
  <2> HIDE DEF rate
  <2>2. PICK tax \in IF rate.inclusive THEN T!TaxIn(a, rate.percentage)
                     ELSE T!TaxOn(a, rate.percentage) :
          calculation' = T!Calculation(a, tax, rate) /\ tax_rate' = tax_rate
    BY <1>2 DEF T!CalculateTax, rate
  <2>3. a \in Int /\ tax \in Int
    <3>1. a \in Int /\ a * rate.percentage \in Int /\ 10000 + rate.percentage \in Nat \ {0}
      BY <2>1, SupportAssumption
    <3> DEFINE n == a * rate.percentage
               d == 10000 + rate.percentage
    <3>2. n \div d \in Int /\ n \div 10000 \in Int
      BY <3>1
    <3>3. tax \in {n \div d, n \div d + 1, n \div 10000, n \div 10000 + 1}
      BY <2>1, <2>2 DEF T!TaxIn, T!TaxOn, T!Nearest, T!Whole
    <3> QED
      BY <3>1, <3>2, <3>3
  <2>4. /\ calculation'.percentage = rate.percentage /\ calculation'.inclusive = rate.inclusive
        /\ calculation'.tax_amount = tax
        /\ calculation'.subtotal = IF rate.inclusive THEN a - tax ELSE a
        /\ calculation'.total = IF rate.inclusive THEN a ELSE a + tax
    BY <2>2 DEF T!Calculation
  <2>5. T!TaxIsReversible'
    <3>1. calculation'.subtotal + calculation'.tax_amount = calculation'.total
      BY <2>1, <2>3, <2>4
    <3>2. CASE ~rate.inclusive
      <4>1. rate.percentage > 0 => T!TaxIn(a + tax, rate.percentage) = {tax}
        BY <2>1, <2>2, <2>3, <3>2, AddedTaxIsIn
      <4> QED
        BY <2>4, <3>1, <3>2, <4>1 DEF T!TaxIsReversible, T!TaxIn, T!TaxOn, T!Nearest
    <3>3. CASE rate.inclusive
      <4>1. rate.percentage <= T!Whole =>
              T!TaxOn(a - tax, rate.percentage) \subseteq tax - 1 .. tax + 1
        BY <2>1, <2>2, <2>3, <3>3, TaxOutIsNear
      <4> QED
        BY <2>4, <3>1, <3>3, <4>1 DEF T!TaxIsReversible, T!TaxIn, T!TaxOn, T!Nearest
    <3> QED
      BY <2>1, <3>2, <3>3
  <2> QED
    BY <2>2, <2>5
<1>3. CASE UNCHANGED taxVars
  BY <1>3 DEF taxVars, T!TaxIsReversible, T!TaxIn, T!TaxOn, T!Nearest
<1> QED
  BY <1>1, <1>2, <1>3 DEF T!Next

(* Adding a tax and taking it out agree, for every amount and every rate.  *)
THEOREM TaxesAreReversible == Spec => []TaxIsReversible
<1>1. T!Init => TaxInv
  BY DEF T!Init, TaxInv, T!TaxIsReversible
<1>2. TaxInv /\ [Next]_vars => TaxInv'
  BY PartsStep, TaxInvStep
<1>3. TaxInv => TaxIsReversible
  BY DEF TaxInv, TaxIsReversible
<1> QED
  BY <1>1, <1>2, <1>3, PartsInit, PTL DEF Spec

-----------------------------------------------------------------------------
(* ExchangeRates: no row is of a day to come, and whoever asks has seen    *)
(* what he should be told now.                                             *)
Requests ==
  [kind : {"idle"}]
  \cup [kind : {"set"}, pc : {"check", "insert", "update"}, date : R!Dates, rate : Rates]
  \cup [kind : {"get"}, pc : {"today", "latest"}, date : R!Dates,
        possible : SUBSET (Rates \cup {None})]
  \cup [kind : {"told"}, rate : Rates \cup {None}, possible : SUBSET (Rates \cup {None}),
        on_time : BOOLEAN]

Asked(h) ==
  /\ call[h] \in Requests
  /\ call[h].kind \in {"set", "get"} => call[h].date <= day
  /\ call[h].kind = "get" => R!QuoteFor(exchange_rates, call[h].date) \in call[h].possible
  /\ call[h].kind = "told" /\ call[h].on_time => call[h].rate \in call[h].possible

RowsTyped ==
  /\ day \in R!Dates
  /\ exchange_rates \in [R!Dates -> Rates \cup {None}]
  /\ \A d \in R!Dates : exchange_rates[d] # None => d <= day

RateInv ==
  /\ RowsTyped
  /\ call = [h \in Handlers |-> call[h]]
  /\ \A h \in Handlers : Asked(h)

(* Of rows up to a day, the latest one is the one quoted on that day.      *)
LEMMA LatestIsQuote ==
  ASSUME NEW rows \in [R!Dates -> Rates \cup {None}], NEW d \in R!Dates,
         \A x \in R!Dates : rows[x] # None => x <= d
  PROVE  R!Latest(rows) = R!QuoteFor(rows, d)
<1> DEFINE S == R!DatesIn(rows)
<1>0. /\ LastDay \in Nat /\ d \in Nat /\ S \subseteq 0 .. LastDay /\ 0 \notin S
      /\ \A x \in S : x <= d /\ rows[x] # None
  BY SupportAssumption DEF R!DatesIn, R!Dates
<1>1. CASE rows[d] # None
  <2>1. d \in S
    BY <1>1 DEF R!DatesIn
  <2>2. R!Max(S) = d
    BY <1>0, <2>1 DEF R!Max
  <2> QED
    BY <1>0, <1>1, <2>1, <2>2 DEF R!Latest, R!QuoteFor, R!RateOf, R!Dates
<1>2. CASE rows[d] = None /\ S = {}
  <2>1. R!Max(S \cup {0}) = 0
    BY <1>2 DEF R!Max
  <2> QED
    BY <1>2, <2>1 DEF R!Latest, R!QuoteFor
<1>3. CASE rows[d] = None /\ S # {}
  <2>1. PICK m \in S : \A y \in S : y <= m
    BY <1>0, <1>3, Greatest
  <2>2. R!Max(S) = m
    BY <1>0, <2>1 DEF R!Max
  <2>3. R!Max(S \cup {0}) = m
    BY <1>0, <2>1 DEF R!Max
  <2> QED
    BY <1>3, <2>2, <2>3 DEF R!Latest, R!QuoteFor
<1> QED
  BY <1>1, <1>2, <1>3

(* A step of one handler that writes no row.                               *)
LEMMA OneRequest ==
  ASSUME RateInv, NEW h \in Handlers, UNCHANGED <<exchange_rates, day>>,
         NEW c, call' = [call EXCEPT ![h] = c], Asked(h)'
  PROVE  RateInv'
<1>1. ASSUME NEW g \in Handlers, g # h PROVE Asked(g)'
  BY <1>1 DEF RateInv, Asked, R!QuoteFor, R!RateOf, R!DatesIn
<1>2. RowsTyped' /\ call' = [g \in Handlers |-> call'[g]]
  BY DEF RateInv, RowsTyped
<1> QED
  BY <1>1, <1>2 DEF RateInv

(* A quote is a rate or the absence of one.                                *)
LEMMA QuoteIsRate ==
  ASSUME NEW rows \in [R!Dates -> Rates \cup {None}], NEW d \in R!Dates
  PROVE  R!QuoteFor(rows, d) \in Rates \cup {None}
<1>1. CASE rows[d] # None
  BY <1>1 DEF R!QuoteFor
<1>2. CASE rows[d] = None
  <2> DEFINE S == R!DatesIn(rows) \cup {0}
  <2>1. LastDay \in Nat /\ S \subseteq 0 .. LastDay /\ S # {}
    BY SupportAssumption DEF R!DatesIn, R!Dates
  <2>2. PICK x \in S : \A y \in S : y <= x
    BY <2>1, Greatest
  <2>3. R!Max(S) \in S
    BY <2>1, <2>2 DEF R!Max
  <2> QED
    BY <1>2, <2>3 DEF R!QuoteFor, R!RateOf, R!DatesIn
<1> QED
  BY <1>1, <1>2

(* No step of ExchangeRates breaks its invariant.                          *)
LEMMA RateInvStep == ASSUME RateInv, [R!Next]_rateVars PROVE RateInv'
<1>1. ASSUME NEW h \in Handlers, NEW r \in Rates, R!BeginSet(h, r) PROVE RateInv'
  <2>1. /\ call' = [call EXCEPT ![h] = [kind |-> "set", pc |-> "check", date |-> day, rate |-> r]]
        /\ UNCHANGED <<exchange_rates, day>>
    BY <1>1 DEF R!BeginSet
  <2>2. Asked(h)'
    BY <2>1 DEF RateInv, RowsTyped, Asked, Requests, R!Dates
  <2> QED
    BY <2>1, <2>2, OneRequest
<1>2. ASSUME NEW h \in Handlers, R!CheckRate(h) PROVE RateInv'
  <2>1. /\ call[h].kind = "set" /\ UNCHANGED <<exchange_rates, day>>
        /\ \E pc \in {"insert", "update"} : call' = [call EXCEPT ![h] = [call[h] EXCEPT !.pc = pc]]
    BY <1>2 DEF R!CheckRate, R!IsAt
  <2>2. Asked(h)'
    BY <2>1 DEF RateInv, Asked, Requests
  <2> QED
    BY <2>1, <2>2, OneRequest
<1>3. ASSUME NEW h \in Handlers, R!WriteRate(h) PROVE RateInv'
  <2> DEFINE rows == [exchange_rates EXCEPT ![call[h].date] = call[h].rate]
  <2>1. /\ call[h].kind = "set" /\ exchange_rates' = rows /\ day' = day
        /\ call' = [R!Notice(rows) EXCEPT ![h] = R!Idle]
    BY <1>3 DEF R!WriteRate, R!IsAt
  <2>2. call[h].date \in R!Dates /\ call[h].date <= day /\ call[h].rate \in Rates
    BY <2>1 DEF RateInv, Asked, Requests
  <2>3. RowsTyped'
    BY <2>1, <2>2 DEF RateInv, RowsTyped
  <2>4. Asked(h)' /\ call' = [g \in Handlers |-> call'[g]]
    BY <2>1 DEF R!Notice, R!Idle, Asked, Requests
  <2>5. ASSUME NEW g \in Handlers, g # h PROVE Asked(g)'
    <3>1. CASE call[g].kind = "get"
      <4> DEFINE q == R!QuoteFor(rows, call[g].date)
      <4>1. call'[g] = [call[g] EXCEPT !.possible = @ \cup {q}]
        BY <2>1, <2>5, <3>1 DEF R!Notice
      <4>2. call[g].date \in R!Dates /\ call[g].date <= day
        BY <3>1 DEF RateInv, Asked, Requests
      <4>3. q \in Rates \cup {None}
        BY <2>1, <2>3, <4>2, QuoteIsRate DEF RowsTyped
      <4>4. call[g] \in [kind : {"get"}, pc : {"today", "latest"}, date : R!Dates,
                        possible : SUBSET (Rates \cup {None})]
        BY <3>1 DEF RateInv, Asked, Requests
      <4> HIDE DEF q, rows
      <4>5. /\ call'[g] \in [kind : {"get"}, pc : {"today", "latest"}, date : R!Dates,
                             possible : SUBSET (Rates \cup {None})]
            /\ call'[g].kind = "get" /\ call'[g].date = call[g].date
            /\ q \in call'[g].possible
        BY <4>1, <4>3, <4>4
      <4>6. R!QuoteFor(exchange_rates, call[g].date)' = q
        BY <2>1, <4>5 DEF q, R!QuoteFor, R!RateOf, R!DatesIn
      <4> QED
        BY <2>1, <4>2, <4>5, <4>6 DEF Asked, Requests
    <3>2. CASE call[g].kind # "get"
      <4>1. call'[g] = call[g]
        BY <2>1, <2>5, <3>2 DEF R!Notice
      <4> QED
        BY <2>1, <3>2, <4>1 DEF RateInv, Asked
    <3> QED
      BY <3>1, <3>2
  <2> QED
    BY <2>3, <2>4, <2>5 DEF RateInv
<1>4. ASSUME NEW h \in Handlers, R!Abandon(h) PROVE RateInv'
  <2>1. call' = [call EXCEPT ![h] = R!Idle] /\ UNCHANGED <<exchange_rates, day>>
    BY <1>4 DEF R!Abandon
  <2>2. Asked(h)'
    BY <2>1 DEF RateInv, Asked, Requests, R!Idle
  <2> QED
    BY <2>1, <2>2, OneRequest
<1>5. ASSUME NEW h \in Handlers, R!BeginGet(h) PROVE RateInv'
  <2> DEFINE q == R!QuoteFor(exchange_rates, day)
  <2>1. /\ call' = [call EXCEPT ![h] =
              [kind |-> "get", pc |-> "today", date |-> day, possible |-> {q}]]
        /\ UNCHANGED <<exchange_rates, day>>
    BY <1>5 DEF R!BeginGet
  <2>2. q \in Rates \cup {None} /\ day \in R!Dates /\ day <= day
    BY QuoteIsRate DEF RateInv, RowsTyped, R!Dates
  <2>3. call'[h] = [kind |-> "get", pc |-> "today", date |-> day, possible |-> {q}]
    BY <2>1 DEF RateInv
  <2>4. R!QuoteFor(exchange_rates, call[h].date)' = q
    BY <2>1, <2>3 DEF R!QuoteFor, R!RateOf, R!DatesIn
  <2>5. Asked(h)'
    BY <2>1, <2>2, <2>3, <2>4 DEF Asked, Requests
  <2> QED
    BY <2>1, <2>5, OneRequest
<1>6. ASSUME NEW h \in Handlers, R!SelectToday(h) PROVE RateInv'
  <2> DEFINE r == exchange_rates[call[h].date]
  <2>1. /\ call[h].kind = "get" /\ UNCHANGED <<exchange_rates, day>>
        /\ call' = [call EXCEPT ![h] =
              IF r # None THEN R!Told(h, r) ELSE [call[h] EXCEPT !.pc = "latest"]]
    BY <1>6 DEF R!SelectToday, R!IsAt
  <2>2. /\ call[h].date \in R!Dates /\ call[h].date <= day
        /\ call[h].possible \in SUBSET (Rates \cup {None})
        /\ R!QuoteFor(exchange_rates, call[h].date) \in call[h].possible
    BY <2>1 DEF RateInv, Asked, Requests
  <2>3. CASE r # None
    <3>1. r \in call[h].possible
      BY <2>2, <2>3 DEF R!QuoteFor
    <3>2. call'[h] = [kind |-> "told", rate |-> r, possible |-> call[h].possible,
                      on_time |-> call[h].date = day]
      BY <2>1, <2>3 DEF RateInv, R!Told
    <3>3. Asked(h)'
      BY <2>2, <3>1, <3>2 DEF Asked, Requests
    <3> QED
      BY <2>1, <3>3, OneRequest
  <2>4. CASE r = None
    <3>1. /\ call'[h] = [call[h] EXCEPT !.pc = "latest"]
          /\ call[h] \in [kind : {"get"}, pc : {"today", "latest"}, date : R!Dates,
                          possible : SUBSET (Rates \cup {None})]
      BY <2>1, <2>4 DEF RateInv, Asked, Requests
    <3>2. /\ call'[h] \in [kind : {"get"}, pc : {"today", "latest"}, date : R!Dates,
                           possible : SUBSET (Rates \cup {None})]
          /\ call'[h].kind = "get" /\ call'[h].date = call[h].date
          /\ call'[h].possible = call[h].possible
      BY <3>1
    <3>3. R!QuoteFor(exchange_rates, call[h].date)' = R!QuoteFor(exchange_rates, call[h].date)
      BY <2>1, <3>2 DEF R!QuoteFor, R!RateOf, R!DatesIn
    <3>4. Asked(h)'
      BY <2>1, <2>2, <3>2, <3>3 DEF Asked, Requests
    <3> QED
      BY <2>1, <3>4, OneRequest
  <2> QED
    BY <2>3, <2>4
<1>7. ASSUME NEW h \in Handlers, R!SelectLatest(h) PROVE RateInv'
  <2> DEFINE r == R!Latest(exchange_rates)
  <2>1. /\ call[h].kind = "get" /\ UNCHANGED <<exchange_rates, day>>
        /\ call' = [call EXCEPT ![h] = R!Told(h, r)]
    BY <1>7 DEF R!SelectLatest, R!IsAt
  <2>2. /\ call[h].date \in R!Dates /\ call[h].possible \in SUBSET (Rates \cup {None})
        /\ R!QuoteFor(exchange_rates, call[h].date) \in call[h].possible
    BY <2>1 DEF RateInv, Asked, Requests
  <2>3. r = R!QuoteFor(exchange_rates, day)
    BY LatestIsQuote DEF RateInv, RowsTyped
  <2>4. r \in Rates \cup {None}
    BY <2>3, QuoteIsRate DEF RateInv, RowsTyped
  <2>5. call[h].date = day => r \in call[h].possible
    BY <2>2, <2>3
  <2> DEFINE on_time == call[h].date = day
             p == call[h].possible
  <2>6. call'[h] = [kind |-> "told", rate |-> r, possible |-> p, on_time |-> on_time]
    BY <2>1 DEF RateInv, R!Told
  <2>7. on_time \in BOOLEAN /\ p \in SUBSET (Rates \cup {None}) /\ (on_time => r \in p)
    BY <2>2, <2>5
  <2> HIDE DEF r, on_time, p
  <2>8. /\ call'[h] \in [kind : {"told"}, rate : Rates \cup {None},
                         possible : SUBSET (Rates \cup {None}), on_time : BOOLEAN]
        /\ call'[h].kind = "told" /\ call'[h].rate = r /\ call'[h].possible = p
        /\ call'[h].on_time = on_time
    BY <2>4, <2>6, <2>7
  <2>9. Asked(h)'
    BY <2>7, <2>8 DEF Asked, Requests
  <2> QED
    BY <2>1, <2>9, OneRequest
<1>8. CASE R!Midnight
  <2>1. /\ day \in Nat /\ day < LastDay /\ day' = day + 1 /\ LastDay \in Nat
        /\ UNCHANGED <<exchange_rates, call>>
    BY <1>8, SupportAssumption DEF R!Midnight, RateInv, RowsTyped, R!Dates
  <2>2. RowsTyped'
    BY <2>1 DEF RateInv, RowsTyped, R!Dates
  <2>3. ASSUME NEW h \in Handlers PROVE Asked(h)'
    <3>1. call[h].kind \in {"set", "get"} => call[h].date \in R!Dates
      BY DEF RateInv, Asked, Requests
    <3> QED
      BY <2>1, <3>1 DEF RateInv, Asked, R!QuoteFor, R!RateOf, R!DatesIn, R!Dates
  <2> QED
    BY <2>1, <2>2, <2>3 DEF RateInv
<1>9. CASE UNCHANGED rateVars
  BY <1>9 DEF rateVars, RateInv, Asked, RowsTyped, R!QuoteFor, R!RateOf, R!DatesIn
<1> QED
  BY <1>1, <1>2, <1>3, <1>4, <1>5, <1>6, <1>7, <1>8, <1>9 DEF R!Next

(* A quote was right at some moment of its request, for any number of days *)
(* and of requests that set rates meanwhile.                               *)
THEOREM QuotesStayCurrent == Spec => []QuotesAreCurrent
<1>1. R!Init => RateInv
  BY SupportAssumption
     DEF R!Init, RateInv, RowsTyped, Asked, Requests, R!Idle, R!Dates
<1>2. RateInv /\ [Next]_vars => RateInv'
  BY PartsStep, RateInvStep
<1>3. RateInv => QuotesAreCurrent
  BY DEF RateInv, Asked, QuotesAreCurrent, R!QuotesAreCurrent
<1> QED
  BY <1>1, <1>2, <1>3, PartsInit, PTL DEF Spec
=============================================================================
