--------------------------- MODULE CommerceProofs ---------------------------
(***************************************************************************)
(* Proofs about commerce.  The checkout, for every set of orders and users,*)
(* every mix of kinds and quantities and every capacity: the confirmed     *)
(* count, the grants and their codes, the places that are promised and     *)
(* paid for, and orders that are given up.  The refunds of an order, for   *)
(* every set of refunds, amounts and total: the order tells its refund     *)
(* rows, and a change that Stripe was told is recorded stays recorded while*)
(* its events come in order.                                               *)
(***************************************************************************)
EXTENDS Checkout, OrderRefunds, Folds, FiniteSetTheorems, WellFoundedInduction,
        TLAPS

-----------------------------------------------------------------------------
(***************************************************************************)
(* Sums over finite sets.  SumFunctionOnSet is a fold, so what it does is  *)
(* shown by minimal counterexample: a set of parts of a finite set has a   *)
(* smallest one, and taking an element out of that one gives a contradiction.*)
(***************************************************************************)
\* The element the sum of s takes first, and what it adds to the sum of the rest.
First(s) == CHOOSE x \in s : TRUE
Partial(f, sum, s) == IF s = {} THEN 0 ELSE f[First(s)] + sum[s \ {First(s)}]

\* sum[s] is the sum over s, for every s in SUBSET S.
Sums(f, S, sum) == sum = [s \in SUBSET S |-> Partial(f, sum, s)]
SumsOf(f, S) == CHOOSE sum : Sums(f, S, sum)

\* A set of subsets of a finite set has a minimal element.
LEMMA MinimalSubset ==
    ASSUME NEW S, IsFiniteSet(S), NEW B, B \subseteq SUBSET S, B # {}
    PROVE  \E T \in B : \A U \in B : U \subseteq T => U = T
  <1>1. IsWellFoundedOn(StrictSubsetOrdering(S), SUBSET S)
    BY FS_StrictSubsetOrderingWellFounded, FS_FiniteSubsetsOfFinite
  <1>2. PICK T \in B : \A U \in B : <<U, T>> \notin StrictSubsetOrdering(S)
    BY <1>1, WFMin
  <1>3. \A U \in B : U \subseteq T => U = T
    BY <1>2 DEF StrictSubsetOrdering
  <1> QED
    BY <1>3

\* The sum over a set does not depend on the set it is a part of.
LEMMA SumsAgree ==
    ASSUME NEW f, NEW S, NEW T, NEW g, NEW h, IsFiniteSet(S),
           Sums(f, S, g), Sums(f, T, h)
    PROVE  \A s \in SUBSET (S \cap T) : g[s] = h[s]
  <1> DEFINE B == {s \in SUBSET (S \cap T) : g[s] # h[s]}
  <1> SUFFICES ASSUME B # {} PROVE FALSE
    OBVIOUS
  <1>1. PICK s \in B : \A u \in B : u \subseteq s => u = s
    <2>1. IsFiniteSet(S \cap T) /\ B \subseteq SUBSET (S \cap T)
      BY FS_Intersection
    <2> HIDE DEF B
    <2> QED
      BY <2>1, MinimalSubset
  <1>2. s # {} => First(s) \in s
    BY DEF First
  <1>3. g[s] = Partial(f, g, s) /\ h[s] = Partial(f, h, s)
    BY DEF Sums
  <1>4. CASE s = {}
    BY <1>3, <1>4 DEF Partial
  <1>5. CASE s # {}
    <2>1. g[s \ {First(s)}] = h[s \ {First(s)}]
      BY <1>1, <1>2, <1>5
    <2> QED
      BY <1>3, <1>5, <2>1 DEF Partial
  <1> QED
    BY <1>4, <1>5

\* The sums over the parts of a finite set exist.
LEMMA SumsExist ==
    ASSUME NEW f, NEW S, IsFiniteSet(S)
    PROVE  Sums(f, S, SumsOf(f, S))
  <1> DEFINE B == {s \in SUBSET S : ~Sums(f, s, SumsOf(f, s))}
  <1> SUFFICES ASSUME B # {} PROVE FALSE
    OBVIOUS
  <1>1. PICK s \in B : \A u \in B : u \subseteq s => u = s
    <2>1. B \subseteq SUBSET S
      OBVIOUS
    <2> HIDE DEF B
    <2> QED
      BY <2>1, MinimalSubset
  <1>2. \A u \in SUBSET s : u # s => Sums(f, u, SumsOf(f, u))
    BY <1>1
  <1> DEFINE whole == IF s = {} THEN 0
                      ELSE f[First(s)] + SumsOf(f, s \ {First(s)})[s \ {First(s)}]
             sum == [u \in SUBSET s |-> IF u = s THEN whole ELSE SumsOf(f, u)[u]]
  <1>3. ASSUME NEW u \in SUBSET s PROVE sum[u] = Partial(f, sum, u)
    <2> DEFINE rest == u \ {First(u)}
    <2>1. u # {} => First(u) \in u
      BY DEF First
    <2>2. u # {} => sum[rest] = SumsOf(f, rest)[rest]
      BY <2>1
    <2>3. CASE u = s
      BY <2>2, <2>3 DEF Partial
    <2>4. CASE u # s
      <3>1. /\ sum[u] = SumsOf(f, u)[u] /\ Sums(f, u, SumsOf(f, u))
        BY <1>2, <2>4
      <3>2. sum[u] = Partial(f, SumsOf(f, u), u)
        BY <3>1 DEF Sums
      <3>3. CASE u = {}
        BY <3>2, <3>3 DEF Partial
      <3>4. CASE u # {}
        <4>1. Sums(f, rest, SumsOf(f, rest))
          BY <1>2, <2>1, <3>4
        <4>2. IsFiniteSet(u)
          BY FS_Subset
        <4>3. rest \in SUBSET (u \cap rest)
          OBVIOUS
        <4>4. SumsOf(f, u)[rest] = SumsOf(f, rest)[rest]
          BY <3>1, <4>1, <4>2, <4>3, SumsAgree
        <4> QED
          BY <2>2, <3>2, <3>4, <4>4 DEF Partial
      <3> QED
        BY <3>3, <3>4
    <2> QED
      BY <2>3, <2>4
  <1>4. Sums(f, s, sum)
    BY <1>3 DEF Sums
  <1>5. Sums(f, s, SumsOf(f, s))
    BY <1>4 DEF SumsOf
  <1> QED
    BY <1>1, <1>5

\* SumFunctionOnSet is the last of them.
LEMMA SumIsPartial ==
    ASSUME NEW f, NEW S
    PROVE  SumFunctionOnSet(f, S) = SumsOf(f, S)[S]
  BY DEF SumFunctionOnSet, FoldFunctionOnSet, MapThenFoldSet, SumsOf, Sums, Partial,
         First

\* A sum over a finite set is one element and the sum of the others.
LEMMA SumOfPart ==
    ASSUME NEW f, NEW S, IsFiniteSet(S)
    PROVE  /\ SumFunctionOnSet(f, {}) = 0
           /\ S # {} => SumFunctionOnSet(f, S) =
                 f[First(S)] + SumFunctionOnSet(f, S \ {First(S)})
  <1>1. ASSUME NEW T, IsFiniteSet(T)
        PROVE  SumFunctionOnSet(f, T) = Partial(f, SumsOf(f, T), T)
    <2>1. ASSUME NEW sum, Sums(f, T, sum) PROVE sum[T] = Partial(f, sum, T)
      BY <2>1 DEF Sums
    <2> QED
      BY <1>1, <2>1, SumsExist, SumIsPartial
  <1>2. SumFunctionOnSet(f, {}) = 0
    BY <1>1, FS_EmptySet DEF Partial
  <1>3. ASSUME S # {}
        PROVE  SumFunctionOnSet(f, S) =
                  f[First(S)] + SumFunctionOnSet(f, S \ {First(S)})
    <2> DEFINE rest == S \ {First(S)}
    <2>1. IsFiniteSet(rest)
      BY FS_Subset
    <2>2. Sums(f, S, SumsOf(f, S)) /\ Sums(f, rest, SumsOf(f, rest))
      BY <2>1, SumsExist
    <2>3. SumsOf(f, S)[rest] = SumsOf(f, rest)[rest]
      <3>1. rest \in SUBSET (S \cap rest)
        OBVIOUS
      <3> QED
        BY <2>2, <3>1, SumsAgree
    <2>4. SumFunctionOnSet(f, S) = f[First(S)] + SumsOf(f, S)[rest]
      BY <1>1, <1>3 DEF Partial
    <2> QED
      BY <2>3, <2>4, SumIsPartial
  <1> QED
    BY <1>2, <1>3

\* A sum of integers is an integer, and of natural numbers a natural number.
LEMMA SumType ==
    ASSUME NEW f, NEW S, IsFiniteSet(S)
    PROVE  /\ (\A x \in S : f[x] \in Int) => SumFunctionOnSet(f, S) \in Int
           /\ (\A x \in S : f[x] \in Nat) => SumFunctionOnSet(f, S) \in Nat
  <1> SUFFICES ASSUME NEW N \in {Int, Nat}, \A x \in S : f[x] \in N
               PROVE  SumFunctionOnSet(f, S) \in N
    OBVIOUS
  <1> DEFINE B == {T \in SUBSET S : SumFunctionOnSet(f, T) \notin N}
  <1> SUFFICES ASSUME B # {} PROVE FALSE
    OBVIOUS
  <1>1. PICK T \in B : \A U \in B : U \subseteq T => U = T
    <2>1. B \subseteq SUBSET S
      OBVIOUS
    <2> HIDE DEF B
    <2> QED
      BY <2>1, MinimalSubset
  <1>2. IsFiniteSet(T)
    BY FS_Subset
  <1>3. T # {} => First(T) \in T
    BY DEF First
  <1>4. CASE T = {}
    BY <1>2, <1>4, SumOfPart
  <1>5. CASE T # {}
    <2>1. SumFunctionOnSet(f, T \ {First(T)}) \in N /\ f[First(T)] \in N
      BY <1>1, <1>3, <1>5
    <2>2. SumFunctionOnSet(f, T) = f[First(T)] + SumFunctionOnSet(f, T \ {First(T)})
      BY <1>2, <1>5, SumOfPart
    <2>3. SumFunctionOnSet(f, T) \in N
      BY <2>1, <2>2
    <2> QED
      BY <2>3
  <1> QED
    BY <1>4, <1>5

\* The sum only depends on the values that are added.
LEMMA SumSame ==
    ASSUME NEW f, NEW g, NEW S, IsFiniteSet(S), \A x \in S : f[x] = g[x]
    PROVE  SumFunctionOnSet(f, S) = SumFunctionOnSet(g, S)
  <1> DEFINE B == {T \in SUBSET S : SumFunctionOnSet(f, T) # SumFunctionOnSet(g, T)}
  <1> SUFFICES ASSUME B # {} PROVE FALSE
    OBVIOUS
  <1>1. PICK T \in B : \A U \in B : U \subseteq T => U = T
    <2>1. B \subseteq SUBSET S
      OBVIOUS
    <2> HIDE DEF B
    <2> QED
      BY <2>1, MinimalSubset
  <1>2. IsFiniteSet(T)
    BY FS_Subset
  <1>3. T # {} => First(T) \in T
    BY DEF First
  <1>4. CASE T = {}
    BY <1>2, <1>4, SumOfPart
  <1>5. CASE T # {}
    <2>1. /\ SumFunctionOnSet(f, T \ {First(T)}) = SumFunctionOnSet(g, T \ {First(T)})
          /\ f[First(T)] = g[First(T)]
      BY <1>1, <1>3, <1>5
    <2> QED
      BY <1>2, <1>5, <2>1, SumOfPart
  <1> QED
    BY <1>4, <1>5

\* Whatever element is taken out, the sum is that element and the others.
LEMMA SumTakeOut ==
    ASSUME NEW f, NEW S, IsFiniteSet(S), \A x \in S : f[x] \in Int, NEW y \in S
    PROVE  SumFunctionOnSet(f, S) = f[y] + SumFunctionOnSet(f, S \ {y})
  <1> DEFINE Taken(T, z) ==
                SumFunctionOnSet(f, T) = f[z] + SumFunctionOnSet(f, T \ {z})
             B == {T \in SUBSET S : \E z \in T : ~Taken(T, z)}
  <1> SUFFICES ASSUME B # {} PROVE FALSE
    OBVIOUS
  <1>1. PICK T \in B : \A U \in B : U \subseteq T => U = T
    <2>1. B \subseteq SUBSET S
      OBVIOUS
    <2> HIDE DEF B
    <2> QED
      BY <2>1, MinimalSubset
  <1>2. PICK z \in T : ~Taken(T, z)
    OBVIOUS
  <1> DEFINE x == First(T)
  <1>3. IsFiniteSet(T) /\ x \in T /\ Taken(T, x)
    <2>1. IsFiniteSet(T)
      BY FS_Subset
    <2> QED
      BY <1>2, <2>1, SumOfPart DEF First
  <1>4. x # z
    BY <1>2, <1>3
  <1>5. Taken(T \ {x}, z) /\ Taken(T \ {z}, x)
    <2>1. T \ {x} \notin B /\ T \ {z} \notin B
      BY <1>1, <1>2, <1>3
    <2>2. z \in T \ {x} /\ x \in T \ {z}
      BY <1>2, <1>3, <1>4
    <2> QED
      BY <2>1, <2>2
  <1>6. (T \ {x}) \ {z} = (T \ {z}) \ {x}
    OBVIOUS
  <1>7. /\ SumFunctionOnSet(f, (T \ {z}) \ {x}) \in Int
        /\ f[x] \in Int /\ f[z] \in Int
    <2>1. IsFiniteSet((T \ {z}) \ {x})
      BY FS_Subset
    <2> QED
      BY <1>2, <1>3, <2>1, SumType
  <1>8. SumFunctionOnSet(f, T) = f[z] + SumFunctionOnSet(f, T \ {z})
    <2>1. SumFunctionOnSet(f, T) = f[x] + SumFunctionOnSet(f, T \ {x})
      BY <1>3
    <2>2. SumFunctionOnSet(f, T \ {x}) = f[z] + SumFunctionOnSet(f, (T \ {z}) \ {x})
      BY <1>5, <1>6
    <2>3. SumFunctionOnSet(f, T \ {z}) = f[x] + SumFunctionOnSet(f, (T \ {z}) \ {x})
      BY <1>5
    <2> QED
      BY <1>7, <2>1, <2>2, <2>3
  <1> QED
    BY <1>2, <1>8

\* One element more.
LEMMA SumOneMore ==
    ASSUME NEW f, NEW S, NEW y, IsFiniteSet(S), y \notin S,
           \A x \in S \cup {y} : f[x] \in Int
    PROVE  SumFunctionOnSet(f, S \cup {y}) = f[y] + SumFunctionOnSet(f, S)
  <1>1. IsFiniteSet(S \cup {y})
    BY FS_AddElement
  <1>2. (S \cup {y}) \ {y} = S
    OBVIOUS
  <1> QED
    BY <1>1, <1>2, SumTakeOut

\* One value changed.
LEMMA SumOneChanged ==
    ASSUME NEW f, NEW g, NEW S, NEW y \in S, IsFiniteSet(S),
           \A x \in S : f[x] \in Int /\ g[x] \in Int,
           \A x \in S \ {y} : g[x] = f[x]
    PROVE  SumFunctionOnSet(g, S) = SumFunctionOnSet(f, S) - f[y] + g[y]
  <1>1. IsFiniteSet(S \ {y})
    BY FS_Subset
  <1>2. SumFunctionOnSet(g, S \ {y}) = SumFunctionOnSet(f, S \ {y})
    BY <1>1, SumSame
  <1>3. /\ SumFunctionOnSet(f, S) = f[y] + SumFunctionOnSet(f, S \ {y})
        /\ SumFunctionOnSet(g, S) = g[y] + SumFunctionOnSet(g, S \ {y})
    BY SumTakeOut
  <1>4. SumFunctionOnSet(f, S \ {y}) \in Int
    BY <1>1, SumType
  <1> QED
    BY <1>2, <1>3, <1>4

\* Nothing but zeros adds up to nothing.
LEMMA SumOfZeros ==
    ASSUME NEW f, NEW S, IsFiniteSet(S), \A x \in S : f[x] = 0
    PROVE  SumFunctionOnSet(f, S) = 0
  <1> DEFINE B == {T \in SUBSET S : SumFunctionOnSet(f, T) # 0}
  <1> SUFFICES ASSUME B # {} PROVE FALSE
    OBVIOUS
  <1>1. PICK T \in B : \A U \in B : U \subseteq T => U = T
    <2>1. B \subseteq SUBSET S
      OBVIOUS
    <2> HIDE DEF B
    <2> QED
      BY <2>1, MinimalSubset
  <1>2. IsFiniteSet(T)
    BY FS_Subset
  <1>3. T # {} => First(T) \in T
    BY DEF First
  <1>4. CASE T = {}
    BY <1>2, <1>4, SumOfPart
  <1>5. CASE T # {}
    <2>1. SumFunctionOnSet(f, T \ {First(T)}) = 0 /\ f[First(T)] = 0
      BY <1>1, <1>3, <1>5
    <2>2. SumFunctionOnSet(f, T) = f[First(T)] + SumFunctionOnSet(f, T \ {First(T)})
      BY <1>2, <1>5, SumOfPart
    <2>3. SumFunctionOnSet(f, T) = 0
      BY <2>1, <2>2
    <2> QED
      BY <2>3
  <1> QED
    BY <1>4, <1>5

-----------------------------------------------------------------------------
\* The types the proofs need.
Types ==
    /\ phase \in [Orders -> {"start", "eligible", "counting", "inserted",
                             "created", "redirected", "failing", "closed"}]
    /\ status \in [Orders -> {"none", "pending", "paid", "failed"}]
    /\ session \in [Orders -> {"none", "open", "unpaid", "paid", "declined",
                               "expired"}]
    /\ registration \in [Users -> {"none", "selected", "withdrawn"}]
    /\ confirmed \in Nat
    /\ quantity \in [Orders -> Nat] /\ redeemed \in [Orders -> Nat]
    /\ codes \in [Orders -> SUBSET Nat] /\ used \in [Orders -> SUBSET Nat]

\* How far a session can be while its request is under way, and once the order
\* failed.
SessionInv ==
    \A o \in Orders :
        /\ phase[o] \in {"start", "eligible", "counting", "inserted"} =>
              session[o] = "none"
        /\ phase[o] # "redirected" => session[o] \in {"none", "open", "expired"}
        /\ phase[o] \in {"start", "eligible", "counting"} => status[o] = "none"
        /\ status[o] = "failed" =>
              \/ phase[o] = "closed"
              \/ session[o] \in {"declined", "expired"}

\* A bulk order without its payment has no grant, and an extension was started
\* for a grant that exists.
GrantInv ==
    \A o \in Orders :
        /\ Kind[o] = "bulk_purchase" /\ status[o] # "paid" =>
              /\ quantity[o] = 0 /\ redeemed[o] = 0
              /\ codes[o] = {} /\ used[o] = {}
        /\ Kind[o] = "capacity_extension" /\ phase[o] # "start" =>
              quantity[Base[o]] > 0

\* The inductive invariant.
Inv == Types /\ SessionInv /\ GrantInv /\ PlacesConfirmed /\ CodesMatchPlaces

-----------------------------------------------------------------------------
\* The set of selected users is finite.
LEMMA SelectedFinite == IsFiniteSet(Selected)
  BY CheckoutAssumption, FS_Subset DEF Selected

\* Initially there is nothing, and the invariant holds.
LEMMA InitInv == Init => Inv
  <1> SUFFICES ASSUME Init PROVE Inv
    OBVIOUS
  <1>1. Types /\ SessionInv /\ GrantInv
    BY CheckoutAssumption DEF Init, Types, SessionInv, GrantInv
  <1>2. PlacesConfirmed
    <2>1. Selected = {}
      BY DEF Init, Selected
    <2> QED
      BY <2>1, FS_EmptySet, CheckoutAssumption DEF Init, PlacesConfirmed
  <1>3. CodesMatchPlaces
    BY FS_EmptySet, CheckoutAssumption DEF Init, CodesMatchPlaces
  <1> QED
    BY <1>1, <1>2, <1>3 DEF Inv

\* The steps of the request, of Stripe and of the failure webhook.
RequestStep(o) ==
    CreateCheckout(o) \/ Stripe(o) \/ Lapse(o) \/ MarkCheckoutSessionFailed(o)

\* They touch neither the places nor the grants.
LEMMA RequestFrame ==
    ASSUME NEW o \in Orders, RequestStep(o)
    PROVE  UNCHANGED placeVars /\ UNCHANGED grantVars
  BY DEF RequestStep, CreateCheckout, StartCheckout, InsertOrder,
         LockAndCountPending, ReservePlaces, CreateSession, CreateSessionFails,
         Redirect, RedirectFails, MarkCreationFailed, Stripe, Pay, PayLater,
         PaymentSucceeds, PaymentFails, Expire, SessionMoves, Lapse,
         MarkCheckoutSessionFailed

\* A step is one of these.
LEMMA NextCases ==
    ASSUME Next
    PROVE  \/ \E o \in Orders : RequestStep(o)
           \/ \E o \in Orders : FulfillEventRegistration(o)
           \/ \E o \in Orders : FulfillIndividualPurchase(o)
           \/ \E o \in Orders : FulfillBulkPurchase(o)
           \/ \E o \in Orders : FulfillExtension(o)
           \/ \E o \in Orders : RevokeGrant(o)
           \/ \E o \in Orders, u \in Users : \E k \in codes[o] :
                 RedeemAccessCode(u, o, k)
           \/ \E u \in Users : WithdrawRegistration(u)
           \/ EventStarts
  BY DEF Next, RequestStep, FulfillCheckoutSession

-----------------------------------------------------------------------------
\* A request step keeps the invariant.
LEMMA RequestInv ==
    ASSUME Inv, NEW o \in Orders, RequestStep(o)
    PROVE  Inv'
  <1>1. UNCHANGED placeVars /\ UNCHANGED grantVars
    BY RequestFrame
  <1>2. PlacesConfirmed' /\ CodesMatchPlaces'
    BY <1>1 DEF placeVars, grantVars, PlacesConfirmed, CodesMatchPlaces, Selected,
                Inv
  <1>3. CASE StartCheckout(o)
    BY <1>1, <1>2, <1>3, CheckoutAssumption DEF StartCheckout, Moves, Eligible,
       Inv, Types, SessionInv, GrantInv, placeVars, grantVars
  <1>4. CASE InsertOrder(o)
    BY <1>1, <1>2, <1>4, CheckoutAssumption DEF InsertOrder, Moves,
       Inv, Types, SessionInv, GrantInv, placeVars, grantVars
  <1>5. CASE LockAndCountPending(o)
    <2>1. /\ phase[o] = "eligible" /\ UNCHANGED <<status, session>>
          /\ \/ phase' = [phase EXCEPT ![o] = "closed"]
             \/ phase' = [phase EXCEPT ![o] = "counting"]
      BY <1>5 DEF LockAndCountPending, Moves
    <2>2. Types'
      BY <1>1, <2>1 DEF Inv, Types, placeVars, grantVars
    <2>3. SessionInv'
      BY <2>1 DEF Inv, Types, SessionInv
    <2>4. GrantInv'
      <3>1. \A p \in Orders : phase[p] # "start" <=> phase'[p] # "start"
        BY <2>1 DEF Inv, Types
      <3> QED
        BY <1>1, <2>1, <3>1 DEF Inv, GrantInv, grantVars
    <2> QED
      BY <1>2, <2>2, <2>3, <2>4 DEF Inv
  <1>6. CASE ReservePlaces(o)
    <2>1. /\ phase[o] = "counting" /\ UNCHANGED session
          /\ \/ /\ phase' = [phase EXCEPT ![o] = "closed"]
                /\ UNCHANGED status
             \/ /\ phase' = [phase EXCEPT ![o] = "inserted"]
                /\ status' = [status EXCEPT ![o] = "pending"]
      BY <1>6 DEF ReservePlaces, Moves
    <2>2. Types'
      BY <1>1, <2>1 DEF Inv, Types, placeVars, grantVars
    <2>3. SessionInv'
      BY <2>1 DEF Inv, Types, SessionInv
    <2>4. GrantInv'
      <3>1. /\ \A p \in Orders : phase[p] # "start" <=> phase'[p] # "start"
            /\ \A p \in Orders : status'[p] # "paid" => status[p] # "paid"
        BY <2>1 DEF Inv, Types, SessionInv
      <3> QED
        BY <1>1, <3>1 DEF Inv, GrantInv, grantVars
    <2> QED
      BY <1>2, <2>2, <2>3, <2>4 DEF Inv
  <1>7. CASE CreateSession(o)
    BY <1>1, <1>2, <1>7, CheckoutAssumption DEF CreateSession, Moves,
       Inv, Types, SessionInv, GrantInv, placeVars, grantVars
  <1>8. CASE CreateSessionFails(o)
    BY <1>1, <1>2, <1>8, CheckoutAssumption DEF CreateSessionFails, Moves,
       Inv, Types, SessionInv, GrantInv, placeVars, grantVars
  <1>9. CASE Redirect(o) \/ RedirectFails(o)
    BY <1>1, <1>2, <1>9, CheckoutAssumption DEF Redirect, RedirectFails, Moves,
       Inv, Types, SessionInv, GrantInv, placeVars, grantVars
  <1>10. CASE MarkCreationFailed(o)
    BY <1>1, <1>2, <1>10, CheckoutAssumption DEF MarkCreationFailed, Moves,
       Inv, Types, SessionInv, GrantInv, placeVars, grantVars
  <1>11. CASE Stripe(o)
    BY <1>1, <1>2, <1>11, CheckoutAssumption DEF Stripe, Pay, PayLater,
       PaymentSucceeds, PaymentFails, Expire, SessionMoves,
       Inv, Types, SessionInv, GrantInv, placeVars, grantVars
  <1>12. CASE Lapse(o)
    BY <1>1, <1>2, <1>12 DEF Lapse,
       Inv, Types, SessionInv, GrantInv, placeVars, grantVars
  <1>13. CASE MarkCheckoutSessionFailed(o)
    BY <1>1, <1>2, <1>13, CheckoutAssumption DEF MarkCheckoutSessionFailed,
       requestVars, Inv, Types, SessionInv, GrantInv, placeVars, grantVars
  <1> QED
    BY <1>3, <1>4, <1>5, <1>6, <1>7, <1>8, <1>9, <1>10, <1>11, <1>12, <1>13
       DEF RequestStep, CreateCheckout

-----------------------------------------------------------------------------
\* A confirmed registration takes one place that was free.
LEMMA IssueConfirms ==
    ASSUME Types, PlacesConfirmed, NEW u \in Users, Issuable(u),
           IssueConfirmedRegistration(u)
    PROVE  /\ PlacesConfirmed' /\ confirmed' \in Nat
           /\ registration' \in [Users -> {"none", "selected", "withdrawn"}]
  <1>1. u \notin Selected /\ Selected' = Selected \cup {u}
    BY DEF Types, Issuable, IssueConfirmedRegistration, Selected
  <1>2. Cardinality(Selected') = Cardinality(Selected) + 1
    BY <1>1, SelectedFinite, FS_AddElement
  <1> QED
    BY <1>2, CheckoutAssumption
       DEF Types, PlacesConfirmed, Issuable, IssueConfirmedRegistration

\* The fulfilment of a ticket keeps the invariant.
LEMMA EventRegistrationInv ==
    ASSUME Inv, NEW o \in Orders, FulfillEventRegistration(o)
    PROVE  Inv'
  <1>1. Buyer[o] \in Users
    BY CheckoutAssumption
  <1>2. /\ PlacesConfirmed' /\ confirmed' \in Nat
        /\ registration' \in [Users -> {"none", "selected", "withdrawn"}]
    <2>1. CASE Issuable(Buyer[o])
      BY <1>1, <2>1, IssueConfirms DEF Inv, FulfillEventRegistration
    <2>2. CASE ~Issuable(Buyer[o])
      BY <2>2 DEF Inv, Types, FulfillEventRegistration, PlacesConfirmed, Selected
    <2> QED
      BY <2>1, <2>2
  <1>3. /\ UNCHANGED <<phase, session, quantity, redeemed, codes, used>>
        /\ status[o] = "pending" /\ Kind[o] = "event_registration"
        /\ status' = [status EXCEPT ![o] = "paid"]
    BY DEF FulfillEventRegistration, Fulfillable, requestVars, grantVars
  <1>4. Types' /\ SessionInv' /\ GrantInv'
    BY <1>2, <1>3 DEF Inv, Types, SessionInv, GrantInv
  <1>5. CodesMatchPlaces'
    BY <1>3 DEF Inv, CodesMatchPlaces
  <1> QED
    BY <1>2, <1>4, <1>5 DEF Inv

\* The fulfilment of an individual purchase keeps the invariant.
LEMMA IndividualPurchaseInv ==
    ASSUME Inv, NEW o \in Orders, FulfillIndividualPurchase(o)
    PROVE  Inv'
  <1>1. /\ UNCHANGED <<phase, session, registration, confirmed, codes, used>>
        /\ Kind[o] = "individual_purchase" /\ status[o] = "pending"
        /\ status' = [status EXCEPT ![o] = "paid"]
        /\ \/ UNCHANGED <<quantity, redeemed>>
           \/ /\ quantity' = [quantity EXCEPT ![o] = 1]
              /\ redeemed' = [redeemed EXCEPT ![o] = 1]
    BY DEF FulfillIndividualPurchase, Fulfillable, requestVars
  <1>2. Types' /\ SessionInv'
    BY <1>1 DEF Inv, Types, SessionInv
  <1>3. GrantInv'
    <2>1. \A x \in Orders : Kind[x] = "bulk_purchase" =>
             UNCHANGED <<status[x], quantity[x], redeemed[x]>>
      BY <1>1 DEF Inv, Types
    <2>2. \A x \in Orders : Kind[x] = "capacity_extension" =>
             Base[x] \in Orders /\ Kind[Base[x]] = "bulk_purchase"
      BY CheckoutAssumption
    <2> QED
      BY <1>1, <2>1, <2>2 DEF Inv, GrantInv
  <1>4. PlacesConfirmed'
    BY <1>1 DEF Inv, PlacesConfirmed, Selected
  <1>5. CodesMatchPlaces'
    BY <1>1 DEF Inv, Types, CodesMatchPlaces
  <1> QED
    BY <1>2, <1>3, <1>4, <1>5 DEF Inv

\* The fulfilment of a bulk order keeps the invariant: there was no grant yet.
LEMMA BulkPurchaseInv ==
    ASSUME Inv, NEW o \in Orders, FulfillBulkPurchase(o)
    PROVE  Inv'
  <1>1. /\ UNCHANGED <<phase, session, registration, confirmed, redeemed, used>>
        /\ Kind[o] = "bulk_purchase" /\ status[o] = "pending"
        /\ status' = [status EXCEPT ![o] = "paid"]
        /\ quantity' = [quantity EXCEPT ![o] = Quantity[o]]
    BY DEF FulfillBulkPurchase, Fulfillable, requestVars, placeVars
  <1>2. /\ Quantity[o] \in Nat /\ Quantity[o] > 0
        /\ redeemed[o] = 0 /\ codes[o] = {} /\ used[o] = {}
    BY <1>1, CheckoutAssumption DEF Inv, GrantInv
  <1>3. codes' = [codes EXCEPT ![o] = IF o \in SingleUse THEN 1..Quantity[o]
                                      ELSE {0}]
    <2>1. 1 + Quantity[o] - 1 = Quantity[o]
      BY <1>2
    <2> QED
      BY <1>2, <2>1 DEF FulfillBulkPurchase, IssueGrantCodes
  <1>4. Types' /\ SessionInv'
    BY <1>1, <1>2, <1>3 DEF Inv, Types, SessionInv
  <1>5. GrantInv'
    BY <1>1, <1>2, <1>3, CheckoutAssumption DEF Inv, Types, GrantInv
  <1>6. PlacesConfirmed'
    BY <1>1 DEF Inv, PlacesConfirmed, Selected
  <1>7. CodesMatchPlaces'
    BY <1>1, <1>2, <1>3, FS_EmptySet DEF Inv, Types, CodesMatchPlaces
  <1> QED
    BY <1>4, <1>5, <1>6, <1>7 DEF Inv

\* The fulfilment of an extension keeps the invariant: its codes follow on the
\* ones the grant has.
LEMMA ExtensionInv ==
    ASSUME Inv, NEW o \in Orders, FulfillExtension(o)
    PROVE  Inv'
  <1> DEFINE b == Base[o]
  <1>1. /\ UNCHANGED <<phase, session, registration, confirmed, redeemed, used>>
        /\ Kind[o] = "capacity_extension" /\ status[o] = "pending"
        /\ status' = [status EXCEPT ![o] = "paid"]
        /\ quantity' = [quantity EXCEPT ![b] = @ + Quantity[o]]
    BY DEF FulfillExtension, Fulfillable, requestVars, placeVars
  <1>2. /\ b \in Orders /\ Kind[b] = "bulk_purchase" /\ b # o
        /\ Quantity[o] \in Nat /\ quantity[b] \in Nat
    <2>1. b \in Orders /\ Quantity[o] \in Nat
      BY CheckoutAssumption
    <2>2. Kind[b] = "bulk_purchase" /\ b # o
      BY <1>1, CheckoutAssumption
    <2> QED
      BY <2>1, <2>2 DEF Inv, Types
  <1>3. phase[o] # "start" /\ quantity[b] > 0 /\ status[b] = "paid"
    BY <1>1, <1>2 DEF Inv, SessionInv, GrantInv
  <1>4. codes' = [codes EXCEPT ![b] = IF b \in SingleUse
                    THEN @ \cup (quantity[b] + 1)..(quantity[b] + Quantity[o])
                    ELSE @]
    <2>1. quantity[b] + 1 + Quantity[o] - 1 = quantity[b] + Quantity[o]
      BY <1>2
    <2>2. CASE b \in SingleUse
      BY <2>1, <2>2 DEF FulfillExtension, IssueGrantCodes
    <2>3. CASE b \notin SingleUse
      BY <2>3, <1>2 DEF FulfillExtension, Inv, Types
    <2> QED
      BY <2>2, <2>3
  <1>5. Types' /\ SessionInv'
    BY <1>1, <1>2, <1>4 DEF Inv, Types, SessionInv
  <1>6. GrantInv'
    BY <1>1, <1>2, <1>3, <1>4, CheckoutAssumption DEF Inv, Types, GrantInv
  <1>7. PlacesConfirmed'
    BY <1>1 DEF Inv, PlacesConfirmed, Selected
  <1>8. CodesMatchPlaces'
    <2>1. 1..quantity[b] \cup (quantity[b] + 1)..(quantity[b] + Quantity[o])
              = 1..(quantity[b] + Quantity[o])
      BY <1>2
    <2>2. codes[b] = 1..quantity[b] /\ b \in SingleUse =>
              codes'[b] = 1..quantity'[b] /\ codes[b] \subseteq codes'[b]
      BY <1>1, <1>2, <1>4, <2>1 DEF Inv, Types
    <2>3. \A x \in Orders : x # b => UNCHANGED <<quantity[x], codes[x]>>
      BY <1>1, <1>4 DEF Inv, Types
    <2>4. redeemed[b] <= quantity'[b]
      BY <1>1, <1>2 DEF Inv, Types, CodesMatchPlaces
    <2> QED
      BY <1>1, <1>2, <2>2, <2>3, <2>4 DEF Inv, CodesMatchPlaces
  <1> QED
    BY <1>5, <1>6, <1>7, <1>8 DEF Inv

\* Redeeming a code keeps the invariant: one more used code, one more redemption.
LEMMA RedeemInv ==
    ASSUME Inv, NEW b \in Orders, NEW u \in Users, NEW k \in codes[b],
           RedeemAccessCode(u, b, k)
    PROVE  Inv'
  <1>1. /\ UNCHANGED <<phase, status, session, quantity, codes>>
        /\ redeemed' = [redeemed EXCEPT ![b] = @ + 1]
        /\ used' = IF b \in SingleUse THEN [used EXCEPT ![b] = @ \cup {k}]
                   ELSE used
        /\ Kind[b] = "bulk_purchase" /\ redeemed[b] < quantity[b]
        /\ b \in SingleUse => k \notin used[b]
    BY DEF RedeemAccessCode, Redeemable, requestVars
  <1>2. status[b] = "paid"
    BY <1>1 DEF Inv, Types, GrantInv
  <1>3. /\ PlacesConfirmed' /\ confirmed' \in Nat
        /\ registration' \in [Users -> {"none", "selected", "withdrawn"}]
    <2>1. CASE b \in EventOrders
      BY <2>1, IssueConfirms DEF Inv, RedeemAccessCode
    <2>2. CASE b \notin EventOrders
      BY <2>2 DEF Inv, Types, RedeemAccessCode, PlacesConfirmed, Selected
    <2> QED
      BY <2>1, <2>2
  <1>4. Types' /\ SessionInv' /\ GrantInv'
    BY <1>1, <1>2, <1>3 DEF Inv, Types, SessionInv, GrantInv
  <1>5. CodesMatchPlaces'
    <2>1. ASSUME b \in SingleUse
          PROVE  Cardinality(used[b] \cup {k}) = redeemed[b] + 1
      <3>1. codes[b] = 1..quantity[b] /\ used[b] \subseteq codes[b]
            /\ Cardinality(used[b]) = redeemed[b] /\ quantity[b] \in Nat
        BY <1>1, <2>1 DEF Inv, Types, CodesMatchPlaces
      <3>2. IsFiniteSet(used[b])
        <4>1. IsFiniteSet(1..quantity[b])
          <5>1. 1 \in Int /\ quantity[b] \in Int
            BY <3>1
          <5> QED
            BY <5>1, FS_Interval
        <4> QED
          BY <3>1, <4>1, FS_Subset
      <3> QED
        BY <1>1, <2>1, <3>1, <3>2, FS_AddElement
    <2> QED
      BY <1>1, <2>1 DEF Inv, Types, CodesMatchPlaces
  <1> QED
    BY <1>3, <1>4, <1>5 DEF Inv

\* A withdrawal keeps the invariant: it frees the place it held.
LEMMA WithdrawInv ==
    ASSUME Inv, NEW u \in Users, WithdrawRegistration(u)
    PROVE  Inv'
  <1>1. /\ UNCHANGED <<phase, status, session, quantity, redeemed, codes, used>>
        /\ registration[u] = "selected"
        /\ registration' = [registration EXCEPT ![u] = "withdrawn"]
        /\ confirmed' = IF confirmed = 0 THEN 0 ELSE confirmed - 1
    BY DEF WithdrawRegistration, requestVars, grantVars
  <1>2. u \in Selected /\ Selected' = Selected \ {u}
    BY <1>1 DEF Inv, Types, Selected
  <1>3. /\ Cardinality(Selected') = Cardinality(Selected) - 1
        /\ Cardinality(Selected') \in Nat
    BY <1>2, SelectedFinite, FS_RemoveElement, FS_CardinalityType
  <1>4. PlacesConfirmed' /\ confirmed' \in Nat
    BY <1>1, <1>3, CheckoutAssumption DEF Inv, Types, PlacesConfirmed
  <1>5. Types' /\ SessionInv' /\ GrantInv' /\ CodesMatchPlaces'
    BY <1>1, <1>4 DEF Inv, Types, SessionInv, GrantInv, CodesMatchPlaces
  <1> QED
    BY <1>4, <1>5 DEF Inv

\* A step that leaves the orders, the places and the grants alone: a grant is
\* revoked, the event begins, or nothing happens.
LEMMA QuietInv ==
    ASSUME Inv, (\E o \in Orders : RevokeGrant(o)) \/ EventStarts \/ UNCHANGED vars
    PROVE  Inv'
  <1>1. UNCHANGED <<phase, status, session, registration, confirmed, quantity,
                    redeemed, codes, used>>
    <2>1. CASE \E o \in Orders : RevokeGrant(o)
      BY <2>1 DEF RevokeGrant, requestVars, placeVars
    <2>2. CASE EventStarts
      BY <2>2 DEF EventStarts, requestVars, grantVars
    <2>3. CASE UNCHANGED vars
      BY <2>3 DEF vars
    <2> QED
      BY <2>1, <2>2, <2>3
  <1>2. Types'
    BY <1>1 DEF Inv, Types
  <1>3. SessionInv'
    BY <1>1 DEF Inv, SessionInv
  <1>4. GrantInv'
    BY <1>1 DEF Inv, GrantInv
  <1>5. PlacesConfirmed'
    BY <1>1 DEF Inv, PlacesConfirmed, Selected
  <1>6. CodesMatchPlaces'
    BY <1>1 DEF Inv, CodesMatchPlaces
  <1> QED
    BY <1>2, <1>3, <1>4, <1>5, <1>6 DEF Inv

\* Every step keeps the invariant.
LEMMA NextInv == Inv /\ [Next]_vars => Inv'
  <1> SUFFICES ASSUME Inv, [Next]_vars PROVE Inv'
    OBVIOUS
  <1>1. CASE \E o \in Orders : RequestStep(o)
    BY <1>1, RequestInv
  <1>2. CASE \E o \in Orders : FulfillEventRegistration(o)
    BY <1>2, EventRegistrationInv
  <1>3. CASE \E o \in Orders : FulfillIndividualPurchase(o)
    BY <1>3, IndividualPurchaseInv
  <1>4. CASE \E o \in Orders : FulfillBulkPurchase(o)
    BY <1>4, BulkPurchaseInv
  <1>5. CASE \E o \in Orders : FulfillExtension(o)
    BY <1>5, ExtensionInv
  <1>6. CASE \E o \in Orders, u \in Users : \E k \in codes[o] :
                RedeemAccessCode(u, o, k)
    BY <1>6, RedeemInv
  <1>7. CASE \E u \in Users : WithdrawRegistration(u)
    BY <1>7, WithdrawInv
  <1>8. CASE (\E o \in Orders : RevokeGrant(o)) \/ EventStarts
             \/ UNCHANGED vars
    BY <1>8, QuietInv
  <1> QED
    BY <1>1, <1>2, <1>3, <1>4, <1>5, <1>6, <1>7, <1>8, NextCases

\* The invariant holds of every behaviour of the checkout.
THEOREM Invariance == Spec => []Inv
  BY InitInv, NextInv, PTL DEF Spec

\* event_occurrence.confirmedCount counts the selected registrations and stays
\* within the capacity, for every capacity and every mix of payments, codes and
\* withdrawals.
THEOREM ConfirmedWithinCapacity == Spec => []PlacesConfirmed
  <1>1. Inv => PlacesConfirmed
    BY DEF Inv
  <1> QED
    BY <1>1, Invariance, PTL

\* A grant is never redeemed beyond its places, and a single-use grant has one
\* code per place and one redemption per used code, however many extensions it
\* gets.
THEOREM GrantsAndCodesAgree == Spec => []CodesMatchPlaces
  <1>1. Inv => CodesMatchPlaces
    BY DEF Inv
  <1> QED
    BY <1>1, Invariance, PTL

\* No money is taken, or can still be taken, for an order that was given up.
THEOREM GivenUpNeverPaid == Spec => []FailedNeverPaid
  <1>1. Inv => FailedNeverPaid
    BY DEF Inv, Types, SessionInv, FailedNeverPaid
  <1> QED
    BY <1>1, Invariance, PTL

-----------------------------------------------------------------------------
(***************************************************************************)
(* The places that grants hold and the places that were paid for.          *)
(***************************************************************************)
\* A paid order stays paid, and only a fulfilment pays one.
LEMMA PaidByFulfilment ==
    ASSUME Inv, NEW o \in Orders, RequestStep(o), NEW x \in Orders
    PROVE  status'[x] = "paid" <=> status[x] = "paid"
  <1>1. CASE StartCheckout(o) \/ LockAndCountPending(o) \/ CreateSession(o)
             \/ CreateSessionFails(o) \/ Redirect(o) \/ RedirectFails(o)
             \/ Stripe(o) \/ Lapse(o)
    <2>1. UNCHANGED status
      BY <1>1 DEF StartCheckout, LockAndCountPending, CreateSession,
         CreateSessionFails, Redirect, RedirectFails, Stripe, Pay, PayLater,
         PaymentSucceeds, PaymentFails, Expire, SessionMoves, Lapse
    <2> QED
      BY <2>1
  <1>2. CASE InsertOrder(o) \/ ReservePlaces(o)
    <2>1. /\ phase[o] \in {"eligible", "counting"}
          /\ status' = status \/ status' = [status EXCEPT ![o] = "pending"]
      BY <1>2 DEF InsertOrder, ReservePlaces, Moves
    <2>2. status[o] = "none"
      BY <2>1 DEF Inv, SessionInv
    <2> QED
      BY <2>1, <2>2 DEF Inv, Types
  <1>3. CASE MarkCreationFailed(o) \/ MarkCheckoutSessionFailed(o)
    <2>1. \/ status' = status
          \/ status[o] = "pending" /\ status' = [status EXCEPT ![o] = "failed"]
      BY <1>3 DEF MarkCreationFailed, MarkCheckoutSessionFailed
    <2> QED
      BY <2>1 DEF Inv, Types
  <1> QED
    BY <1>1, <1>2, <1>3 DEF RequestStep, CreateCheckout

\* When one more order for its places is paid, a grant has its places more.
LEMMA OnePaidMore ==
    ASSUME Types, NEW o \in Orders, status[o] = "pending",
           status' = [status EXCEPT ![o] = "paid"],
           Kind[o] \in {"bulk_purchase", "capacity_extension"}
    PROVE  /\ Places(PaidFor(Base[o]))' = Places(PaidFor(Base[o])) + Quantity[o]
           /\ Places(PaidFor(Base[o])) \in Int
           /\ \A b \in Orders \ {Base[o]} : PaidFor(b)' = PaidFor(b)
  <1> DEFINE S == PaidFor(Base[o])
  <1>1. /\ IsFiniteSet(S) /\ o \notin S /\ PaidFor(Base[o])' = S \cup {o}
        /\ \A x \in S \cup {o} : Quantity[x] \in Int
    <2>1. S \subseteq Orders /\ o \notin S
      BY DEF PaidFor
    <2>2. IsFiniteSet(S)
      BY <2>1, CheckoutAssumption, FS_Subset
    <2>3. PaidFor(Base[o])' = S \cup {o}
      BY DEF PaidFor, Types
    <2>4. \A x \in S \cup {o} : Quantity[x] \in Int
      BY <2>1, CheckoutAssumption
    <2> QED
      BY <2>1, <2>2, <2>3, <2>4
  <1>2. SumFunctionOnSet(Quantity, S \cup {o})
            = Quantity[o] + SumFunctionOnSet(Quantity, S)
    <2> HIDE DEF S
    <2> QED
      BY <1>1, SumOneMore
  <1>3. SumFunctionOnSet(Quantity, S) \in Int
    <2> HIDE DEF S
    <2> QED
      BY <1>1, SumType
  <1>4. \A b \in Orders \ {Base[o]} : PaidFor(b)' = PaidFor(b)
    BY DEF PaidFor, Types
  <1> QED
    BY <1>1, <1>2, <1>3, <1>4 DEF Places

\* A step that pays no order for places and leaves the grants of bulk orders.
LEMMA NonePaid ==
    ASSUME PlacesPaidFor,
           \A x \in Orders : Kind[x] \in {"bulk_purchase", "capacity_extension"} =>
              (status'[x] = "paid" <=> status[x] = "paid"),
           \A x \in Orders : Kind[x] = "bulk_purchase" => quantity'[x] = quantity[x]
    PROVE  PlacesPaidFor'
  <1>1. \A b \in Orders : PaidFor(b)' = PaidFor(b)
    BY DEF PaidFor
  <1> QED
    BY <1>1 DEF PlacesPaidFor, Places

\* Every step keeps grants and payments together.
LEMMA NextPaid == Inv /\ PlacesPaidFor /\ [Next]_vars => PlacesPaidFor'
  <1> SUFFICES ASSUME Inv, PlacesPaidFor, [Next]_vars PROVE PlacesPaidFor'
    OBVIOUS
  <1>1. CASE \E o \in Orders : RequestStep(o)
    <2>1. PICK o \in Orders : RequestStep(o)
      BY <1>1
    <2>2. UNCHANGED quantity
      BY <2>1, RequestFrame DEF grantVars
    <2> QED
      BY <2>1, <2>2, PaidByFulfilment, NonePaid
  <1>2. CASE \E o \in Orders : FulfillEventRegistration(o)
                               \/ FulfillIndividualPurchase(o)
    <2>1. PICK o \in Orders : FulfillEventRegistration(o)
                              \/ FulfillIndividualPurchase(o)
      BY <1>2
    <2>2. /\ Kind[o] \notin {"bulk_purchase", "capacity_extension"}
          /\ status' = [status EXCEPT ![o] = "paid"]
          /\ quantity' = quantity \/ quantity' = [quantity EXCEPT ![o] = 1]
      BY <2>1 DEF FulfillEventRegistration, FulfillIndividualPurchase, grantVars
    <2> QED
      BY <2>2, NonePaid DEF Inv, Types
  <1>3. CASE \E o \in Orders : FulfillBulkPurchase(o)
    <2>1. PICK o \in Orders : FulfillBulkPurchase(o)
      BY <1>3
    <2>2. /\ Kind[o] = "bulk_purchase" /\ status[o] = "pending"
          /\ status' = [status EXCEPT ![o] = "paid"]
          /\ quantity' = [quantity EXCEPT ![o] = Quantity[o]]
      BY <2>1 DEF FulfillBulkPurchase, Fulfillable
    <2>3. Base[o] = o /\ quantity[o] = 0 /\ Quantity[o] \in Nat
      BY <2>2, CheckoutAssumption DEF Inv, GrantInv
    <2>4. Places(PaidFor(o))' = Quantity[o]
      <3>1. Places(PaidFor(o)) = 0
        BY <2>2, <2>3 DEF PlacesPaidFor
      <3>2. Places(PaidFor(o))' = Places(PaidFor(o)) + Quantity[o]
        BY <2>2, <2>3, OnePaidMore DEF Inv
      <3> QED
        BY <2>3, <3>1, <3>2
    <2>5. \A b \in Orders \ {o} : quantity'[b] = quantity[b]
                                  /\ PaidFor(b)' = PaidFor(b)
      BY <2>2, <2>3, OnePaidMore DEF Inv, Types
    <2>6. quantity'[o] = Quantity[o]
      BY <2>2 DEF Inv, Types
    <2> QED
      BY <2>4, <2>5, <2>6 DEF PlacesPaidFor, Places
  <1>4. CASE \E o \in Orders : FulfillExtension(o)
    <2>1. PICK o \in Orders : FulfillExtension(o)
      BY <1>4
    <2>2. /\ Kind[o] = "capacity_extension" /\ status[o] = "pending"
          /\ status' = [status EXCEPT ![o] = "paid"]
          /\ quantity' = [quantity EXCEPT ![Base[o]] = @ + Quantity[o]]
      BY <2>1 DEF FulfillExtension, Fulfillable
    <2>3. Base[o] \in Orders /\ Kind[Base[o]] = "bulk_purchase"
      BY <2>2, CheckoutAssumption
    <2>4. Places(PaidFor(Base[o]))' = quantity'[Base[o]]
      BY <2>2, <2>3, OnePaidMore DEF Inv, Types, PlacesPaidFor
    <2>5. \A b \in Orders \ {Base[o]} : quantity'[b] = quantity[b]
                                        /\ PaidFor(b)' = PaidFor(b)
      BY <2>2, <2>3, OnePaidMore DEF Inv, Types
    <2> QED
      BY <2>4, <2>5 DEF PlacesPaidFor, Places
  <1>5. CASE \/ \E o \in Orders : RevokeGrant(o)
             \/ \E o \in Orders, u \in Users : \E k \in codes[o] :
                   RedeemAccessCode(u, o, k)
             \/ \E u \in Users : WithdrawRegistration(u)
             \/ EventStarts \/ UNCHANGED vars
    <2>1. UNCHANGED <<status, quantity>>
      BY <1>5 DEF RevokeGrant, RedeemAccessCode, WithdrawRegistration, EventStarts,
                  vars, grantVars
    <2> QED
      BY <2>1, NonePaid
  <1> QED
    BY <1>1, <1>2, <1>3, <1>4, <1>5, NextCases

\* Initially nothing is paid and there is no grant.
LEMMA InitPaid == Init => PlacesPaidFor
  <1> SUFFICES ASSUME Init, NEW b \in Orders
               PROVE  quantity[b] = Places(PaidFor(b))
    BY DEF PlacesPaidFor
  <1>1. PaidFor(b) = {}
    BY DEF Init, PaidFor
  <1>2. SumFunctionOnSet(Quantity, {}) = 0
    BY SumOfPart, FS_EmptySet
  <1> QED
    BY <1>1, <1>2 DEF Init, Places

\* A grant holds exactly the places that were paid for: its bulk order and each
\* of its extensions count once, whatever the number and the order of the
\* webhooks.
THEOREM GrantsHoldWhatWasPaid == Spec => []PlacesPaidFor
  BY InitPaid, NextPaid, Invariance, PTL DEF Spec

-----------------------------------------------------------------------------
(***************************************************************************)
(* The places that are promised.                                           *)
(***************************************************************************)
\* What remains of the types; only a reservation for the event takes the lock.
OtherTypes ==
    /\ lapsed \subseteq Orders /\ locker \in EventOrders \cup {Nobody}
    /\ counted \in Nat /\ enrolled \subseteq Users
    /\ revoked \subseteq Orders /\ review \subseteq Orders /\ started \in BOOLEAN

\* A reservation has counted every place that is reserved: while it holds the
\* lock no order is inserted, and the ones it counted can only end.
CountInv == locker # Nobody => PendingPlaces <= counted

\* No payment has come in for a reservation that had lapsed.
OnTime == \A o \in lapsed : status[o] # "paid"

Promised == confirmed + PendingPlaces + GrantPlaces

\* The invariant with the promised places.
PlacesInv == OtherTypes /\ CountInv /\ PlacesNotOversold

\* The places are numbers.
LEMMA PlacesType == Types => PendingPlaces \in Nat /\ GrantPlaces \in Int
  <1> SUFFICES ASSUME Types PROVE PendingPlaces \in Nat /\ GrantPlaces \in Int
    OBVIOUS
  <1>1. /\ IsFiniteSet(Reserving) /\ IsFiniteSet(EventOrders \ revoked)
        /\ \A x \in Reserving : Quantity[x] \in Nat
    BY CheckoutAssumption, FS_Subset DEF Reserving
  <1>2. \A x \in EventOrders \ revoked : Unredeemed[x] \in Int
    BY CheckoutAssumption DEF Types, Unredeemed
  <1>3. SumFunctionOnSet(Quantity, Reserving) \in Nat
    BY <1>1, SumType
  <1>4. SumFunctionOnSet(Unredeemed, EventOrders \ revoked) \in Int
    BY <1>1, <1>2, SumType
  <1> QED
    BY <1>3, <1>4 DEF PendingPlaces, Places, GrantPlaces

\* They are numbers after a step, too.
LEMMA PlacesTypeNext == Types' => PendingPlaces' \in Nat /\ GrantPlaces' \in Int
  <1>1. (Types => PendingPlaces \in Nat /\ GrantPlaces \in Int)'
    BY PlacesType, PTL
  <1> QED
    BY <1>1

\* An order that is no longer reserving frees its places.
LEMMA Frees ==
    ASSUME Types, NEW o \in Orders, Reserving' = Reserving \ {o}
    PROVE  /\ PendingPlaces' <= PendingPlaces /\ PendingPlaces' \in Nat
           /\ o \in Reserving => PendingPlaces' + Quantity[o] = PendingPlaces
  <1>1. /\ IsFiniteSet(Reserving) /\ IsFiniteSet(Reserving \ {o})
        /\ \A x \in Reserving : Quantity[x] \in Nat
    BY CheckoutAssumption, FS_Subset DEF Reserving
  <1>2. PendingPlaces' = SumFunctionOnSet(Quantity, Reserving \ {o})
    BY DEF PendingPlaces, Places
  <1>3. SumFunctionOnSet(Quantity, Reserving \ {o}) \in Nat
    BY <1>1, SumType
  <1>4. CASE o \in Reserving
    <2>1. SumFunctionOnSet(Quantity, Reserving)
              = Quantity[o] + SumFunctionOnSet(Quantity, Reserving \ {o})
      BY <1>1, <1>4, SumTakeOut
    <2>2. Quantity[o] \in Nat
      BY CheckoutAssumption
    <2> QED
      BY <1>2, <1>3, <2>1, <2>2 DEF PendingPlaces, Places
  <1>5. CASE o \notin Reserving
    <2>1. Reserving' = Reserving
      BY <1>5
    <2>2. PendingPlaces' = PendingPlaces
      BY <2>1 DEF PendingPlaces, Places
    <2> QED
      BY <1>5, <2>2, PlacesType
  <1> QED
    BY <1>4, <1>5

\* An order that begins to reserve takes its places.
LEMMA Takes ==
    ASSUME Types, NEW o \in Orders, Reserving' \in {Reserving, Reserving \cup {o}}
    PROVE  PendingPlaces' <= PendingPlaces + Quantity[o]
  <1>1. /\ IsFiniteSet(Reserving) /\ \A x \in Reserving \cup {o} : Quantity[x] \in Nat
        /\ Quantity[o] \in Nat
    BY CheckoutAssumption, FS_Subset DEF Reserving
  <1>2. CASE Reserving' = Reserving
    BY <1>1, <1>2, PlacesType DEF PendingPlaces, Places
  <1>3. CASE Reserving' = Reserving \cup {o} /\ o \notin Reserving
    <2>1. SumFunctionOnSet(Quantity, Reserving \cup {o})
              = Quantity[o] + SumFunctionOnSet(Quantity, Reserving)
      BY <1>1, <1>3, SumOneMore
    <2> QED
      BY <1>1, <1>3, <2>1, PlacesType DEF PendingPlaces, Places
  <1>4. o \in Reserving => Reserving \cup {o} = Reserving
    OBVIOUS
  <1> QED
    BY <1>2, <1>3, <1>4

\* When the places of one grant change, the grants' places change with them.
LEMMA GrantChanges ==
    ASSUME Types, Types', NEW b \in Orders, UNCHANGED revoked,
           \A x \in Orders \ {b} : Unredeemed'[x] = Unredeemed[x]
    PROVE  GrantPlaces' =
              IF b \in EventOrders \ revoked
              THEN GrantPlaces - Unredeemed[b] + Unredeemed'[b] ELSE GrantPlaces
  <1> DEFINE S == EventOrders \ revoked
  <1>1. /\ IsFiniteSet(S) /\ S \subseteq Orders
        /\ \A x \in S : Unredeemed[x] \in Int /\ Unredeemed'[x] \in Int
    BY CheckoutAssumption, FS_Subset DEF Types, Unredeemed
  <1>2. CASE b \in S
    <2>1. \A x \in S \ {b} : Unredeemed'[x] = Unredeemed[x]
      BY <1>1
    <2>2. SumFunctionOnSet(Unredeemed', S)
              = SumFunctionOnSet(Unredeemed, S) - Unredeemed[b] + Unredeemed'[b]
      <3> HIDE DEF S
      <3> QED
        BY <1>1, <1>2, <2>1, SumOneChanged
    <2> QED
      BY <1>2, <2>2 DEF GrantPlaces
  <1>3. CASE b \notin S
    <2>1. \A x \in S : Unredeemed'[x] = Unredeemed[x]
      BY <1>1, <1>3
    <2>2. SumFunctionOnSet(Unredeemed', S) = SumFunctionOnSet(Unredeemed, S)
      <3> HIDE DEF S
      <3> QED
        BY <1>1, <2>1, SumSame
    <2> QED
      BY <1>3, <2>2 DEF GrantPlaces
  <1> QED
    BY <1>2, <1>3

\* A step that promises no more places keeps them within the capacity.
LEMMA NoMorePromised ==
    ASSUME Types, Types', PlacesNotOversold, OnTime' => OnTime,
           OnTime' => Promised' <= Promised
    PROVE  PlacesNotOversold'
  <1>1. Promised \in Int /\ Promised' \in Int
    <2>1. /\ PendingPlaces' \in Nat /\ GrantPlaces' \in Int
          /\ PendingPlaces \in Nat /\ GrantPlaces \in Int
      BY PlacesType, PlacesTypeNext
    <2> QED
      BY <2>1 DEF Types, Promised
  <1> QED
    BY <1>1, CheckoutAssumption DEF PlacesNotOversold, OnTime, Promised

\* A request step promises places to an order only under the lock and within the
\* capacity, and takes the lock with all the places that are reserved.
LEMMA RequestPlaces ==
    ASSUME Inv, Inv', PlacesInv, NEW o \in Orders, RequestStep(o)
    PROVE  PlacesInv'
  <1>1. UNCHANGED placeVars /\ UNCHANGED grantVars
    BY RequestFrame
  <1>2. confirmed' = confirmed /\ GrantPlaces' = GrantPlaces
    BY <1>1 DEF placeVars, grantVars, GrantPlaces, Unredeemed
  <1>3. PendingPlaces \in Nat /\ GrantPlaces \in Int /\ confirmed \in Nat
    BY PlacesType DEF Inv, Types
  <1>4. CASE \/ StartCheckout(o) \/ CreateSession(o) \/ CreateSessionFails(o)
             \/ Redirect(o) \/ RedirectFails(o) \/ Stripe(o)
    <2>1. UNCHANGED <<status, lapsed, locker, counted, review>>
      BY <1>4 DEF StartCheckout, CreateSession, CreateSessionFails, Redirect,
         RedirectFails, Stripe, Pay, PayLater, PaymentSucceeds, PaymentFails,
         Expire, SessionMoves
    <2>2. PendingPlaces' = PendingPlaces
      BY <2>1 DEF PendingPlaces, Places, Reserving
    <2> QED
      BY <1>1, <1>2, <2>1, <2>2 DEF placeVars, grantVars, PlacesInv, OtherTypes,
         CountInv, PlacesNotOversold
  <1>5. CASE LockAndCountPending(o)
    <2>1. /\ UNCHANGED <<status, lapsed, review>>
          /\ \/ UNCHANGED <<locker, counted>>
             \/ o \in EventOrders /\ locker' = o /\ counted' = PendingPlaces
      BY <1>5 DEF LockAndCountPending, ReservedPlaces
    <2>2. PendingPlaces' = PendingPlaces
      BY <2>1 DEF PendingPlaces, Places, Reserving
    <2> QED
      BY <1>1, <1>2, <1>3, <2>1, <2>2 DEF placeVars, grantVars, PlacesInv,
         OtherTypes, CountInv, PlacesNotOversold
  <1>6. CASE InsertOrder(o)
    <2>1. /\ o \notin EventOrders /\ phase[o] = "eligible"
          /\ status' = [status EXCEPT ![o] = "pending"]
          /\ UNCHANGED <<lapsed, locker, counted, review>>
      BY <1>6 DEF InsertOrder, Moves
    <2>2. PendingPlaces' = PendingPlaces
      <3>1. Reserving' = Reserving
        BY <2>1 DEF Reserving, Inv, Types
      <3> QED
        BY <3>1 DEF PendingPlaces, Places
    <2>3. OnTime' => OnTime
      BY <2>1, PaidByFulfilment DEF OnTime, PlacesInv, OtherTypes
    <2>4. PlacesNotOversold'
      BY <1>2, <1>3, <2>2, <2>3, NoMorePromised DEF Inv, PlacesInv, Promised
    <2> QED
      BY <1>1, <2>1, <2>2, <2>4 DEF placeVars, grantVars, PlacesInv, OtherTypes,
         CountInv
  <1>7. CASE ReservePlaces(o)
    <2>1. /\ locker = o /\ locker' = Nobody /\ counted' = 0
          /\ UNCHANGED <<lapsed, review>>
          /\ \/ status' = status
             \/ /\ status' = [status EXCEPT ![o] = "pending"]
                /\ ~(confirmed + counted + GrantPlaces + Quantity[o] > Capacity)
      BY <1>7 DEF ReservePlaces, ReservedPlaces
    <2>2. PendingPlaces <= counted /\ counted \in Nat /\ Quantity[o] \in Nat
      BY <2>1, CheckoutAssumption DEF PlacesInv, OtherTypes, CountInv
    <2>3. CASE status' = status
      <3>1. PendingPlaces' = PendingPlaces
        BY <2>1, <2>3 DEF PendingPlaces, Places, Reserving
      <3> QED
        BY <1>1, <1>2, <2>1, <2>3, <3>1 DEF placeVars, grantVars, PlacesInv,
           OtherTypes, CountInv, PlacesNotOversold
    <2>4. CASE /\ status' = [status EXCEPT ![o] = "pending"]
               /\ ~(confirmed + counted + GrantPlaces + Quantity[o] > Capacity)
      <3>1. Reserving' \in {Reserving, Reserving \cup {o}}
        <4>1. \A x \in Orders \ {o} : status'[x] = status[x]
          BY <2>4 DEF Inv, Types
        <4>2. \A x \in EventOrders \ {o} : x \in Reserving' <=> x \in Reserving
          BY <2>1, <4>1, CheckoutAssumption DEF Reserving
        <4>3. o \in Reserving => o \in Reserving'
          BY <2>1, <2>4 DEF Reserving, Inv, Types
        <4>4. Reserving \subseteq EventOrders /\ Reserving' \subseteq EventOrders
          BY DEF Reserving
        <4> QED
          BY <4>2, <4>3, <4>4
      <3>2. PendingPlaces' <= PendingPlaces + Quantity[o] /\ PendingPlaces' \in Nat
        BY <3>1, Takes, PlacesTypeNext DEF Inv
      <3>3. confirmed' + PendingPlaces' + GrantPlaces' <= Capacity
        <4>1. confirmed + counted + GrantPlaces + Quantity[o] <= Capacity
          BY <1>3, <2>2, <2>4, CheckoutAssumption
        <4>2. PendingPlaces' <= counted + Quantity[o]
          BY <1>3, <2>2, <3>2
        <4>3. Capacity \in Nat
          BY CheckoutAssumption
        <4>4. confirmed + PendingPlaces' + GrantPlaces <= Capacity
          <5>1. \A c, k, g, q, p, cap \in Int :
                   c + k + g + q <= cap /\ p <= k + q => c + p + g <= cap
            OBVIOUS
          <5>2. /\ {confirmed, counted, GrantPlaces} \subseteq Int
                /\ Quantity[o] \in Int /\ PendingPlaces' \in Int
                /\ Capacity \in Int
            BY <1>3, <2>2, <3>2, <4>3
          <5> QED
            BY <4>1, <4>2, <5>1, <5>2
        <4> QED
          BY <1>2, <4>4
      <3>4. PlacesNotOversold'
        BY <3>3 DEF PlacesNotOversold
      <3> QED
        BY <1>1, <2>1, <3>4 DEF placeVars, grantVars, PlacesInv, OtherTypes,
           CountInv
    <2> QED
      BY <2>1, <2>3, <2>4
  <1>8. CASE MarkCreationFailed(o) \/ MarkCheckoutSessionFailed(o) \/ Lapse(o)
    <2>1. /\ UNCHANGED <<locker, counted, review>>
          /\ \/ UNCHANGED <<status, lapsed>>
             \/ /\ status[o] = "pending" /\ UNCHANGED lapsed
                /\ status' = [status EXCEPT ![o] = "failed"]
             \/ lapsed' = lapsed \cup {o} /\ UNCHANGED status
      BY <1>8 DEF MarkCreationFailed, MarkCheckoutSessionFailed, Lapse, requestVars
    <2>2. PendingPlaces' <= PendingPlaces /\ PendingPlaces' \in Nat
      <3>1. CASE UNCHANGED <<status, lapsed>>
        BY <1>3, <3>1 DEF PendingPlaces, Places, Reserving
      <3>2. CASE /\ status[o] = "pending" /\ UNCHANGED lapsed
                 /\ status' = [status EXCEPT ![o] = "failed"]
        <4>1. Reserving' = Reserving \ {o}
          BY <3>2 DEF Reserving, Inv, Types
        <4> QED
          BY <4>1, Frees DEF Inv
      <3>3. CASE lapsed' = lapsed \cup {o} /\ UNCHANGED status
        <4>1. Reserving' = Reserving \ {o}
          BY <3>3 DEF Reserving
        <4> QED
          BY <4>1, Frees DEF Inv
      <3> QED
        BY <2>1, <3>1, <3>2, <3>3
    <2>3. OnTime' => OnTime
      BY <2>1, PaidByFulfilment DEF OnTime, PlacesInv, OtherTypes
    <2>4. Promised' <= Promised
      <3>1. Promised' = confirmed + PendingPlaces' + GrantPlaces
        BY <1>2 DEF Promised
      <3> QED
        BY <1>3, <2>2, <3>1 DEF Promised
    <2>5. PlacesNotOversold'
      BY <2>3, <2>4, NoMorePromised DEF Inv, PlacesInv
    <2>6. CountInv'
      BY <1>3, <2>1, <2>2 DEF CountInv, PlacesInv, OtherTypes
    <2> QED
      BY <1>1, <2>1, <2>5, <2>6 DEF placeVars, grantVars, PlacesInv, OtherTypes
  <1> QED
    BY <1>4, <1>5, <1>6, <1>7, <1>8 DEF RequestStep, CreateCheckout

\* A paid order is no longer reserving, and frees its places if it paid in time.
LEMMA PaymentFrees ==
    ASSUME Types, OtherTypes, NEW o \in Orders, status[o] = "pending",
           status' = [status EXCEPT ![o] = "paid"], UNCHANGED lapsed
    PROVE  /\ PendingPlaces' <= PendingPlaces /\ PendingPlaces' \in Nat
           /\ OnTime' => OnTime
           /\ OnTime' /\ o \in EventOrders =>
                 PendingPlaces' + Quantity[o] = PendingPlaces
  <1>1. Reserving' = Reserving \ {o}
    BY DEF Reserving, Types
  <1>2. OnTime' => OnTime /\ o \notin lapsed
    BY DEF OnTime, Types, OtherTypes
  <1>3. OnTime' /\ o \in EventOrders => o \in Reserving
    BY <1>2 DEF Reserving
  <1> QED
    BY <1>1, <1>2, <1>3, Frees

\* A payment for places of a grant: what the order reserved, the grant promises.
LEMMA PaidPlaces ==
    ASSUME Inv, Types', PlacesInv, NEW o \in Orders, NEW b \in Orders,
           o \in EventOrders <=> b \in EventOrders, status[o] = "pending",
           status' = [status EXCEPT ![o] = "paid"],
           quantity' = [quantity EXCEPT ![b] = @ + Quantity[o]],
           UNCHANGED <<lapsed, locker, counted, confirmed, enrolled, redeemed,
                       revoked, review, started>>
    PROVE  PlacesInv'
  <1>1. /\ PendingPlaces' <= PendingPlaces /\ PendingPlaces' \in Nat
        /\ OnTime' => OnTime
        /\ OnTime' /\ o \in EventOrders =>
              PendingPlaces' + Quantity[o] = PendingPlaces
    BY PaymentFrees DEF Inv, PlacesInv
  <1>2. /\ Quantity[o] \in Int /\ PendingPlaces \in Int /\ GrantPlaces \in Int
        /\ PendingPlaces' \in Int /\ GrantPlaces' \in Int /\ confirmed \in Int
    <2>1. Quantity[o] \in Int
      BY CheckoutAssumption
    <2>2. /\ PendingPlaces \in Int /\ GrantPlaces \in Int
          /\ PendingPlaces' \in Int /\ GrantPlaces' \in Int
      BY PlacesType, PlacesTypeNext DEF Inv
    <2> QED
      BY <2>1, <2>2 DEF Inv, Types
  <1>3. /\ Unredeemed[b] \in Int /\ Unredeemed'[b] = Unredeemed[b] + Quantity[o]
        /\ \A x \in Orders \ {b} : Unredeemed'[x] = Unredeemed[x]
    BY <1>2 DEF Inv, Types, Unredeemed
  <1>4. GrantPlaces' <= GrantPlaces + (IF o \in EventOrders THEN Quantity[o] ELSE 0)
    <2>1. GrantPlaces' = IF b \in EventOrders \ revoked
                         THEN GrantPlaces - Unredeemed[b] + Unredeemed'[b]
                         ELSE GrantPlaces
      BY <1>3, GrantChanges DEF Inv
    <2>2. CASE b \in EventOrders \ revoked
      <3>1. \A g, u, q \in Int : g - u + (u + q) <= g + q
        OBVIOUS
      <3>2. GrantPlaces - Unredeemed[b] + (Unredeemed[b] + Quantity[o])
               <= GrantPlaces + Quantity[o]
        BY <1>2, <1>3, <3>1
      <3> QED
        BY <1>3, <2>1, <2>2, <3>2
    <2>3. CASE b \notin EventOrders \ revoked
      <3>1. \A g, q \in Int : q >= 0 => g <= g + q /\ g <= g + 0
        OBVIOUS
      <3>2. Quantity[o] >= 0
        BY CheckoutAssumption
      <3> QED
        BY <1>2, <2>1, <2>3, <3>1, <3>2
    <2> QED
      BY <2>2, <2>3
  <1>5. OnTime' => Promised' <= Promised
    <2> SUFFICES ASSUME OnTime' PROVE Promised' <= Promised
      OBVIOUS
    <2>1. PendingPlaces' + GrantPlaces' <= PendingPlaces + GrantPlaces
      <3>1. CASE o \in EventOrders
        <4>1. \A p, q, g, h \in Int : h <= g + q => p + h <= p + q + g
          OBVIOUS
        <4>2. GrantPlaces' <= GrantPlaces + Quantity[o]
          BY <1>4, <3>1
        <4>3. PendingPlaces' + GrantPlaces' <= PendingPlaces' + Quantity[o] + GrantPlaces
          BY <1>1, <1>2, <4>1, <4>2
        <4> QED
          BY <1>1, <3>1, <4>3
      <3>2. CASE o \notin EventOrders
        <4>1. \A p, q, g, h \in Int : p <= q /\ h <= g => p + h <= q + g
          OBVIOUS
        <4>2. GrantPlaces' <= GrantPlaces
          BY <1>2, <1>4, <3>2
        <4> QED
          BY <1>1, <1>2, <4>1, <4>2
      <3> QED
        BY <3>1, <3>2
    <2>2. \A c, p, q, g, h \in Int : p + h <= q + g => c + p + h <= c + q + g
      OBVIOUS
    <2>3. confirmed + PendingPlaces' + GrantPlaces'
              <= confirmed + PendingPlaces + GrantPlaces
      BY <1>2, <2>1, <2>2
    <2> QED
      BY <2>3 DEF Promised
  <1>6. PlacesNotOversold'
    BY <1>1, <1>5, NoMorePromised DEF Inv, PlacesInv
  <1>7. CountInv'
    BY <1>1, <1>2 DEF CountInv, PlacesInv, OtherTypes
  <1> QED
    BY <1>6, <1>7 DEF PlacesInv, OtherTypes

\* The fulfilment of a bulk order or of an extension promises no more places.
LEMMA BulkPlaces ==
    ASSUME Inv, Inv', PlacesInv, NEW o \in Orders,
           FulfillBulkPurchase(o) \/ FulfillExtension(o)
    PROVE  PlacesInv'
  <1>1. /\ status[o] = "pending" /\ status' = [status EXCEPT ![o] = "paid"]
        /\ UNCHANGED <<lapsed, locker, counted, confirmed, enrolled, redeemed,
                       revoked, review, started>>
    BY DEF FulfillBulkPurchase, FulfillExtension, Fulfillable, requestVars, placeVars
  <1>2. CASE FulfillBulkPurchase(o)
    <2>1. /\ Kind[o] = "bulk_purchase"
          /\ quantity' = [quantity EXCEPT ![o] = Quantity[o]]
      BY <1>2 DEF FulfillBulkPurchase
    <2>2. quantity[o] + Quantity[o] = Quantity[o]
      BY <1>1, <2>1, CheckoutAssumption DEF Inv, GrantInv
    <2>3. quantity' = [quantity EXCEPT ![o] = @ + Quantity[o]]
      BY <2>1, <2>2
    <2> QED
      BY <1>1, <2>3, PaidPlaces DEF Inv
  <1>3. CASE FulfillExtension(o)
    <2>1. /\ Kind[o] = "capacity_extension"
          /\ quantity' = [quantity EXCEPT ![Base[o]] = @ + Quantity[o]]
      BY <1>3 DEF FulfillExtension
    <2>2. Base[o] \in Orders /\ (o \in EventOrders <=> Base[o] \in EventOrders)
      BY <2>1, CheckoutAssumption
    <2> QED
      BY <1>1, <2>1, <2>2, PaidPlaces DEF Inv
  <1> QED
    BY <1>2, <1>3

\* The fulfilment of a ticket turns reserved places into a confirmed one.
LEMMA TicketPlaces ==
    ASSUME Inv, Inv', PlacesInv, NEW o \in Orders, FulfillEventRegistration(o)
    PROVE  PlacesInv'
  <1>1. /\ status[o] = "pending" /\ status' = [status EXCEPT ![o] = "paid"]
        /\ Kind[o] = "event_registration"
        /\ UNCHANGED <<lapsed, locker, counted, enrolled, quantity, redeemed,
                       revoked, started>>
        /\ confirmed' \in {confirmed, confirmed + 1}
        /\ review' \in {review, review \cup {o}}
    BY DEF FulfillEventRegistration, Fulfillable, IssueConfirmedRegistration,
           requestVars, grantVars
  <1>2. /\ PendingPlaces' <= PendingPlaces
        /\ OnTime' => OnTime
        /\ OnTime' => PendingPlaces' + Quantity[o] = PendingPlaces
    BY <1>1, PaymentFrees, CheckoutAssumption DEF Inv, PlacesInv
  <1>3. /\ PendingPlaces \in Int /\ PendingPlaces' \in Int
        /\ GrantPlaces \in Int /\ GrantPlaces' = GrantPlaces
        /\ confirmed \in Int /\ confirmed' \in Int /\ confirmed' <= confirmed + 1
    <2>1. GrantPlaces' = GrantPlaces
      BY <1>1 DEF GrantPlaces, Unredeemed
    <2>2. /\ PendingPlaces \in Int /\ PendingPlaces' \in Int /\ GrantPlaces \in Int
      BY PlacesType, PlacesTypeNext DEF Inv
    <2> QED
      BY <1>1, <2>1, <2>2 DEF Inv, Types
  <1>4. OnTime' => Promised' <= Promised
    <2>1. \A c, d, p, q, k, g \in Int :
             p + k = q /\ k >= 1 /\ d <= c + 1 => d + p + g <= c + q + g
      OBVIOUS
    <2>2. Quantity[o] \in Int /\ Quantity[o] >= 1
      BY CheckoutAssumption
    <2>3. OnTime' => confirmed' + PendingPlaces' + GrantPlaces
                        <= confirmed + PendingPlaces + GrantPlaces
      BY <1>2, <1>3, <2>1, <2>2
    <2> QED
      BY <1>3, <2>3 DEF Promised
  <1>5. PlacesNotOversold'
    BY <1>2, <1>4, NoMorePromised DEF Inv, PlacesInv
  <1>6. CountInv'
    BY <1>1, <1>2, <1>3 DEF CountInv, PlacesInv, OtherTypes
  <1> QED
    BY <1>1, <1>5, <1>6 DEF PlacesInv, OtherTypes

\* A step that changes no order and no place of the event's grants, and confirms
\* nobody more.
LEMMA NothingPromised ==
    ASSUME Inv, Inv', PlacesInv, UNCHANGED <<locker, counted, revoked>>,
           Reserving' = Reserving, OnTime' => OnTime, confirmed' <= confirmed,
           \A x \in EventOrders : Unredeemed'[x] = Unredeemed[x]
    PROVE  CountInv' /\ PlacesNotOversold'
  <1>1. PendingPlaces' = PendingPlaces
    BY DEF PendingPlaces, Places
  <1>2. GrantPlaces' = GrantPlaces
    <2>1. IsFiniteSet(EventOrders \ revoked)
      BY CheckoutAssumption, FS_Subset
    <2>2. SumFunctionOnSet(Unredeemed', EventOrders \ revoked)
              = SumFunctionOnSet(Unredeemed, EventOrders \ revoked)
      BY <2>1, SumSame
    <2> QED
      BY <2>2 DEF GrantPlaces
  <1>3. Promised' <= Promised
    <2>1. \A c, d, p, g \in Int : d <= c => d + p + g <= c + p + g
      OBVIOUS
    <2>2. /\ PendingPlaces \in Int /\ GrantPlaces \in Int
          /\ confirmed \in Int /\ confirmed' \in Int
      BY PlacesType DEF Inv, Types
    <2>3. confirmed' + PendingPlaces + GrantPlaces
              <= confirmed + PendingPlaces + GrantPlaces
      BY <2>1, <2>2
    <2> QED
      BY <1>1, <1>2, <2>3 DEF Promised
  <1> QED
    BY <1>1, <1>3, NoMorePromised DEF Inv, PlacesInv, CountInv

\* An individual purchase concerns the course.
LEMMA PurchasePlaces ==
    ASSUME Inv, Inv', PlacesInv, NEW o \in Orders, FulfillIndividualPurchase(o)
    PROVE  PlacesInv'
  <1>1. /\ status[o] = "pending" /\ status' = [status EXCEPT ![o] = "paid"]
        /\ Kind[o] = "individual_purchase"
        /\ UNCHANGED <<lapsed, locker, counted, confirmed, revoked, started>>
        /\ enrolled' \in {enrolled, enrolled \cup {Buyer[o]}}
        /\ review' \in {review, review \cup {o}}
        /\ quantity' \in {quantity, [quantity EXCEPT ![o] = 1]}
        /\ redeemed' \in {redeemed, [redeemed EXCEPT ![o] = 1]}
    BY DEF FulfillIndividualPurchase, Fulfillable, requestVars
  <1>2. o \notin EventOrders /\ Buyer[o] \in Users /\ EventOrders \subseteq Orders
    BY <1>1, CheckoutAssumption
  <1>3. Reserving' = Reserving
    BY <1>1, <1>2 DEF Reserving, Inv, Types
  <1>4. \A x \in EventOrders : Unredeemed'[x] = Unredeemed[x]
    <2>1. \A x \in Orders \ {o} : /\ quantity'[x] = quantity[x]
                                  /\ redeemed'[x] = redeemed[x]
      BY <1>1 DEF Inv, Types
    <2> QED
      BY <1>2, <2>1 DEF Unredeemed
  <1>5. OnTime' => OnTime
    BY <1>1, PaymentFrees DEF Inv, PlacesInv
  <1>6. confirmed' <= confirmed
    BY <1>1 DEF Inv, Types
  <1>7. CountInv' /\ PlacesNotOversold'
    BY <1>1, <1>3, <1>4, <1>5, <1>6, NothingPromised
  <1> QED
    BY <1>1, <1>2, <1>7 DEF PlacesInv, OtherTypes

\* A redeemed code moves one place from the grant to the confirmed ones.
LEMMA RedeemPlaces ==
    ASSUME Inv, Inv', PlacesInv, NEW b \in Orders, NEW u \in Users,
           NEW k \in codes[b], RedeemAccessCode(u, b, k)
    PROVE  PlacesInv'
  <1>1. /\ UNCHANGED <<lapsed, locker, counted, status, quantity, revoked, review,
                       started>>
        /\ redeemed' = [redeemed EXCEPT ![b] = @ + 1] /\ b \notin revoked
        /\ enrolled' \in {enrolled, enrolled \cup {u}}
    BY DEF RedeemAccessCode, Redeemable, requestVars
  <1>2. Reserving' = Reserving /\ (OnTime' => OnTime)
    BY <1>1 DEF Reserving, OnTime
  <1>3. CASE b \notin EventOrders
    <2>1. \A x \in EventOrders : Unredeemed'[x] = Unredeemed[x]
      BY <1>1, <1>3, CheckoutAssumption DEF Unredeemed, Inv, Types
    <2>2. confirmed' <= confirmed
      BY <1>3 DEF RedeemAccessCode, Inv, Types
    <2>3. CountInv' /\ PlacesNotOversold'
      BY <1>1, <1>2, <2>1, <2>2, NothingPromised DEF OnTime
    <2> QED
      BY <1>1, <2>3 DEF PlacesInv, OtherTypes
  <1>4. CASE b \in EventOrders
    <2>1. confirmed' = confirmed + 1 /\ confirmed \in Int
      BY <1>4 DEF RedeemAccessCode, IssueConfirmedRegistration, Inv, Types
    <2>2. /\ Unredeemed[b] \in Int /\ Unredeemed'[b] = Unredeemed[b] - 1
          /\ \A x \in Orders \ {b} : Unredeemed'[x] = Unredeemed[x]
      BY <1>1 DEF Unredeemed, Inv, Types
    <2>3. PendingPlaces' = PendingPlaces
      BY <1>2 DEF PendingPlaces, Places
    <2>4. PendingPlaces \in Int /\ GrantPlaces \in Int
      BY PlacesType DEF Inv
    <2>5. GrantPlaces' = GrantPlaces - 1
      <3>1. GrantPlaces' = GrantPlaces - Unredeemed[b] + Unredeemed'[b]
        BY <1>1, <1>4, <2>2, GrantChanges DEF Inv
      <3>2. \A g, v \in Int : g - v + (v - 1) = g - 1
        OBVIOUS
      <3>3. GrantPlaces - Unredeemed[b] + (Unredeemed[b] - 1) = GrantPlaces - 1
        BY <2>2, <2>4, <3>2
      <3> QED
        BY <2>2, <3>1, <3>3
    <2>6. Promised' <= Promised
      <3>1. \A c, p, g \in Int : c + 1 + p + (g - 1) <= c + p + g
        OBVIOUS
      <3>2. confirmed + 1 + PendingPlaces + (GrantPlaces - 1)
                <= confirmed + PendingPlaces + GrantPlaces
        BY <2>1, <2>4, <3>1
      <3> QED
        BY <2>1, <2>3, <2>5, <3>2 DEF Promised
    <2>7. PlacesNotOversold'
      BY <1>1, <2>6, NoMorePromised DEF Inv, PlacesInv, OnTime
    <2> QED
      BY <1>1, <2>3, <2>7 DEF PlacesInv, OtherTypes, CountInv
  <1> QED
    BY <1>3, <1>4

\* A revoked grant gives its places back.
LEMMA RevokePlaces ==
    ASSUME Inv, Inv', PlacesInv, NEW b \in Orders, RevokeGrant(b)
    PROVE  PlacesInv'
  <1>1. /\ UNCHANGED <<lapsed, locker, counted, status, confirmed, enrolled,
                       quantity, redeemed, review, started>>
        /\ revoked' = revoked \cup {b} /\ b \notin revoked
    BY DEF RevokeGrant, requestVars, placeVars
  <1>2. PendingPlaces' = PendingPlaces
    BY <1>1 DEF PendingPlaces, Places, Reserving
  <1>3. /\ PendingPlaces \in Int /\ GrantPlaces \in Int /\ GrantPlaces' \in Int
        /\ confirmed \in Int
    BY PlacesType, PlacesTypeNext DEF Inv, Types
  <1>4. GrantPlaces' <= GrantPlaces
    <2> DEFINE S == EventOrders \ revoked
    <2>1. Unredeemed' = Unredeemed
      BY <1>1 DEF Unredeemed
    <2>2. CASE b \in EventOrders
      <3>1. /\ IsFiniteSet(S) /\ b \in S
            /\ \A x \in S : Unredeemed[x] \in Int
        BY <1>1, <2>2, CheckoutAssumption, FS_Subset DEF Unredeemed, Inv, Types
      <3>2. SumFunctionOnSet(Unredeemed, S)
                = Unredeemed[b] + SumFunctionOnSet(Unredeemed, S \ {b})
        <4> HIDE DEF S
        <4> QED
          BY <3>1, SumTakeOut
      <3>3. EventOrders \ revoked' = S \ {b}
        BY <1>1
      <3>4. GrantPlaces = Unredeemed[b] + GrantPlaces'
        BY <2>1, <3>2, <3>3 DEF GrantPlaces
      <3>5. Unredeemed[b] \in Int /\ Unredeemed[b] >= 0
        <4>1. /\ redeemed[b] <= quantity[b]
              /\ redeemed[b] \in Nat /\ quantity[b] \in Nat
          BY DEF Inv, Types, CodesMatchPlaces
        <4> QED
          BY <4>1 DEF Unredeemed
      <3>6. \A g, h, v \in Int : g = v + h /\ v >= 0 => h <= g
        OBVIOUS
      <3> QED
        BY <1>3, <3>4, <3>5, <3>6
    <2>3. CASE b \notin EventOrders
      <3>1. EventOrders \ revoked' = EventOrders \ revoked
        BY <1>1, <2>3
      <3>2. GrantPlaces' = GrantPlaces
        BY <2>1, <3>1 DEF GrantPlaces
      <3> QED
        BY <1>3, <3>2
    <2> QED
      BY <2>2, <2>3
  <1>5. Promised' <= Promised
    <2>1. \A c, p, g, h \in Int : h <= g => c + p + h <= c + p + g
      OBVIOUS
    <2>2. confirmed + PendingPlaces + GrantPlaces'
              <= confirmed + PendingPlaces + GrantPlaces
      BY <1>3, <1>4, <2>1
    <2> QED
      BY <1>1, <1>2, <2>2 DEF Promised
  <1>6. PlacesNotOversold'
    BY <1>1, <1>5, NoMorePromised DEF Inv, PlacesInv, OnTime
  <1> QED
    BY <1>1, <1>2, <1>6 DEF PlacesInv, OtherTypes, CountInv

\* A step that concerns registrations and the clock alone.
LEMMA OtherPlaces ==
    ASSUME Inv, Inv', PlacesInv,
           (\E u \in Users : WithdrawRegistration(u)) \/ EventStarts \/ UNCHANGED vars
    PROVE  PlacesInv'
  <1>1. /\ UNCHANGED <<lapsed, locker, counted, status, quantity, redeemed,
                       revoked, review, enrolled>>
        /\ confirmed' = confirmed
           \/ confirmed' = (IF confirmed = 0 THEN 0 ELSE confirmed - 1)
        /\ started' \in {started, TRUE}
    BY DEF WithdrawRegistration, EventStarts, vars, requestVars, grantVars
  <1>2. Reserving' = Reserving /\ Unredeemed' = Unredeemed /\ (OnTime' => OnTime)
    BY <1>1 DEF Reserving, Unredeemed, OnTime
  <1>3. confirmed' <= confirmed
    BY <1>1 DEF Inv, Types
  <1>4. CountInv' /\ PlacesNotOversold'
    BY <1>1, <1>2, <1>3, NothingPromised
  <1> QED
    BY <1>1, <1>4 DEF PlacesInv, OtherTypes

\* Every step keeps the promised places.
LEMMA NextPlaces == Inv /\ Inv' /\ PlacesInv /\ [Next]_vars => PlacesInv'
  <1> SUFFICES ASSUME Inv, Inv', PlacesInv, [Next]_vars PROVE PlacesInv'
    OBVIOUS
  <1>1. CASE \E o \in Orders : RequestStep(o)
    BY <1>1, RequestPlaces
  <1>2. CASE \E o \in Orders : FulfillEventRegistration(o)
    BY <1>2, TicketPlaces
  <1>3. CASE \E o \in Orders : FulfillIndividualPurchase(o)
    BY <1>3, PurchasePlaces
  <1>4. CASE \E o \in Orders : FulfillBulkPurchase(o) \/ FulfillExtension(o)
    BY <1>4, BulkPlaces
  <1>5. CASE \E o \in Orders, u \in Users : \E k \in codes[o] :
                RedeemAccessCode(u, o, k)
    BY <1>5, RedeemPlaces
  <1>6. CASE \E o \in Orders : RevokeGrant(o)
    BY <1>6, RevokePlaces
  <1>7. CASE (\E u \in Users : WithdrawRegistration(u)) \/ EventStarts
             \/ UNCHANGED vars
    BY <1>7, OtherPlaces
  <1> QED
    BY <1>1, <1>2, <1>3, <1>4, <1>5, <1>6, <1>7, NextCases

\* Initially nothing is promised.
LEMMA InitPlaces == Init => PlacesInv
  <1> SUFFICES ASSUME Init PROVE PlacesInv
    OBVIOUS
  <1>1. PendingPlaces = 0
    <2>1. Reserving = {}
      BY CheckoutAssumption DEF Init, Reserving
    <2>2. SumFunctionOnSet(Quantity, {}) = 0
      BY SumOfPart, FS_EmptySet
    <2> QED
      BY <2>1, <2>2 DEF PendingPlaces, Places
  <1>2. GrantPlaces = 0
    <2>1. /\ IsFiniteSet(EventOrders \ revoked)
          /\ \A x \in EventOrders \ revoked : Unredeemed[x] = 0
      BY CheckoutAssumption, FS_Subset DEF Init, Unredeemed
    <2> QED
      BY <2>1, SumOfZeros DEF GrantPlaces
  <1>3. PlacesNotOversold
    BY <1>1, <1>2, CheckoutAssumption DEF Init, PlacesNotOversold
  <1> QED
    BY <1>1, <1>3 DEF Init, PlacesInv, OtherTypes, CountInv

\* Both invariants hold of every behaviour of the checkout.
THEOREM PlacesInvariance == Spec => []PlacesInv
  BY InitPlaces, NextPlaces, Invariance, PTL DEF Spec

\* No place of the event is promised twice: confirmed registrations, reservations
\* and unredeemed places of grants fit into the capacity together until a payment
\* comes in for a lapsed reservation, although a reservation counts orders and
\* grants with two statements between which webhooks commit.
THEOREM NeverOversold == Spec => []PlacesNotOversold
  <1>1. PlacesInv => PlacesNotOversold
    BY DEF PlacesInv
  <1> QED
    BY <1>1, PlacesInvariance, PTL

\* The variables have their types; the confirmed count, the counted places and
\* the places of grants never go below zero.
THEOREM TypeCorrect == Spec => []TypeOK
  <1>1. Inv /\ PlacesInv => TypeOK
    BY CheckoutAssumption DEF Inv, Types, PlacesInv, OtherTypes, TypeOK
  <1> QED
    BY <1>1, Invariance, PlacesInvariance, PTL

-----------------------------------------------------------------------------
(***************************************************************************)
(* The refunds of one order.                                               *)
(***************************************************************************)
\* Stripe's refunds, the events and the rows have their types.
RefundTypes ==
    /\ stripe \in [Refunds -> Statuses \cup {"none"}]
    /\ waiting \subseteq Events /\ acked \subseteq Events
    /\ row \in [Refunds -> Statuses \cup {"none"}] /\ orderly \in BOOLEAN

\* Stripe sent what a refund went through, and nothing from its future.
SentInv == \A e \in waiting \cup acked : Rank(e) <= Later[stripe[e[1]]]

\* No event that was acknowledged about the refund of e is later than e.
Last(e) == \A f \in acked : f[1] = e[1] => Rank(f) <= Rank(e)

\* The row of a refund shows its last acknowledged event.
LastRecorded == orderly => \A e \in acked : Last(e) => row[e[1]] = e[2]

\* An order without its payment intent has no rows.
RolledInv ==
    /\ RollUpExact
    /\ ~Fulfilled => row = [r \in Refunds |-> "none"] /\ refunded = 0

\* The inductive invariant.
RefundInv == RefundTypes /\ SentInv /\ LastRecorded /\ RolledInv

-----------------------------------------------------------------------------
\* Before the order is paid for, nothing is known of refunds.
LEMMA RefundInitInv == RefundInit => RefundInv
  BY DEF RefundInit, RefundInv, RefundTypes, SentInv, LastRecorded, RolledInv,
         RollUpExact, Fulfilled

LEMMA FulfilledInv ==
    ASSUME RefundInv, Fulfill
    PROVE  RefundInv'
  <1>1. /\ orderStatus' = "paid" /\ refunded = 0 /\ row = [r \in Refunds |-> "none"]
        /\ UNCHANGED <<stripe, waiting, acked, row, refunded, orderly>>
    BY DEF Fulfill, RefundInv, RolledInv
  <1>2. {r \in Refunds : row[r] = "succeeded"} = {}
    BY <1>1
  <1>3. Succeeded(row) = 0
    BY <1>2, SumOfPart, FS_EmptySet DEF Succeeded, Sum
  <1>4. RolledInv'
    BY <1>1, <1>3 DEF RolledInv, RollUpExact, Fulfilled, RolledUp
  <1> QED
    BY <1>1, <1>4 DEF RefundInv, RefundTypes, SentInv, LastRecorded, Last, Rank

\* A refund goes forward at Stripe.
LEMMA StripeInv ==
    ASSUME RefundInv, NEW r \in Refunds, NEW s \in Statuses,
           RefundCreated(r, s) \/ RefundUpdated(r, s)
    PROVE  RefundInv'
  <1>1. /\ stripe' = [stripe EXCEPT ![r] = s] /\ waiting' = waiting \cup {<<r, s>>}
        /\ UNCHANGED <<acked, orderly, orderStatus, row, refunded>>
        /\ Later[stripe[r]] <= Later[s]
    BY DEF RefundCreated, RefundUpdated, Changes, orderVars, Later, Statuses
  <1>2. RefundTypes /\ SentInv
    BY DEF RefundInv
  <1>3. RefundTypes'
    BY <1>1, <1>2 DEF RefundTypes, Events
  <1>4. ASSUME NEW e \in waiting' \cup acked' PROVE Rank(e) <= Later[stripe'[e[1]]]
    <2>1. CASE e = <<r, s>>
      <3>1. Rank(e) = Later[s] /\ stripe'[e[1]] = s
        BY <1>1, <1>2, <2>1 DEF Rank, RefundTypes
      <3> QED
        BY <3>1 DEF Later, Statuses
    <2>2. CASE e \in waiting \cup acked
      <3>1. /\ e[1] \in Refunds /\ e[2] \in Statuses
            /\ stripe[e[1]] \in Statuses \cup {"none"}
        BY <1>2, <2>2 DEF RefundTypes, Events
      <3>2. Rank(e) \in Nat /\ Later[stripe[e[1]]] \in Nat /\ Later[s] \in Nat
        BY <3>1 DEF Rank, Later, Statuses
      <3>3. stripe'[e[1]] = IF e[1] = r THEN s ELSE stripe[e[1]]
        BY <1>1, <1>2, <3>1 DEF RefundTypes
      <3>4. Rank(e) <= Later[stripe[e[1]]]
        BY <1>2, <2>2 DEF SentInv
      <3>5. Later[stripe[e[1]]] <= Later[stripe'[e[1]]]
        BY <1>1, <3>2, <3>3
      <3>6. Later[stripe'[e[1]]] \in Nat
        BY <3>2, <3>3
      <3> QED
        BY <3>2, <3>4, <3>5, <3>6
    <2> QED
      BY <1>1, <2>1, <2>2
  <1>5. SentInv'
    BY <1>4 DEF SentInv, Rank
  <1>6. LastRecorded' /\ RolledInv'
    BY <1>1 DEF RefundInv, LastRecorded, Last, Rank, RolledInv, RollUpExact,
                Fulfilled
  <1> QED
    BY <1>3, <1>5, <1>6 DEF RefundInv

\* An event is acknowledged; the row shows it unless the order has no intent yet.
LEMMA RecordedLast ==
    ASSUME RefundInv, NEW e \in Events, Acknowledge(e),
           row' \in [Refunds -> Statuses \cup {"none"}],
           \A r \in Refunds : r # e[1] => row'[r] = row[r],
           Fulfilled => row'[e[1]] = e[2]
    PROVE  LastRecorded'
  <1>1. /\ acked' = acked \cup {e} /\ orderly' = (orderly /\ Timely(e))
        /\ acked \subseteq Events
    BY DEF Acknowledge, RefundInv, RefundTypes
  <1> SUFFICES ASSUME orderly', NEW f \in acked', Last(f)' PROVE row'[f[1]] = f[2]
    BY DEF LastRecorded
  <1>2. /\ orderly /\ Fulfilled
        /\ \A g \in acked : g[1] = e[1] => Rank(g) <= Rank(e)
    BY <1>1 DEF Timely
  <1>3. \A g \in acked \cup {e} : g[1] = f[1] => Rank(g) <= Rank(f)
    BY <1>1 DEF Last, Rank
  <1>4. /\ f \in Events /\ f[1] \in Refunds /\ f[2] \in Statuses
        /\ e[1] \in Refunds /\ e[2] \in Statuses
    BY <1>1 DEF Events
  <1>5. CASE f[1] = e[1]
    <2>1. Rank(e) <= Rank(f) /\ Rank(f) <= Rank(e)
      BY <1>1, <1>2, <1>3, <1>5, <1>4 DEF Rank, Later, Statuses
    <2>2. f[2] = e[2]
      BY <1>4, <2>1 DEF Rank, Later, Statuses
    <2> QED
      BY <1>2, <1>5, <2>2
  <1>6. CASE f[1] # e[1]
    <2>1. f \in acked /\ Last(f)
      BY <1>1, <1>3, <1>6 DEF Last
    <2>2. row[f[1]] = f[2]
      BY <1>2, <2>1 DEF RefundInv, LastRecorded
    <2> QED
      BY <1>4, <1>6, <2>2
  <1> QED
    BY <1>5, <1>6

LEMMA WebhookInv ==
    ASSUME RefundInv, NEW e \in Events, RecordStripeRefund(e)
    PROVE  RefundInv'
  <1>1. /\ Acknowledge(e) /\ e \in waiting \cup acked /\ UNCHANGED stripe
        /\ waiting' = waiting \ {e} /\ acked' = acked \cup {e}
        /\ orderly' = (orderly /\ Timely(e))
    BY DEF RecordStripeRefund, RefundIgnored, RefundAlreadyRecorded, RefundRecorded,
           Acknowledge, Deliverable
  <1>2. RefundTypes /\ e[1] \in Refunds /\ e[2] \in Statuses
    BY DEF RefundInv, Events
  <1>3. /\ row' \in [Refunds -> Statuses \cup {"none"}]
        /\ \A r \in Refunds : r # e[1] => row'[r] = row[r]
        /\ Fulfilled => row'[e[1]] = e[2]
    BY <1>2 DEF RecordStripeRefund, RefundIgnored, RefundAlreadyRecorded,
           RefundRecorded, Upsert, orderVars, RefundTypes
  <1>4. RefundTypes'
    BY <1>1, <1>2, <1>3 DEF RefundTypes, Timely
  <1>5. SentInv'
    BY <1>1 DEF RefundInv, SentInv, Rank
  <1>6. LastRecorded'
    BY <1>1, <1>3, RecordedLast
  <1>7. RolledInv'
    <2>1. CASE RefundIgnored(e) \/ RefundAlreadyRecorded(e)
      BY <2>1 DEF RefundInv, RolledInv, RollUpExact, RefundIgnored,
             RefundAlreadyRecorded,
             orderVars, Fulfilled
    <2>2. CASE RefundRecorded(e)
      <3>1. refunded' = Succeeded(row)' /\ orderStatus' = RolledUp(refunded)'
        BY <2>2 DEF RefundRecorded, Succeeded
      <3>2. Fulfilled'
        BY <3>1 DEF RolledUp, Fulfilled
      <3> QED
        BY <3>1, <3>2 DEF RolledInv, RollUpExact
    <2> QED
      BY <2>1, <2>2 DEF RecordStripeRefund
  <1> QED
    BY <1>4, <1>5, <1>6, <1>7 DEF RefundInv

LEMMA RefundNextInv == RefundInv /\ [RefundNext]_refundVars => RefundInv'
  <1> SUFFICES ASSUME RefundInv, [RefundNext]_refundVars PROVE RefundInv'
    OBVIOUS
  <1>1. CASE Fulfill
    BY <1>1, FulfilledInv
  <1>2. CASE \E r \in Refunds, s \in Statuses :
                RefundCreated(r, s) \/ RefundUpdated(r, s)
    BY <1>2, StripeInv
  <1>3. CASE \E e \in Events : RecordStripeRefund(e)
    BY <1>3, WebhookInv
  <1>4. CASE UNCHANGED refundVars
    BY <1>4 DEF refundVars, RefundInv, RefundTypes, SentInv, LastRecorded, Last, Rank,
           RolledInv, RollUpExact, Fulfilled
  <1> QED
    BY <1>1, <1>2, <1>3, <1>4 DEF RefundNext

LEMMA RefundInvariance == RefundSpec => []RefundInv
  BY RefundInitInv, RefundNextInv, PTL DEF RefundSpec

-----------------------------------------------------------------------------
\* The results.

\* refundedCents is always the sum of the succeeded refund rows, and the order's
\* status follows from it, in whatever order and however often events come.
THEOREM OrderTellsItsRefunds == RefundSpec => []RollUpExact
  <1>1. RefundInv => RollUpExact
    BY DEF RefundInv, RolledInv
  <1> QED
    BY <1>1, RefundInvariance, PTL

\* While the events of a refund come in order, the row shows its latest change once
\* the event of that change is acknowledged, and a repeated event does no harm.
THEOREM AcknowledgedStays == RefundSpec => []AcknowledgedIsRecorded
  <1>1. ASSUME RefundInv PROVE AcknowledgedIsRecorded
    <2> SUFFICES ASSUME orderly, NEW r \in Refunds, <<r, stripe[r]>> \in acked
                 PROVE  row[r] = stripe[r]
      BY DEF AcknowledgedIsRecorded
    <2>1. Last(<<r, stripe[r]>>)
      BY <1>1 DEF RefundInv, SentInv, Last, Rank
    <2> QED
      BY <1>1, <2>1 DEF RefundInv, LastRecorded
  <1> QED
    BY <1>1, RefundInvariance, PTL

\* The total and the status of the order.
RefundedInv ==
    /\ refunded \in 0..Total
    /\ orderStatus \in {"pending", "paid", "partially_refunded", "refunded"}

LEMMA SucceededType ==
    ASSUME NEW rows
    PROVE  Succeeded(rows) \in Nat
  <1>1. /\ IsFiniteSet({r \in Refunds : rows[r] = "succeeded"})
        /\ \A r \in Refunds : Amount[r] \in Nat
    BY RefundAssumption, FS_Subset
  <1> QED
    BY <1>1, SumType DEF Succeeded, Sum

LEMMA NextRefunded ==
    ASSUME RefundedInv, [RefundNext]_refundVars
    PROVE  RefundedInv'
  <1>1. CASE \E e \in Events : RefundRecorded(e)
    <2>1. PICK e \in Events : RefundRecorded(e)
      BY <1>1
    <2>2. /\ refunded' = Succeeded(Upsert(e))
          /\ Succeeded(Upsert(e)) <= Total
      BY <2>1 DEF RefundRecorded
    <2>3. Succeeded(Upsert(e)) \in Nat /\ Total \in Nat
      BY SucceededType, RefundAssumption
    <2>4. orderStatus' \in {"paid", "partially_refunded", "refunded"}
      BY <2>1 DEF RefundRecorded, RolledUp
    <2> QED
      BY <2>2, <2>3, <2>4 DEF RefundedInv
  <1>2. CASE /\ UNCHANGED refunded
             /\ orderStatus' \in {orderStatus, "paid"}
    BY <1>2 DEF RefundedInv
  <1> QED
    BY <1>1, <1>2 DEF RefundNext, refundVars, Fulfill, RefundCreated, RefundUpdated,
       Changes, RecordStripeRefund, RefundIgnored, RefundAlreadyRecorded,
       orderVars

\* The refunds, their events and the rows have their types, and refundedCents is
\* never negative and never exceeds what was paid.
THEOREM RefundsTyped == RefundSpec => []RefundTypeOK
  <1>1. RefundInit => RefundedInv
    BY RefundAssumption DEF RefundInit, RefundedInv
  <1>2. RefundedInv /\ [RefundNext]_refundVars => RefundedInv'
    BY NextRefunded
  <1>3. RefundInv /\ RefundedInv => RefundTypeOK
    BY DEF RefundInv, RefundTypes, RefundedInv, RefundTypeOK
  <1> QED
    BY <1>1, <1>2, <1>3, RefundInvariance, PTL DEF RefundSpec
=============================================================================
