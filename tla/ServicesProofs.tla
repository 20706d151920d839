---------------------------- MODULE ServicesProofs ----------------------------
(***************************************************************************)
(* Theorems about the services taken one by one (Services): the stock is   *)
(* conserved and the answers agree (StockIsSound, DecidedOnce), the outbox *)
(* with its one relay keeps each order's messages in order and gives them  *)
(* their effect once (RelayIsSound), and a key makes one order             *)
(* (KeysAreKept).  Each rests on an inductive invariant of its instance:   *)
(* StockInv, RelayInv, IntakeInv.                                          *)
(***************************************************************************)
EXTENDS Services, FiniteSetFacts

-----------------------------------------------------------------------------
(* The stock of the inventory.                                             *)

\* What the reservations of the orders S hold of a SKU.
Held(table, sku, S) == Inventory!MapThenSumSet(LAMBDA o : table[o].items[sku], S)

\* The orders of S are finitely many, each with a quantity of sku.
Quantities(table, sku, S) == IsFiniteSet(S) /\ \A o \in S : table[o].items[sku] \in Nat

\* F adds up what the reservations hold.
SumsUp(F, table, sku, S) ==
    /\ F \in [SUBSET S -> Nat]
    /\ Adds(F, [o \in S |-> table[o].items[sku]], S)
    /\ Held(table, sku, S) = F[S]

\* What is held is the sum of the quantities in the rows.
LEMMA HeldIsSum ==
    ASSUME NEW table, NEW sku, NEW S, Quantities(table, sku, S)
    PROVE  \E F : SumsUp(F, table, sku, S)
<1> DEFINE g == [o \in S |-> table[o].items[sku]]
           Unfold(iter) == [s \in SUBSET S |->
                            IF s = {} THEN 0 ELSE table[Chosen(s)].items[sku] + iter[s \ {Chosen(s)}]]
           sum == CHOOSE iter : iter = Unfold(iter)
<1>1. PICK F \in [SUBSET S -> Nat] : Adds(F, g, S)
  <2>1. IsFiniteSet(S) /\ \A x \in S : g[x] \in Nat
    BY DEF Quantities
  <2> HIDE DEF g
  <2> QED
    BY <2>1, SumExists
<1>2. \A s \in SUBSET S : s # {} => g[Chosen(s)] = table[Chosen(s)].items[sku]
  BY DEF Chosen
<1>3. \A G : G = Unfold(G) <=> Adds(G, g, S)
  <2> SUFFICES ASSUME NEW G
               PROVE  Unfold(G) = [s \in SUBSET S |->
                                   IF s = {} THEN 0 ELSE g[Chosen(s)] + G[s \ {Chosen(s)}]]
    BY DEF Adds
  <2> HIDE DEF g
  <2> QED
    BY <1>2
<1>4. sum = Unfold(sum)
  <2>1. F = Unfold(F)
    BY <1>1, <1>3
  <2> HIDE DEF Unfold
  <2> QED BY <2>1
<1>5. Held(table, sku, S) = sum[S]
  BY DEF Held, Inventory!MapThenSumSet, Inventory!MapThenFoldSet, Chosen
<1>6. Adds(sum, g, S)
  BY <1>3, <1>4
<1>7. sum[S] = F[S]
  <2>1. IsFiniteSet(S) /\ S \in SUBSET S /\ \A x \in S : g[x] = g[x]
    BY DEF Quantities
  <2> HIDE DEF g, sum
  <2> QED BY <1>1, <1>6, <2>1, SumUnique
<1> QED
  <2> HIDE DEF sum
  <2> QED
    BY <1>1, <1>5, <1>7 DEF SumsUp

\* What is held is a quantity.
LEMMA HeldType ==
    ASSUME NEW table, NEW sku, NEW S, Quantities(table, sku, S)
    PROVE  Held(table, sku, S) \in Nat
<1>1. PICK F : SumsUp(F, table, sku, S)
  BY HeldIsSum
<1>2. S \in SUBSET S
  OBVIOUS
<1> QED
  BY <1>1, <1>2 DEF SumsUp

\* Rows of the same quantities hold the same.
LEMMA HeldSame ==
    ASSUME NEW table, NEW after, NEW sku, NEW S, NEW T \in SUBSET S,
           Quantities(table, sku, S), Quantities(after, sku, T),
           \A o \in T : after[o].items[sku] = table[o].items[sku],
           NEW F, SumsUp(F, table, sku, S)
    PROVE  Held(after, sku, T) = F[T]
<1> DEFINE g == [o \in S |-> table[o].items[sku]]
           h == [o \in T |-> after[o].items[sku]]
<1>1. PICK G : SumsUp(G, after, sku, T)
  BY HeldIsSum
<1>2. Adds(F, g, S) /\ Adds(G, h, T)
  BY <1>1 DEF SumsUp
<1>3. (\A o \in T : g[o] = h[o]) /\ IsFiniteSet(S) /\ T \in SUBSET T
  BY DEF Quantities
<1>4. F[T] = G[T]
  <2> HIDE DEF g, h
  <2> QED BY <1>2, <1>3, SumUnique
<1> QED
  BY <1>1, <1>4 DEF SumsUp

\* Chosen reservation can be taken out of the sum.
LEMMA SumsUpWithout ==
    ASSUME NEW table, NEW sku, NEW S, Quantities(table, sku, S), NEW x \in S,
           NEW F, SumsUp(F, table, sku, S)
    PROVE  F[S] = table[x].items[sku] + F[S \ {x}]
<1> DEFINE g == [o \in S |-> table[o].items[sku]]
<1>1. (\A o \in S : g[o] \in Nat) /\ IsFiniteSet(S)
  BY DEF Quantities
<1>2. F \in [SUBSET S -> Nat] /\ Adds(F, g, S)
  BY DEF SumsUp
<1>3. S \in SUBSET S /\ x \in S
  OBVIOUS
<1>5. g[x] = table[x].items[sku]
  OBVIOUS
<1> HIDE DEF g
<1>4. F[S] = g[x] + F[S \ {x}]
  BY <1>1, <1>2, <1>3, SumWithout, SMTT(30)
<1> QED
  BY <1>4, <1>5

\* Without a reservation the others hold what they held.
LEMMA HeldWithout ==
    ASSUME NEW table, NEW after, NEW sku, NEW S, Quantities(table, sku, S), NEW x \in S,
           \A o \in S \ {x} : after[o].items[sku] = table[o].items[sku]
    PROVE  Held(table, sku, S) = table[x].items[sku] + Held(after, sku, S \ {x})
<1>1. PICK F : SumsUp(F, table, sku, S)
  BY HeldIsSum
<1>2. Quantities(after, sku, S \ {x}) /\ S \ {x} \in SUBSET S
  BY FS_Subset DEF Quantities
<1>3. Held(after, sku, S \ {x}) = F[S \ {x}]
  BY <1>1, <1>2, HeldSame
<1>4. F[S] = table[x].items[sku] + F[S \ {x}]
  BY <1>1, SumsUpWithout
<1> QED
  BY <1>1, <1>3, <1>4 DEF SumsUp

\* Two tables whose rows hold the same hold the same.
LEMMA HeldEqual ==
    ASSUME NEW table, NEW after, NEW sku, NEW S, Quantities(table, sku, S),
           \A o \in S : after[o].items[sku] = table[o].items[sku]
    PROVE  Held(after, sku, S) = Held(table, sku, S)
<1>1. PICK F : SumsUp(F, table, sku, S)
  BY HeldIsSum
<1>2. Quantities(after, sku, S) /\ S \in SUBSET S
  BY DEF Quantities
<1>3. Held(after, sku, S) = F[S]
  BY <1>1, <1>2, HeldSame
<1> QED
  BY <1>1, <1>3 DEF SumsUp

\* What the lines S of an order ask, added up.
Wanted(items, S) == Inventory!MapThenSumSet(LAMBDA n : items[n].quantity, S)

\* It is a quantity.
LEMMA WantedType ==
    ASSUME NEW items, NEW S, IsFiniteSet(S), \A n \in S : items[n].quantity \in Nat
    PROVE  Wanted(items, S) \in Nat
<1> DEFINE g == [n \in S |-> items[n].quantity]
           Unfold(iter) == [s \in SUBSET S |->
                            IF s = {} THEN 0 ELSE items[Chosen(s)].quantity + iter[s \ {Chosen(s)}]]
           sum == CHOOSE iter : iter = Unfold(iter)
<1>1. PICK F \in [SUBSET S -> Nat] : Adds(F, g, S)
  <2>1. \A x \in S : g[x] \in Nat
    OBVIOUS
  <2> HIDE DEF g
  <2> QED
    BY <2>1, SumExists
<1>2. \A s \in SUBSET S : s # {} => g[Chosen(s)] = items[Chosen(s)].quantity
  BY DEF Chosen
<1>3. \A G : G = Unfold(G) <=> Adds(G, g, S)
  <2> SUFFICES ASSUME NEW G
               PROVE  Unfold(G) = [s \in SUBSET S |->
                                   IF s = {} THEN 0 ELSE g[Chosen(s)] + G[s \ {Chosen(s)}]]
    BY DEF Adds
  <2> HIDE DEF g
  <2> QED
    BY <1>2
<1>4. sum = Unfold(sum)
  <2>1. F = Unfold(F)
    BY <1>1, <1>3
  <2> HIDE DEF Unfold
  <2> QED BY <2>1
<1>5. Wanted(items, S) = sum[S]
  BY DEF Wanted, Inventory!MapThenSumSet, Inventory!MapThenFoldSet, Chosen
<1>6. Adds(sum, g, S)
  BY <1>3, <1>4
<1>7. S \in SUBSET S /\ \A x \in S : g[x] = g[x]
  OBVIOUS
<1>8. sum[S] = F[S]
  <2> HIDE DEF g, sum
  <2> QED BY <1>1, <1>6, <1>7, SumUnique
<1>9. F[S] \in Nat
  BY <1>1, <1>7
<1> QED
  <2> HIDE DEF sum
  <2> QED
    BY <1>5, <1>8, <1>9

-----------------------------------------------------------------------------
(* The inventory's invariant.                                              *)

\* The tables of the service, typed.
Skus == DOMAIN Shelves

StockTable == [Skus -> [available: Nat, reserved: Nat]]

StockRow == [status: {"NONE", "RESERVED", "REJECTED", "RELEASED"},
             items: {Inventory!NoItems} \cup {Inventory!Requested(Lines[o]) : o \in Competing},
             noop: BOOLEAN, reason: {"NONE", "OUT_OF_STOCK", "UNKNOWN_SKU"}, attempts: 0..2]

StockReply ==
    [order: Competing, cause: CommandIds, reason: Inventory!Reason,
     type: {"inventory.reserved", "inventory.rejected", "inventory.released"}]

\* The orders whose reservation holds some of a SKU.
Holders(table, sku) ==
    {o \in Competing : table[o].status = "RESERVED" /\ sku \in DOMAIN table[o].items}

\* A reservation in force holds quantities of SKUs that exist, and at any time only
\* finitely many are.
InForce(table) ==
    /\ IsFiniteSet({o \in Competing : table[o].status = "RESERVED"})
    /\ \A o \in Competing :
         table[o].status = "RESERVED" =>
           \A sku \in DOMAIN table[o].items : sku \in Skus /\ table[o].items[sku] \in Nat

\* What is on the shelf, promised and gone is what there was.
Balanced(shelf, table) ==
    \A sku \in Skus :
        /\ shelf[sku].available + shelf[sku].reserved = Shelves[sku]
        /\ shelf[sku].reserved = Held(table, sku, Holders(table, sku))

\* What a reply says of the row it comes from, from then on.
Tells(e, row) ==
    /\ e.type = "inventory.reserved" => row.status \in {"RESERVED", "RELEASED"}
    /\ e.type = "inventory.rejected" =>
         IF e.reason = "ALREADY_COMPENSATED"
           THEN row.status = "RELEASED"
           ELSE row.status = "REJECTED" /\ row.reason = e.reason

\* The stock balances, and every answer tells what its row says or once said.
StockInv ==
    /\ stock \in StockTable
    /\ reservations \in [Competing -> StockRow]
    /\ inventoryEvents \subseteq StockReply
    /\ InForce(reservations)
    /\ Balanced(stock, reservations)
    /\ \A e \in inventoryEvents : Tells(e, reservations[e.order])

\* The holders of a SKU are finitely many and hold quantities of it.
LEMMA HoldersQuantities ==
    ASSUME NEW table, InForce(table), NEW sku
    PROVE  Quantities(table, sku, Holders(table, sku))
<1>1. IsFiniteSet(Holders(table, sku))
  <2>1. Holders(table, sku) \subseteq {o \in Competing : table[o].status = "RESERVED"}
    BY DEF Holders
  <2> QED
    BY <2>1, FS_Subset DEF InForce
<1> QED
  BY <1>1 DEF Quantities, Holders, InForce

\* A row that holds what the row before it held changes no balance.
LEMMA BalanceStays ==
    ASSUME NEW shelf, NEW table, NEW after, Balanced(shelf, table), InForce(table),
           \A o \in Competing : /\ after[o].status = "RESERVED" <=> table[o].status = "RESERVED"
                                /\ table[o].status = "RESERVED" => after[o].items = table[o].items
    PROVE  Balanced(shelf, after) /\ InForce(after)
<1>1. \A sku : Holders(after, sku) = Holders(table, sku)
  BY DEF Holders
<1>2. InForce(after)
  <2>1. {o \in Competing : after[o].status = "RESERVED"} =
        {o \in Competing : table[o].status = "RESERVED"}
    OBVIOUS
  <2> QED
    BY <2>1 DEF InForce
<1>3. ASSUME NEW sku PROVE Held(after, sku, Holders(after, sku)) = Held(table, sku, Holders(table, sku))
  <2> DEFINE S == Holders(table, sku)
  <2>1. Quantities(table, sku, S)
    BY HoldersQuantities
  <2>2. \A o \in S : after[o].items[sku] = table[o].items[sku]
    BY DEF Holders
  <2>3. Held(after, sku, S) = Held(table, sku, S)
    <3> HIDE DEF S
    <3> QED BY <2>1, <2>2, HeldEqual
  <2> QED
    BY <1>1, <2>3
<1> QED
  BY <1>2, <1>3 DEF Balanced

\* A new reservation takes from the shelves what it holds.
LEMMA BalanceReserved ==
    ASSUME NEW shelf \in StockTable, NEW table, NEW after, Balanced(shelf, table), InForce(table),
           NEW o \in Competing, table[o].status # "RESERVED", after[o].status = "RESERVED",
           \A p \in Competing \ {o} : after[p] = table[p],
           \A sku \in DOMAIN after[o].items :
              /\ sku \in Skus /\ after[o].items[sku] \in Nat
              /\ after[o].items[sku] <= shelf[sku].available
    PROVE  /\ Balanced(Inventory!Debit(shelf, after[o].items), after) /\ InForce(after)
           /\ Inventory!Debit(shelf, after[o].items) \in StockTable
<1> DEFINE items == after[o].items
           new == Inventory!Debit(shelf, items)
<1>1. /\ \A sku \in Skus : shelf[sku] \in [available: Nat, reserved: Nat]
      /\ DOMAIN shelf = Skus
  BY DEF StockTable
<1>2. \A sku \in Skus : new[sku] = IF sku \in DOMAIN items
                                     THEN [available |-> shelf[sku].available - items[sku],
                                           reserved  |-> shelf[sku].reserved + items[sku]]
                                     ELSE shelf[sku]
  BY <1>1 DEF Inventory!Debit
<1>3. new \in StockTable
  <2>1. new = [sku \in Skus |-> new[sku]]
    BY <1>1 DEF Inventory!Debit
  <2>2. ASSUME NEW sku \in Skus PROVE new[sku] \in [available: Nat, reserved: Nat]
    <3>1. shelf[sku] \in [available: Nat, reserved: Nat]
      BY <1>1
    <3>2. CASE sku \in DOMAIN items
      <4>1. items[sku] \in Nat /\ items[sku] <= shelf[sku].available
        BY <3>2
      <4>2. new[sku] = [available |-> shelf[sku].available - items[sku],
                        reserved  |-> shelf[sku].reserved + items[sku]]
        BY <1>2, <3>2
      <4> HIDE DEF new, items
      <4> QED
        BY <3>1, <4>1, <4>2
    <3>3. CASE sku \notin DOMAIN items
      BY <1>2, <3>1, <3>3
    <3> QED
      BY <3>2, <3>3
  <2> HIDE DEF new
  <2> QED
    BY <2>1, <2>2 DEF StockTable
<1>4. InForce(after)
  <2>1. {p \in Competing : after[p].status = "RESERVED"} =
        {p \in Competing : table[p].status = "RESERVED"} \cup {o}
    OBVIOUS
  <2>2. IsFiniteSet({p \in Competing : after[p].status = "RESERVED"})
    BY <2>1, FS_AddElement DEF InForce
  <2> QED
    BY <2>2 DEF InForce
<1>5. ASSUME NEW sku \in Skus
      PROVE  /\ new[sku].available + new[sku].reserved = Shelves[sku]
             /\ new[sku].reserved = Held(after, sku, Holders(after, sku))
  <2> DEFINE S == Holders(after, sku)
  <2>1. Quantities(after, sku, S)
    BY <1>4, HoldersQuantities
  <2>2. shelf[sku].reserved = Held(table, sku, Holders(table, sku)) /\ shelf[sku].reserved \in Nat
        /\ shelf[sku].available \in Nat /\ shelf[sku].available + shelf[sku].reserved = Shelves[sku]
    BY <1>1 DEF Balanced
  <2>3. CASE sku \in DOMAIN items
    <3>1. S \ {o} = Holders(table, sku) /\ o \in S
      BY <2>3 DEF Holders
    <3>2. \A p \in S \ {o} : table[p].items[sku] = after[p].items[sku]
      BY DEF Holders
    <3>3. Held(after, sku, S) = items[sku] + Held(table, sku, S \ {o})
      <4> HIDE DEF S
      <4> QED BY <2>1, <3>1, <3>2, HeldWithout
    <3>4. items[sku] \in Nat
      BY <2>3
    <3>5. /\ new[sku].available = shelf[sku].available - items[sku]
          /\ new[sku].reserved = shelf[sku].reserved + items[sku]
      <4> HIDE DEF new
      <4>1. new[sku] = [available |-> shelf[sku].available - items[sku],
                        reserved  |-> shelf[sku].reserved + items[sku]]
        BY <1>2, <2>3
      <4> QED BY <4>1
    <3>6. new[sku].reserved = Held(after, sku, S)
      <4>1. Held(table, sku, S \ {o}) = shelf[sku].reserved
        BY <2>2, <3>1
      <4> HIDE DEF new, S, items
      <4> QED
        BY <2>2, <3>3, <3>4, <3>5, <4>1
    <3> HIDE DEF new, items
    <3> QED
      BY <2>2, <3>4, <3>5, <3>6
  <2>4. CASE sku \notin DOMAIN items
    <3>1. S = Holders(table, sku)
      BY <2>4 DEF Holders
    <3>2. \A p \in S : table[p].items[sku] = after[p].items[sku]
      BY <3>1 DEF Holders
    <3>3. Held(table, sku, S) = Held(after, sku, S)
      <4> HIDE DEF S
      <4> QED BY <2>1, <3>2, HeldEqual
    <3> HIDE DEF new
    <3> QED
      BY <1>2, <2>2, <2>4, <3>1, <3>3
  <2> QED
    BY <2>3, <2>4
<1>6. Balanced(new, after)
  <2> HIDE DEF new
  <2> QED BY <1>5 DEF Balanced
<1> QED
  BY <1>3, <1>4, <1>6

\* A reservation given back gives back what it held, no less for GREATEST(.., 0).
LEMMA BalanceReleased ==
    ASSUME NEW shelf \in StockTable, NEW table, NEW after, Balanced(shelf, table), InForce(table),
           NEW o \in Competing, table[o].status = "RESERVED", after[o].status # "RESERVED",
           \A p \in Competing \ {o} : after[p] = table[p]
    PROVE  /\ Balanced(Inventory!Credit(shelf, table[o].items), after) /\ InForce(after)
           /\ Inventory!Credit(shelf, table[o].items) \in StockTable
<1> DEFINE items == table[o].items
           new == Inventory!Credit(shelf, items)
<1>1. /\ \A sku \in Skus : shelf[sku] \in [available: Nat, reserved: Nat]
      /\ DOMAIN shelf = Skus
  BY DEF StockTable
<1>2. \A sku \in Skus : new[sku] = IF sku \in DOMAIN items
                                     THEN [available |-> shelf[sku].available + items[sku],
                                           reserved  |-> IF shelf[sku].reserved > items[sku]
                                                           THEN shelf[sku].reserved - items[sku]
                                                           ELSE 0]
                                     ELSE shelf[sku]
  BY <1>1 DEF Inventory!Credit
<1>3. \A sku \in DOMAIN items : items[sku] \in Nat
  BY DEF InForce
<1>4. new \in StockTable
  <2>1. new = [sku \in Skus |-> new[sku]]
    BY <1>1 DEF Inventory!Credit
  <2>2. ASSUME NEW sku \in Skus PROVE new[sku] \in [available: Nat, reserved: Nat]
    <3>1. shelf[sku] \in [available: Nat, reserved: Nat]
      BY <1>1
    <3>2. CASE sku \in DOMAIN items
      <4>1. items[sku] \in Nat
        BY <1>3, <3>2
      <4>2. new[sku] = [available |-> shelf[sku].available + items[sku],
                        reserved  |-> IF shelf[sku].reserved > items[sku]
                                        THEN shelf[sku].reserved - items[sku] ELSE 0]
        BY <1>2, <3>2
      <4> HIDE DEF new, items
      <4> QED
        BY <3>1, <4>1, <4>2
    <3>3. CASE sku \notin DOMAIN items
      BY <1>2, <3>1, <3>3
    <3> QED
      BY <3>2, <3>3
  <2> HIDE DEF new
  <2> QED
    BY <2>1, <2>2 DEF StockTable
<1>5. InForce(after)
  <2>1. {p \in Competing : after[p].status = "RESERVED"} \subseteq
        {p \in Competing : table[p].status = "RESERVED"}
    OBVIOUS
  <2>2. IsFiniteSet({p \in Competing : after[p].status = "RESERVED"})
    BY <2>1, FS_Subset DEF InForce
  <2> QED
    BY <2>2 DEF InForce
<1>6. ASSUME NEW sku \in Skus
      PROVE  /\ new[sku].available + new[sku].reserved = Shelves[sku]
             /\ new[sku].reserved = Held(after, sku, Holders(after, sku))
  <2> DEFINE S == Holders(table, sku)
  <2>1. Quantities(table, sku, S)
    BY HoldersQuantities
  <2>2. shelf[sku].reserved = Held(table, sku, S) /\ shelf[sku].reserved \in Nat
        /\ shelf[sku].available \in Nat /\ shelf[sku].available + shelf[sku].reserved = Shelves[sku]
    BY <1>1 DEF Balanced
  <2>3. CASE sku \in DOMAIN items
    <3>1. S \ {o} = Holders(after, sku) /\ o \in S
      BY <2>3 DEF Holders
    <3>2. \A p \in S \ {o} : after[p].items[sku] = table[p].items[sku]
      BY DEF Holders
    <3>3. Held(table, sku, S) = items[sku] + Held(after, sku, S \ {o})
      <4> HIDE DEF S
      <4> QED BY <2>1, <3>1, <3>2, HeldWithout
    <3>4. Quantities(after, sku, Holders(after, sku))
      BY <1>5, HoldersQuantities
    <3>5. Held(after, sku, S \ {o}) \in Nat
      BY <3>1, <3>4, HeldType
    <3>6. items[sku] \in Nat
      BY <1>3, <2>3
    <3>7. /\ new[sku].available = shelf[sku].available + items[sku]
          /\ new[sku].reserved = IF shelf[sku].reserved > items[sku]
                                   THEN shelf[sku].reserved - items[sku] ELSE 0
      <4> HIDE DEF new
      <4>1. new[sku] = [available |-> shelf[sku].available + items[sku],
                        reserved  |-> IF shelf[sku].reserved > items[sku]
                                        THEN shelf[sku].reserved - items[sku] ELSE 0]
        BY <1>2, <2>3
      <4> QED BY <4>1
    <3>8. shelf[sku].reserved = items[sku] + Held(after, sku, S \ {o})
      BY <2>2, <3>3
    <3>9. new[sku].reserved = Held(after, sku, S \ {o})
      <4> HIDE DEF new, S, items
      <4> QED
        BY <3>5, <3>6, <3>7, <3>8
    <3>10. new[sku].available + new[sku].reserved = Shelves[sku]
      <4> HIDE DEF new, S, items
      <4> QED
        BY <2>2, <3>5, <3>6, <3>7, <3>8, <3>9
    <3> QED
      BY <3>1, <3>9, <3>10
  <2>4. CASE sku \notin DOMAIN items
    <3>1. S = Holders(after, sku)
      BY <2>4 DEF Holders
    <3>2. \A p \in S : after[p].items[sku] = table[p].items[sku]
      BY <3>1 DEF Holders
    <3>3. Held(after, sku, S) = Held(table, sku, S)
      <4> HIDE DEF S
      <4> QED BY <2>1, <3>2, HeldEqual
    <3> HIDE DEF new
    <3> QED
      BY <1>2, <2>2, <2>4, <3>1, <3>3
  <2> QED
    BY <2>3, <2>4
<1>7. Balanced(new, after)
  <2> HIDE DEF new
  <2> QED BY <1>6 DEF Balanced
<1> QED
  BY <1>4, <1>5, <1>7

\* What an order asks is a quantity of each of its SKUs.
LEMMA RequestedType ==
    ASSUME NEW o \in Competing, NEW sku \in DOMAIN Inventory!Requested(Lines[o])
    PROVE  Inventory!Requested(Lines[o])[sku] \in Nat
<1> DEFINE S == {n \in DOMAIN Lines[o] : Lines[o][n].sku = sku}
<1>1. IsFiniteSet(S) /\ \A n \in S : Lines[o][n].quantity \in Nat
  <2>1. /\ IsFiniteSet(DOMAIN Lines[o])
        /\ \A n \in DOMAIN Lines[o] : Lines[o][n].quantity \in Nat
    BY PartAssumptions, Zenon DEF Inventory!InventoryAssumption, Inventory!IsFiniteSet,
       IsFiniteSet
  <2>2. S \subseteq DOMAIN Lines[o]
    OBVIOUS
  <2> HIDE DEF S
  <2> QED
    BY <2>1, <2>2, FS_Subset
<1>2. Wanted(Lines[o], S) \in Nat
  <2> HIDE DEF S
  <2> QED BY <1>1, WantedType
<1>3. Inventory!Requested(Lines[o])[sku] = Wanted(Lines[o], S)
  BY DEF Inventory!Requested, Wanted
<1> QED
  BY <1>2, <1>3

\* The row of an order's first reserve: what it asks, if every SKU has it, or a reason.
LEMMA ExecuteRow ==
    ASSUME NEW o \in Competing, NEW mode, NEW row, row = Inventory!Execute(o, mode)
    PROVE  /\ row \in StockRow /\ row.items = Inventory!Requested(Lines[o])
           /\ row.status \in {"RESERVED", "REJECTED"}
           /\ row.status = "RESERVED" =>
                \A sku \in DOMAIN row.items :
                   sku \in DOMAIN stock /\ ~ stock[sku].available < row.items[sku]
<1> DEFINE requested == Inventory!Requested(Lines[o])
           reason == IF mode = "OUT_OF_STOCK" THEN mode ELSE Inventory!Check(requested, stock)
<1>1. /\ reason \in {"NONE", "OUT_OF_STOCK", "UNKNOWN_SKU"}
      /\ reason = "NONE" =>
           \A sku \in DOMAIN requested :
              sku \in DOMAIN stock /\ ~ stock[sku].available < requested[sku]
  BY DEF Inventory!Check
<1>2. row = IF reason = "NONE" THEN Inventory!Reservation("RESERVED", requested, FALSE, "NONE")
                               ELSE Inventory!Reservation("REJECTED", requested, FALSE, reason)
  BY DEF Inventory!Execute
<1>3. requested \in {Inventory!Requested(Lines[q]) : q \in Competing}
  OBVIOUS
<1> HIDE DEF requested, reason
<1>4. row.items = requested
  BY <1>2 DEF Inventory!Reservation
<1>5. row \in StockRow /\ row.status \in {"RESERVED", "REJECTED"}
  BY <1>1, <1>2, <1>3 DEF Inventory!Reservation, StockRow
<1>6. row.status = "RESERVED" => reason = "NONE"
  BY <1>2 DEF Inventory!Reservation
<1> QED
  BY <1>1, <1>4, <1>5, <1>6 DEF requested

\* A row that was decided stays so.
Decided(row, new) ==
    /\ row.status = "RELEASED" => new = row
    /\ row.status = "REJECTED" => new.status = "REJECTED" /\ new.reason = row.reason
    /\ row.status = "RESERVED" => new.status \in {"RESERVED", "RELEASED"}

\* What a command does to its order's row, and what is answered from it.
HandledRow(cmd, new) ==
    /\ new \in StockRow
    /\ reservations' = [reservations EXCEPT ![cmd.order] = new]
    /\ Decided(reservations[cmd.order], new)
    /\ \/ inventoryEvents' = inventoryEvents
       \/ \E e \in StockReply :
            e.order = cmd.order /\ Tells(e, new) /\ inventoryEvents' = inventoryEvents \cup {e}

\* A reserve after the release refuses.
LEMMA LateReserveHandled ==
    ASSUME StockInv, NEW cmd \in Inventory!Commands, Inventory!ReserveAfterRelease(cmd)
    PROVE  stock' = stock /\ HandledRow(cmd, reservations[cmd.order])
<1> DEFINE o == cmd.order
           e == [order |-> o, cause |-> cmd.id, type |-> "inventory.rejected",
                 reason |-> "ALREADY_COMPENSATED"]
<1>1. o \in Competing /\ cmd.id \in CommandIds
  BY DEF Inventory!Commands
<1>2. reservations[o].status = "RELEASED" /\ UNCHANGED <<stock, reservations>>
      /\ inventoryEvents' = inventoryEvents \cup {e}
  BY DEF Inventory!ReserveAfterRelease, Inventory!Publish, Inventory!ReplyTo
<1>3. e \in StockReply /\ Tells(e, reservations[o]) /\ e.order = o
  BY <1>1, <1>2 DEF StockReply, Tells, Inventory!Reason
<1>4. /\ reservations[o] \in StockRow
      /\ reservations' = [reservations EXCEPT ![o] = reservations[o]]
  BY <1>1, <1>2 DEF StockInv
<1> HIDE DEF e
<1> QED
  BY <1>2, <1>3, <1>4 DEF HandledRow, Decided

\* A reserve decides the order's row, or answers from it.
LEMMA ReserveHandled ==
    ASSUME StockInv, NEW cmd \in Inventory!Commands, NEW mode \in Inventory!InventoryMode,
           Inventory!Reserve(cmd, mode)
    PROVE  \E new :
              /\ HandledRow(cmd, new)
              /\ \/ stock' = stock /\ (new.status = "RESERVED" <=> reservations[cmd.order].status = "RESERVED")
                    /\ (new.status = "RESERVED" => new.items = reservations[cmd.order].items)
                 \/ /\ reservations[cmd.order].status # "RESERVED" /\ new.status = "RESERVED"
                    /\ stock' = Inventory!Debit(stock, new.items)
                    /\ \A sku \in DOMAIN new.items :
                         /\ sku \in Skus /\ new.items[sku] \in Nat
                         /\ new.items[sku] <= stock[sku].available
<1> DEFINE o == cmd.order
           first == reservations[o].status = "NONE"
           row == IF first THEN Inventory!Execute(o, mode) ELSE reservations[o]
           attempts == Inventory!CountAttempt(row.attempts)
           new == [row EXCEPT !.attempts = attempts]
           type == IF row.status = "RESERVED" THEN "inventory.reserved" ELSE "inventory.rejected"
           reason == IF row.status = "RESERVED" THEN "NONE" ELSE row.reason
           e == [order |-> o, cause |-> cmd.id, type |-> type, reason |-> reason]
<1>1. o \in Competing /\ cmd.id \in CommandIds /\ reservations[o] \in StockRow
      /\ reservations[o].status # "RELEASED"
  BY DEF Inventory!Commands, StockInv, Inventory!Reserve
<1>2. row \in StockRow /\ row.status \in {"RESERVED", "REJECTED"}
  <2>1. CASE first
    BY <1>1, <2>1, ExecuteRow
  <2>2. CASE ~ first
    BY <1>1, <2>2 DEF StockRow
  <2> QED
    BY <2>1, <2>2
<1>3. /\ reservations' = [reservations EXCEPT ![o] = new]
      /\ stock' = IF first /\ row.status = "RESERVED" THEN Inventory!Debit(stock, row.items) ELSE stock
      /\ inventoryEvents' = inventoryEvents \/ inventoryEvents' = inventoryEvents \cup {e}
  BY DEF Inventory!Reserve, Inventory!Publish, Inventory!ReplyTo
<1>4. ~ first => row = reservations[o]
  OBVIOUS
<1>5. first /\ row.status = "RESERVED" =>
        \A sku \in DOMAIN row.items :
           sku \in Skus /\ row.items[sku] \in Nat /\ row.items[sku] <= stock[sku].available
  <2> SUFFICES ASSUME first, row.status = "RESERVED", NEW sku \in DOMAIN row.items
               PROVE  sku \in Skus /\ row.items[sku] \in Nat /\ row.items[sku] <= stock[sku].available
    OBVIOUS
  <2>1. row.items = Inventory!Requested(Lines[o])
    BY <1>1, ExecuteRow
  <2>2. sku \in DOMAIN stock /\ ~ stock[sku].available < row.items[sku]
    BY <1>1, ExecuteRow
  <2>3. row.items[sku] \in Nat
    BY <1>1, <2>1, RequestedType
  <2>4. DOMAIN stock = Skus /\ stock \in StockTable
    BY DEF StockInv, StockTable
  <2>5. stock[sku].available \in Nat
    BY <2>2, <2>4 DEF StockTable
  <2> HIDE DEF row
  <2> QED
    BY <2>2, <2>3, <2>4, <2>5
<1> HIDE DEF row
<1>6. attempts \in 0..2
  BY <1>2 DEF StockRow, Inventory!CountAttempt
<1> HIDE DEF attempts
<1>7. /\ new \in StockRow /\ new.status = row.status /\ new.items = row.items
      /\ new.reason = row.reason
  BY <1>2, <1>6 DEF StockRow
<1> HIDE DEF new
<1>8. Decided(reservations[o], new)
  BY <1>1, <1>4, <1>7 DEF Decided
<1>9. e \in StockReply /\ e.order = o /\ Tells(e, new)
  BY <1>1, <1>2, <1>7 DEF StockReply, Tells, StockRow, Inventory!Reason
<1>10. HandledRow(cmd, new)
  <2> HIDE DEF e
  <2> QED BY <1>3, <1>7, <1>8, <1>9 DEF HandledRow
<1>11. CASE first /\ row.status = "RESERVED"
  BY <1>3, <1>5, <1>7, <1>10, <1>11
<1>12. CASE ~ (first /\ row.status = "RESERVED")
  BY <1>1, <1>2, <1>3, <1>4, <1>7, <1>10, <1>12
<1> QED
  BY <1>11, <1>12

\* A release undoes the order's reservation, once, or bars it.
LEMMA ReleaseHandled ==
    ASSUME StockInv, NEW cmd \in Inventory!Commands, Inventory!Release(cmd)
    PROVE  \E new :
              /\ HandledRow(cmd, new)
              /\ new.status # "RESERVED"
              /\ stock' = IF reservations[cmd.order].status = "RESERVED"
                            THEN Inventory!Credit(stock, reservations[cmd.order].items) ELSE stock
<1> DEFINE o == cmd.order
           row == reservations[o]
           new == CASE row.status = "NONE"     -> Inventory!Tombstone
                    [] row.status = "RESERVED" -> [row EXCEPT !.status = "RELEASED", !.noop = FALSE]
                    [] OTHER                   -> row
           e == [order |-> o, cause |-> cmd.id, type |-> "inventory.released", reason |-> "NONE"]
<1>1. o \in Competing /\ cmd.id \in CommandIds /\ reservations \in [Competing -> StockRow]
  BY DEF Inventory!Commands, StockInv
<1>2. row \in StockRow
  BY <1>1
<1>3. /\ reservations' = [reservations EXCEPT ![o] = new]
      /\ stock' = IF row.status = "RESERVED" THEN Inventory!Credit(stock, row.items) ELSE stock
      /\ inventoryEvents' = inventoryEvents \cup {e}
  <2>1. CASE row.status = "NONE"
    BY <2>1 DEF Inventory!Release, Inventory!Publish, Inventory!ReplyTo
  <2>2. CASE row.status = "RESERVED"
    BY <1>1, <2>2 DEF Inventory!Release, Inventory!Publish, Inventory!ReplyTo, StockRow
  <2>3. CASE row.status \notin {"NONE", "RESERVED"}
    <3>1. reservations' = reservations /\ new = row
      BY <2>3 DEF Inventory!Release
    <3>2. reservations = [reservations EXCEPT ![o] = row]
      BY <1>1
    <3>3. /\ stock' = IF row.status = "RESERVED" THEN Inventory!Credit(stock, row.items) ELSE stock
          /\ inventoryEvents' = inventoryEvents \cup {e}
      BY DEF Inventory!Release, Inventory!Publish, Inventory!ReplyTo
    <3> QED
      BY <3>1, <3>2, <3>3
  <2> QED
    BY <2>1, <2>2, <2>3
<1>4. new \in StockRow /\ Decided(row, new) /\ new.status # "RESERVED"
  <2>1. CASE row.status = "NONE"
    <3>1. new = Inventory!Tombstone
      BY <2>1
    <3> HIDE DEF new, row
    <3> QED
      BY <2>1, <3>1 DEF Inventory!Tombstone, Inventory!Reservation, StockRow, Decided
  <2>2. CASE row.status = "RESERVED"
    <3>1. new = [row EXCEPT !.status = "RELEASED", !.noop = FALSE]
      BY <2>2
    <3> HIDE DEF new, row
    <3> QED
      BY <1>2, <2>2, <3>1 DEF StockRow, Decided
  <2>3. CASE row.status \notin {"NONE", "RESERVED"}
    <3>1. new = row
      BY <2>3
    <3> HIDE DEF new, row
    <3> QED
      BY <1>2, <2>3, <3>1 DEF StockRow, Decided
  <2> QED
    BY <2>1, <2>2, <2>3
<1>5. e \in StockReply /\ e.order = o /\ Tells(e, new)
  BY <1>1 DEF StockReply, Tells, Inventory!Reason
<1> HIDE DEF new, e
<1>6. HandledRow(cmd, new)
  BY <1>3, <1>4, <1>5 DEF HandledRow
<1> QED
  BY <1>3, <1>4, <1>6

\* A handled command keeps the balance of the shelves.
LEMMA StockHandled ==
    ASSUME StockInv, NEW cmd \in Inventory!Commands, NEW mode \in Inventory!InventoryMode,
           Inventory!Handle(cmd, mode)
    PROVE  \E new : /\ HandledRow(cmd, new)
                    /\ \E shelf, table :
                         /\ shelf \in StockTable /\ stock' = shelf /\ reservations' = table
                         /\ Balanced(shelf, table) /\ InForce(table)
<1> DEFINE o == cmd.order
<1>1. /\ o \in Competing /\ stock \in StockTable /\ reservations \in [Competing -> StockRow]
      /\ Balanced(stock, reservations) /\ InForce(reservations)
  BY DEF Inventory!Commands, StockInv
<1>2. ASSUME NEW new, HandledRow(cmd, new), stock' = stock,
             new.status = "RESERVED" <=> reservations[o].status = "RESERVED",
             new.status = "RESERVED" => new.items = reservations[o].items
      PROVE  \E shelf, table :
                /\ shelf \in StockTable /\ stock' = shelf /\ reservations' = table
                /\ Balanced(shelf, table) /\ InForce(table)
  <2> DEFINE after == [reservations EXCEPT ![o] = new]
  <2>1. \A p \in Competing :
          /\ after[p].status = "RESERVED" <=> reservations[p].status = "RESERVED"
          /\ reservations[p].status = "RESERVED" => after[p].items = reservations[p].items
    BY <1>1, <1>2
  <2>2. reservations' = after
    BY <1>2 DEF HandledRow
  <2> HIDE DEF after
  <2>3. Balanced(stock, after) /\ InForce(after)
    BY <1>1, <2>1, BalanceStays
  <2> QED
    BY <1>1, <1>2, <2>2, <2>3
<1>3. CASE Inventory!ReserveAfterRelease(cmd)
  <2>1. stock' = stock /\ HandledRow(cmd, reservations[o])
    BY <1>3, LateReserveHandled
  <2> QED
    BY <1>2, <2>1
<1>4. CASE Inventory!Reserve(cmd, mode)
  <2>1. PICK new :
          /\ HandledRow(cmd, new)
          /\ \/ /\ stock' = stock
                /\ new.status = "RESERVED" <=> reservations[o].status = "RESERVED"
                /\ new.status = "RESERVED" => new.items = reservations[o].items
             \/ /\ reservations[o].status # "RESERVED" /\ new.status = "RESERVED"
                /\ stock' = Inventory!Debit(stock, new.items)
                /\ \A sku \in DOMAIN new.items :
                     /\ sku \in Skus /\ new.items[sku] \in Nat
                     /\ new.items[sku] <= stock[sku].available
    BY <1>4, ReserveHandled
  <2>2. CASE stock' = stock /\ (new.status = "RESERVED" <=> reservations[o].status = "RESERVED")
             /\ (new.status = "RESERVED" => new.items = reservations[o].items)
    BY <1>2, <2>1, <2>2
  <2>3. CASE /\ reservations[o].status # "RESERVED" /\ new.status = "RESERVED"
             /\ stock' = Inventory!Debit(stock, new.items)
             /\ \A sku \in DOMAIN new.items :
                  /\ sku \in Skus /\ new.items[sku] \in Nat
                  /\ new.items[sku] <= stock[sku].available
    <3> DEFINE after == [reservations EXCEPT ![o] = new]
    <3>1. after[o] = new /\ \A p \in Competing \ {o} : after[p] = reservations[p]
      BY <1>1
    <3>2. reservations' = after
      BY <2>1 DEF HandledRow
    <3> HIDE DEF after
    <3>3. /\ Balanced(Inventory!Debit(stock, after[o].items), after) /\ InForce(after)
          /\ Inventory!Debit(stock, after[o].items) \in StockTable
      BY <1>1, <2>3, <3>1, BalanceReserved
    <3> QED
      BY <2>1, <2>3, <3>1, <3>2, <3>3
  <2> QED
    BY <2>1, <2>2, <2>3
<1>5. CASE Inventory!Release(cmd)
  <2>1. PICK new :
          /\ HandledRow(cmd, new) /\ new.status # "RESERVED"
          /\ stock' = IF reservations[o].status = "RESERVED"
                        THEN Inventory!Credit(stock, reservations[o].items) ELSE stock
    BY <1>5, ReleaseHandled
  <2>2. CASE reservations[o].status # "RESERVED"
    BY <1>2, <2>1, <2>2
  <2>3. CASE reservations[o].status = "RESERVED"
    <3> DEFINE after == [reservations EXCEPT ![o] = new]
    <3>1. after[o] = new /\ \A p \in Competing \ {o} : after[p] = reservations[p]
      BY <1>1
    <3>2. reservations' = after
      BY <2>1 DEF HandledRow
    <3> HIDE DEF after
    <3>3. /\ Balanced(Inventory!Credit(stock, reservations[o].items), after) /\ InForce(after)
          /\ Inventory!Credit(stock, reservations[o].items) \in StockTable
      BY <1>1, <2>1, <2>3, <3>1, BalanceReleased
    <3> QED
      BY <2>1, <2>3, <3>2, <3>3
  <2> QED
    BY <2>1, <2>2, <2>3
<1> QED
  BY <1>3, <1>4, <1>5 DEF Inventory!Handle

\* Nothing on order, nothing answered, the shelves full.
LEMMA StockInit == Inventory!Init => StockInv
<1> SUFFICES ASSUME Inventory!Init PROVE StockInv
  OBVIOUS
<1>1. Inventory!NoReservation \in StockRow /\ Inventory!NoReservation.status = "NONE"
  BY DEF Inventory!NoReservation, Inventory!Reservation, StockRow
<1>2. reservations = [o \in Competing |-> Inventory!NoReservation] /\ inventoryEvents = {}
  BY DEF Inventory!Init
<1>3. \A sku \in Skus : Shelves[sku] \in Nat
  BY PartAssumptions DEF Inventory!InventoryAssumption, Skus
<1>4. /\ stock = [sku \in Skus |-> [available |-> Shelves[sku], reserved |-> 0]]
      /\ stock \in StockTable
  BY <1>3 DEF Inventory!Init, StockTable, Skus
<1>5. {o \in Competing : reservations[o].status = "RESERVED"} = {}
  BY <1>1, <1>2
<1>6. InForce(reservations)
  BY <1>5, FS_EmptySet DEF InForce
<1>7. ASSUME NEW sku \in Skus PROVE Held(reservations, sku, Holders(reservations, sku)) = 0
  <2>1. Holders(reservations, sku) = {}
    BY <1>5 DEF Holders
  <2>2. PICK F : SumsUp(F, reservations, sku, {})
    <3>1. Quantities(reservations, sku, {})
      BY FS_EmptySet DEF Quantities
    <3> QED
      BY <3>1, HeldIsSum
  <2>3. F[{}] = 0
    BY <2>2 DEF SumsUp, Adds
  <2> QED
    BY <2>1, <2>2, <2>3 DEF SumsUp
<1>8. Balanced(stock, reservations)
  BY <1>3, <1>4, <1>7 DEF Balanced
<1> QED
  BY <1>1, <1>2, <1>4, <1>6, <1>8 DEF StockInv

\* Every command keeps the shelves balanced and the answers true.
LEMMA StockStep == StockInv /\ [Inventory!Next]_(Inventory!vars) => StockInv'
<1> SUFFICES ASSUME StockInv, [Inventory!Next]_(Inventory!vars) PROVE StockInv'
  OBVIOUS
<1>1. CASE UNCHANGED Inventory!vars
  BY <1>1 DEF Inventory!vars, StockInv
<1>2. ASSUME NEW cmd \in Inventory!Commands, NEW mode \in Inventory!InventoryMode,
             Inventory!Handle(cmd, mode)
      PROVE  StockInv'
  <2> DEFINE o == cmd.order
  <2>1. PICK new : /\ HandledRow(cmd, new)
                   /\ \E shelf, table :
                         /\ shelf \in StockTable /\ stock' = shelf /\ reservations' = table
                         /\ Balanced(shelf, table) /\ InForce(table)
    BY <1>2, StockHandled
  <2>2. PICK shelf, table :
             /\ shelf \in StockTable /\ stock' = shelf /\ reservations' = table
             /\ Balanced(shelf, table) /\ InForce(table)
    BY <2>1
  <2>3. o \in Competing /\ reservations \in [Competing -> StockRow]
    BY DEF Inventory!Commands, StockInv
  <2>4. /\ reservations' \in [Competing -> StockRow] /\ reservations'[o] = new
        /\ \A p \in Competing \ {o} : reservations'[p] = reservations[p]
    BY <2>1, <2>3 DEF HandledRow
  <2>5. InForce(reservations)' /\ Balanced(stock, reservations)'
    BY <2>2
  <2>6. ASSUME NEW e \in inventoryEvents PROVE e \in StockReply /\ Tells(e, reservations'[e.order])
    <3>1. e \in StockReply /\ Tells(e, reservations[e.order]) /\ e.order \in Competing
      BY DEF StockInv, StockReply
    <3>2. CASE e.order = o
      <4>1. Decided(reservations[o], new)
        BY <2>1 DEF HandledRow
      <4> QED
        BY <2>4, <3>1, <3>2, <4>1 DEF Decided, Tells
    <3>3. CASE e.order # o
      BY <2>4, <3>1, <3>3
    <3> QED
      BY <3>2, <3>3
  <2>7. ASSUME NEW e \in inventoryEvents' PROVE e \in StockReply /\ Tells(e, reservations'[e.order])
    BY <2>1, <2>4, <2>6, <2>7 DEF HandledRow
  <2> QED
    BY <2>2, <2>4, <2>5, <2>7 DEF StockInv
<1> QED
  BY <1>1, <1>2 DEF Inventory!Next

\* The inductive invariant of the inventory.
LEMMA StockInvariant == Inventory!Spec => []StockInv
BY StockInit, StockStep, PTL DEF Inventory!Spec

\* Whatever commands come, again and in whatever order, what is reserved of a SKU is
\* what the reservations in force hold, nothing is lost or sold twice, and an order's
\* answers agree with each other: for any number of orders, SKUs and commands.
THEOREM StockIsSoundAlways == Inventory!Spec => []StockIsSound
<1>1. StockInv => Inventory!StockConserved
  <2> SUFFICES ASSUME StockInv, NEW sku \in DOMAIN stock
               PROVE  /\ stock[sku].available + stock[sku].reserved = Shelves[sku]
                      /\ stock[sku].reserved =
                           Inventory!MapThenSumSet(LAMBDA o : reservations[o].items[sku],
                             {o \in Competing : /\ reservations[o].status = "RESERVED"
                                                /\ sku \in DOMAIN reservations[o].items})
    BY DEF Inventory!StockConserved
  <2>1. sku \in Skus
    BY DEF StockInv, StockTable
  <2> QED
    BY <2>1 DEF StockInv, Balanced, Held, Holders
<1>2. StockInv => Inventory!AnswersAgree
  <2> SUFFICES ASSUME StockInv, NEW e \in inventoryEvents, NEW f \in inventoryEvents,
                      e.order = f.order, e.type = "inventory.rejected"
               PROVE  /\ f.type = "inventory.reserved" => e.reason = "ALREADY_COMPENSATED"
                      /\ f.type = "inventory.rejected" =>
                           "ALREADY_COMPENSATED" \in {e.reason, f.reason} \/ e.reason = f.reason
                      /\ e.reason = "ALREADY_COMPENSATED" =>
                           reservations[e.order].status = "RELEASED"
    BY DEF Inventory!AnswersAgree
  <2>1. Tells(e, reservations[e.order]) /\ Tells(f, reservations[e.order])
    BY DEF StockInv
  <2> QED
    BY <2>1 DEF Tells
<1> QED
  BY <1>1, <1>2, StockInvariant, PTL DEF StockIsSound

\* The first command of an order decides, and a reservation given back, tombstones
\* included, is never taken again.
THEOREM DecidedOnceAlways == Inventory!Spec => DecidedOnce
<1>1. StockInv /\ [Inventory!Next]_(Inventory!vars) =>
        [\A o \in Competing :
           /\ reservations[o].status = "RELEASED" => reservations'[o] = reservations[o]
           /\ reservations[o].status = "REJECTED" => reservations'[o].status = "REJECTED"
           /\ reservations[o].status = "RESERVED" =>
                reservations'[o].status \in {"RESERVED", "RELEASED"}]_(Inventory!vars)
  <2> SUFFICES ASSUME StockInv, NEW cmd \in Inventory!Commands,
                      NEW mode \in Inventory!InventoryMode, Inventory!Handle(cmd, mode),
                      NEW o \in Competing
               PROVE  Decided(reservations[o], reservations'[o])
    BY DEF Inventory!Next, Decided
  <2>1. PICK new : HandledRow(cmd, new)
    BY StockHandled
  <2>2. cmd.order \in Competing /\ reservations \in [Competing -> StockRow]
    BY DEF Inventory!Commands, StockInv
  <2>3. CASE o = cmd.order
    BY <2>1, <2>2, <2>3 DEF HandledRow
  <2>4. CASE o # cmd.order
    <3>1. reservations'[o] = reservations[o] /\ reservations[o] \in StockRow
      BY <2>1, <2>2, <2>4 DEF HandledRow
    <3> QED
      BY <3>1 DEF Decided
  <2> QED
    BY <2>3, <2>4
<1> QED
  BY <1>1, StockInvariant, PTL DEF Inventory!Spec, DecidedOnce, Inventory!DecidedOnce

-----------------------------------------------------------------------------
(* The query of the relay.                                                 *)

\* Hence what the relay's query returns is what it says.
LEMMA FirstOfIsFirst ==
    ASSUME NEW ids, ids \subseteq Nat, IsFiniteSet(ids), NEW n \in 0..Cardinality(ids)
    PROVE  First(Relay!FirstOf(ids, n), ids, n)
<1> DEFINE Is(s) == /\ \A i, j \in 1..n : i < j => s[i] < s[j]
                    /\ \A id \in ids \ Relay!Range(s) : \A i \in 1..n : s[i] < id
           rest(s) == \A id \in ids \ {s[i] : i \in 1..n} : \A i \in 1..n : s[i] < id
<1>1. \A s \in [1..n -> ids] : Relay!Range(s) = {s[i] : i \in 1..n}
  BY DEF Relay!Range
<1>2. \E s \in [1..n -> ids] : Is(s)
  BY <1>1, FirstExists DEF First
<1>3. Relay!FirstOf(ids, n) = CHOOSE s \in [1..n -> ids] : Is(s)
  BY DEF Relay!FirstOf
<1>4. Relay!FirstOf(ids, n) \in [1..n -> ids] /\ Is(Relay!FirstOf(ids, n))
  <2> HIDE DEF Is
  <2> QED
    BY <1>2, <1>3
<1> QED
  BY <1>1, <1>4 DEF First

-----------------------------------------------------------------------------
(* The outbox, its relay and the consumer: their invariant.                *)

\* A row with a message number within the bound.
OutboxRow == [key: Keys, message: 1..MaxRows, state: {"open", "pending", "published", "aborted"}]

\* The table, and what the one replica has locked.
Ids == 1..Len(outbox)
Batch == batch[Replica]
Sending == sent[Replica]

Live(id) == outbox[id].state # "aborted"
Stored(id) == outbox[id].state \in {"pending", "published"}
In(id) == \E i \in 1..Len(topic) : topic[i] = id

RelayTypes ==
    /\ outbox \in Seq(OutboxRow)
    /\ batch \in [{Replica} -> Seq(Nat)]
    /\ sent \in [{Replica} -> SUBSET Nat]
    /\ topic \in Seq(Nat)
    /\ offset \in Nat /\ unacked \in BOOLEAN
    /\ offset <= Len(topic) /\ (unacked => offset < Len(topic))
    /\ effects \in [Keys -> Seq(Nat)]

\* The rows of one key are written one after the other, in the order of their
\* messages, each message after its predecessor; only the last may be uncommitted.
Written ==
    \A j \in Ids :
        /\ \A i \in 1..(j - 1) :
             outbox[i].key = outbox[j].key =>
               /\ outbox[i].state # "open"
               /\ Live(i) /\ Live(j) => outbox[i].message <= outbox[j].message
        /\ Live(j) /\ outbox[j].message > 1 =>
             \E i \in 1..(j - 1) :
                Live(i) /\ outbox[i].key = outbox[j].key /\ outbox[i].message = outbox[j].message - 1

\* The batch is ascending, and what a key wrote before a row of it is published, sent
\* or in the batch too.
BatchInv ==
    /\ \A i \in 1..Len(Batch) :
         Batch[i] \in Ids /\ outbox[Batch[i]].state = "pending" /\ Batch[i] \notin Sending
    /\ \A i, j \in 1..Len(Batch) : i < j => Batch[i] < Batch[j]
    /\ \A i \in 1..Len(Batch) : \A id \in 1..(Batch[i] - 1) :
         outbox[id].key = outbox[Batch[i]].key /\ Live(id) =>
            \/ outbox[id].state = "published" \/ id \in Sending
            \/ \E j \in 1..Len(Batch) : Batch[j] = id
    /\ \A id \in Sending : id \in Ids /\ outbox[id].state = "pending"

\* The partition holds committed rows, and all that were sent or marked.
TopicInv ==
    /\ \A i \in 1..Len(topic) : topic[i] \in Ids /\ Stored(topic[i])
    /\ \A id \in Sending : In(id)
    /\ \A id \in Ids : outbox[id].state = "published" => In(id)

\* No message of a key is ahead of its predecessor.
PredecessorFirst ==
    \A i \in 1..Len(topic) :
        outbox[topic[i]].message > 1 =>
            \E j \in 1..(i - 1) :
               /\ outbox[topic[j]].key = outbox[topic[i]].key
               /\ outbox[topic[j]].message = outbox[topic[i]].message - 1

\* The messages processed are those with an effect, a prefix of each key's; they
\* cover what the consumer has gone past.
ConsumerInv ==
    /\ \A k \in Keys : \A n \in 1..Len(effects[k]) : effects[k][n] = n
    /\ processed = UNION {{<<k, n>> : n \in 1..Len(effects[k])} : k \in Keys}
    /\ \A i \in 1..offset : Relay!MessageOf(topic[i]) \in processed
    /\ unacked => Relay!MessageOf(topic[offset + 1]) \in processed

\* The invariant of table, relay, partition and consumer.
RelayInv ==
    RelayTypes /\ Written /\ BatchInv /\ TopicInv /\ PredecessorFirst /\ ConsumerInv

-----------------------------------------------------------------------------
\* The rows keep their key and message, and stay committed.
RowsKept ==
    /\ outbox' \in Seq(OutboxRow) /\ Len(outbox) <= Len(outbox')
    /\ \A id \in Ids : /\ outbox'[id].key = outbox[id].key
                       /\ outbox'[id].message = outbox[id].message
                       /\ Stored(id) => outbox'[id].state \in {"pending", "published"}

\* The first of the batch: its predecessor is in the partition already.
LEMMA HeadFollows ==
    ASSUME RelayInv, Batch # <<>>
    PROVE  /\ Head(Batch) \in Ids /\ outbox[Head(Batch)].state = "pending"
           /\ outbox[Head(Batch)].message > 1 =>
                \E j \in 1..Len(topic) :
                   /\ outbox[topic[j]].key = outbox[Head(Batch)].key
                   /\ outbox[topic[j]].message = outbox[Head(Batch)].message - 1
<1> DEFINE h == Head(Batch)
<1>1. Batch \in Seq(Nat) /\ outbox \in Seq(OutboxRow) /\ Len(Batch) \in Nat /\ Len(Batch) >= 1
      /\ h = Batch[1] /\ h \in Nat
  BY DEF RelayInv, RelayTypes, Batch
<1>2. h \in Ids /\ outbox[h].state = "pending"
  BY <1>1 DEF RelayInv, BatchInv
<1>3. ASSUME outbox[h].message > 1
      PROVE  \E j \in 1..Len(topic) :
                /\ outbox[topic[j]].key = outbox[h].key
                /\ outbox[topic[j]].message = outbox[h].message - 1
  <2>1. PICK i \in 1..(h - 1) : /\ Live(i) /\ outbox[i].key = outbox[h].key
                                /\ outbox[i].message = outbox[h].message - 1
    BY <1>2, <1>3 DEF RelayInv, Written, Live
  <2>2. \A j \in 1..Len(Batch) : Batch[j] # i
    <3> SUFFICES ASSUME NEW j \in 1..Len(Batch), Batch[j] = i PROVE FALSE
      OBVIOUS
    <3>1. j # 1 => Batch[1] < Batch[j]
      BY <1>1 DEF RelayInv, BatchInv
    <3> QED
      BY <1>1, <2>1, <3>1
  <2>3. outbox[i].state = "published" \/ i \in Sending
    BY <1>1, <2>1, <2>2 DEF RelayInv, BatchInv
  <2>4. In(i)
    <3>1. i \in Ids
      BY <1>1, <1>2, <2>1 DEF Ids
    <3> QED
      BY <2>3, <3>1 DEF RelayInv, TopicInv
  <2> QED
    BY <2>1, <2>4 DEF In
<1> QED
  BY <1>2, <1>3

\* The partition may grow by the head of the batch, while the rows are kept.
LEMMA TopicKeeps ==
    ASSUME RelayInv, RowsKept,
           \/ topic' = topic
           \/ Batch # <<>> /\ topic' = Append(topic, Head(Batch))
    PROVE  /\ topic' \in Seq(Nat) /\ Len(topic) <= Len(topic')
           /\ \A i \in 1..Len(topic) : topic'[i] = topic[i]
           /\ \A i \in 1..Len(topic') : topic'[i] \in Ids' /\ Stored(topic[i])'
           /\ PredecessorFirst'
<1>1. topic \in Seq(Nat) /\ outbox \in Seq(OutboxRow) /\ outbox' \in Seq(OutboxRow)
      /\ Len(topic) \in Nat /\ Len(outbox) \in Nat /\ Len(outbox') \in Nat /\ Ids \subseteq Ids'
  BY DEF RelayInv, RelayTypes, RowsKept, Ids
<1>2. ASSUME NEW id \in Ids, Stored(id) PROVE id \in Ids' /\ Stored(id)'
  BY <1>1, <1>2 DEF RowsKept, Stored
<1>3. \A i \in 1..Len(topic) : topic[i] \in Ids /\ Stored(topic[i])
  BY DEF RelayInv, TopicInv
<1>4. \A i \in 1..Len(topic) :
        outbox'[topic[i]].message > 1 =>
            \E j \in 1..(i - 1) :
               /\ outbox'[topic[j]].key = outbox'[topic[i]].key
               /\ outbox'[topic[j]].message = outbox'[topic[i]].message - 1
  <2> SUFFICES ASSUME NEW i \in 1..Len(topic), outbox'[topic[i]].message > 1
               PROVE  \E j \in 1..(i - 1) :
                         /\ outbox'[topic[j]].key = outbox'[topic[i]].key
                         /\ outbox'[topic[j]].message = outbox'[topic[i]].message - 1
    OBVIOUS
  <2>1. outbox[topic[i]].message > 1
    BY <1>3 DEF RowsKept
  <2>2. PICK j \in 1..(i - 1) : /\ outbox[topic[j]].key = outbox[topic[i]].key
                                /\ outbox[topic[j]].message = outbox[topic[i]].message - 1
    BY <2>1 DEF RelayInv, PredecessorFirst
  <2>3. j \in 1..Len(topic)
    BY <1>1
  <2> QED
    BY <1>3, <2>2, <2>3 DEF RowsKept
<1>5. CASE topic' = topic
  <2>1. \A i \in 1..Len(topic') : topic'[i] \in Ids' /\ Stored(topic[i])'
    <3> TAKE i \in 1..Len(topic')
    <3>1. PICK id \in Ids : id = topic'[i] /\ Stored(id)
      BY <1>3, <1>5
    <3>2. id \in Ids' /\ Stored(id)'
      BY <1>2, <3>1
    <3> QED
      BY <3>1, <3>2 DEF Stored
  <2>2. PredecessorFirst'
    BY <1>4, <1>5 DEF PredecessorFirst
  <2> QED
    BY <1>1, <1>5, <2>1, <2>2
<1>6. CASE Batch # <<>> /\ topic' = Append(topic, Head(Batch))
  <2> DEFINE h == Head(Batch)
  <2>1. /\ h \in Ids /\ outbox[h].state = "pending"
        /\ outbox[h].message > 1 =>
             \E j \in 1..Len(topic) :
                /\ outbox[topic[j]].key = outbox[h].key
                /\ outbox[topic[j]].message = outbox[h].message - 1
    BY <1>6, HeadFollows
  <2> HIDE DEF h
  <2>2. /\ topic' \in Seq(Nat) /\ Len(topic') = Len(topic) + 1 /\ topic'[Len(topic) + 1] = h
        /\ \A i \in 1..Len(topic) : topic'[i] = topic[i]
    BY <1>1, <1>6, <2>1 DEF h, Ids
  <2>3. \A i \in 1..Len(topic') : i \in 1..Len(topic) \/ i = Len(topic) + 1
    BY <1>1, <2>2
  <2>4. \A i \in 1..Len(topic') : topic'[i] \in Ids' /\ Stored(topic[i])'
    <3> TAKE i \in 1..Len(topic')
    <3>1. topic'[i] \in Ids /\ Stored(topic'[i])
      <4>1. CASE i \in 1..Len(topic)
        <5>1. topic'[i] = topic[i]
          BY <2>2, <4>1
        <5>2. topic[i] \in Ids /\ Stored(topic[i])
          BY <1>3, <4>1
        <5> QED
          BY <5>1, <5>2
      <4>2. CASE i = Len(topic) + 1
        <5>1. topic'[i] = h
          BY <2>2, <4>2
        <5> QED
          BY <2>1, <5>1 DEF Stored
      <4> QED
        BY <2>3, <4>1, <4>2
    <3>2. PICK id \in Ids : id = topic'[i] /\ Stored(id)
      BY <3>1
    <3>3. id \in Ids' /\ Stored(id)'
      BY <1>2, <3>2
    <3> QED
      BY <3>2, <3>3 DEF Stored
  <2>5. ASSUME NEW i \in 1..Len(topic'), outbox'[topic'[i]].message > 1
        PROVE  \E j \in 1..(i - 1) :
                  /\ outbox'[topic'[j]].key = outbox'[topic'[i]].key
                  /\ outbox'[topic'[j]].message = outbox'[topic'[i]].message - 1
    <3>1. CASE i \in 1..Len(topic)
      <4>1. PICK j \in 1..(i - 1) : /\ outbox'[topic[j]].key = outbox'[topic[i]].key
                                    /\ outbox'[topic[j]].message = outbox'[topic[i]].message - 1
        BY <1>4, <2>2, <2>5, <3>1
      <4>2. j \in 1..Len(topic)
        BY <1>1, <3>1
      <4> QED
        BY <2>2, <3>1, <4>1, <4>2
    <3>2. CASE i = Len(topic) + 1
      <4>1. PICK j \in 1..Len(topic) : /\ outbox[topic[j]].key = outbox[h].key
                                       /\ outbox[topic[j]].message = outbox[h].message - 1
        BY <2>1, <2>2, <2>5, <3>2 DEF RowsKept
      <4>2. /\ outbox'[topic[j]].key = outbox'[h].key
            /\ outbox'[topic[j]].message = outbox'[h].message - 1
        BY <1>3, <2>1, <4>1 DEF RowsKept
      <4>3. j \in 1..(i - 1) /\ topic'[j] = topic[j] /\ topic'[i] = h
        BY <1>1, <2>2, <3>2
      <4> QED
        BY <4>2, <4>3
    <3> QED
      BY <2>3, <3>1, <3>2
  <2> QED
    BY <1>1, <2>2, <2>4, <2>5 DEF PredecessorFirst
<1> QED
  BY <1>5, <1>6

\* A consumer that stands still keeps its invariant under a growing partition.
LEMMA ConsumerKeeps ==
    ASSUME RelayInv, RowsKept, UNCHANGED <<offset, unacked, processed, effects>>,
           Len(topic) <= Len(topic'), topic' \in Seq(Nat),
           \A i \in 1..Len(topic) : topic'[i] = topic[i]
    PROVE  /\ ConsumerInv' /\ offset' \in Nat /\ unacked' \in BOOLEAN
           /\ offset' <= Len(topic') /\ (unacked' => offset' < Len(topic'))
           /\ effects' \in [Keys -> Seq(Nat)]
<1>1. topic \in Seq(Nat) /\ Len(topic) \in Nat /\ Len(topic') \in Nat /\ offset \in Nat
      /\ offset <= Len(topic) /\ (unacked => offset < Len(topic)) /\ unacked \in BOOLEAN
      /\ effects \in [Keys -> Seq(Nat)]
  BY DEF RelayInv, RelayTypes
<1>2. ASSUME NEW i \in 1..Len(topic)
      PROVE  Relay!MessageOf(topic[i])' = Relay!MessageOf(topic[i])
  BY DEF RelayInv, TopicInv, RowsKept, Relay!MessageOf
<1>3. \A i \in 1..offset : Relay!MessageOf(topic[i])' \in processed'
  <2> SUFFICES ASSUME NEW i \in 1..offset PROVE Relay!MessageOf(topic[i])' \in processed'
    OBVIOUS
  <2>1. i \in 1..Len(topic)
    BY <1>1
  <2>2. Relay!MessageOf(topic[i]) \in processed
    BY DEF RelayInv, ConsumerInv
  <2>3. Relay!MessageOf(topic[i])' = Relay!MessageOf(topic[i])
    BY <1>2, <2>1
  <2> QED
    BY <2>2, <2>3
<1>4. unacked' => Relay!MessageOf(topic[offset + 1])' \in processed'
  <2> SUFFICES ASSUME unacked PROVE Relay!MessageOf(topic[offset + 1])' \in processed
    OBVIOUS
  <2>1. offset + 1 \in 1..Len(topic) /\ Relay!MessageOf(topic[offset + 1]) \in processed
    BY <1>1 DEF RelayInv, ConsumerInv
  <2>2. Relay!MessageOf(topic[offset + 1])' = Relay!MessageOf(topic[offset + 1])
    BY <2>1 DEF RelayInv, TopicInv, RowsKept, Relay!MessageOf
  <2> QED
    BY <2>1, <2>2
<1> QED
  BY <1>1, <1>3, <1>4 DEF RelayInv, ConsumerInv

\* While the rows are kept and a pending or published one stays so, what is said of
\* the batch and the partition stays true.
LEMMA BatchKeeps ==
    ASSUME RelayInv, RowsKept, UNCHANGED <<batch, sent, topic>>,
           \A id \in Ids : /\ Live(id)' => Live(id)
                           /\ outbox[id].state \in {"pending", "published"} =>
                                outbox'[id].state = outbox[id].state,
           \A id \in Ids' : outbox'[id].state = "published" =>
                                id \in Ids /\ outbox[id].state = "published"
    PROVE  BatchInv' /\ TopicInv'
<1>1. Batch \in Seq(Nat) /\ outbox \in Seq(OutboxRow) /\ outbox' \in Seq(OutboxRow)
      /\ Len(Batch) \in Nat /\ Len(outbox) \in Nat /\ Len(outbox') \in Nat
      /\ Ids \subseteq Ids' /\ Batch' = Batch /\ Sending' = Sending
  BY DEF RelayInv, RelayTypes, RowsKept, Ids, Batch, Sending
<1>2. \A i \in 1..Len(Batch) :
        Batch[i] \in Ids' /\ outbox'[Batch[i]].state = "pending" /\ Batch[i] \notin Sending
  BY <1>1 DEF RelayInv, BatchInv
<1>3. \A i \in 1..Len(Batch) : \A id \in 1..(Batch[i] - 1) :
         outbox'[id].key = outbox'[Batch[i]].key /\ Live(id)' =>
            \/ outbox'[id].state = "published" \/ id \in Sending
            \/ \E j \in 1..Len(Batch) : Batch[j] = id
  <2> SUFFICES ASSUME NEW i \in 1..Len(Batch), NEW id \in 1..(Batch[i] - 1),
                      outbox'[id].key = outbox'[Batch[i]].key, Live(id)',
                      id \notin Sending, \A j \in 1..Len(Batch) : Batch[j] # id
               PROVE  outbox'[id].state = "published"
    OBVIOUS
  <2>1. Batch[i] \in Ids /\ id \in Ids
    BY <1>1 DEF RelayInv, BatchInv, Ids
  <2>2. outbox[id].key = outbox[Batch[i]].key /\ Live(id)
    BY <2>1 DEF RowsKept
  <2>3. outbox[id].state = "published"
    BY <2>2 DEF RelayInv, BatchInv
  <2> QED
    BY <2>1, <2>3
<1>4. \A id \in Sending : id \in Ids' /\ outbox'[id].state = "pending"
  BY <1>1 DEF RelayInv, BatchInv
<1>5. BatchInv'
  <2>1. \A i, j \in 1..Len(Batch) : i < j => Batch[i] < Batch[j]
    BY DEF RelayInv, BatchInv
  <2> QED
    BY <1>1, <1>2, <1>3, <1>4, <2>1, ZenonT(30) DEF BatchInv
<1>6. TopicInv'
  <2>1. \A i \in 1..Len(topic) : topic[i] \in Ids' /\ outbox'[topic[i]].state \in {"pending", "published"}
    <3> TAKE i \in 1..Len(topic)
    <3>1. topic[i] \in Ids /\ outbox[topic[i]].state \in {"pending", "published"}
      BY DEF RelayInv, TopicInv, Stored
    <3> QED
      BY <1>1, <3>1
  <2>2. \A id \in Sending : In(id)
    BY DEF RelayInv, TopicInv
  <2>3. \A id \in Ids' : outbox'[id].state = "published" => In(id)
    BY DEF RelayInv, TopicInv
  <2> QED
    BY <1>1, <2>1, <2>2, <2>3 DEF TopicInv, In, Stored
<1> QED
  BY <1>5, <1>6

\* The rows as they were: what is said of them alone stays true.
LEMMA RowsStand ==
    ASSUME RelayInv, outbox' = outbox
    PROVE  RowsKept /\ Written'
<1>1. RowsKept
  BY DEF RelayInv, RelayTypes, RowsKept, Stored, Ids
<1>2. Written'
  BY DEF RelayInv, Written, Ids, Live
<1> QED
  BY <1>1, <1>2

-----------------------------------------------------------------------------
(* The steps.                                                              *)

\* Nothing written, nothing sent.
LEMMA RelayInit == Relay!Init => RelayInv
<1> SUFFICES ASSUME Relay!Init PROVE RelayInv
  OBVIOUS
<1> USE DEF Relay!Init
<1>1. RelayTypes
  <2>1. outbox = <<>> /\ topic = <<>> /\ offset = 0 /\ unacked = FALSE
    OBVIOUS
  <2>2. batch \in [{Replica} -> Seq(Nat)] /\ sent \in [{Replica} -> SUBSET Nat]
    OBVIOUS
  <2>3. effects \in [Keys -> Seq(Nat)]
    OBVIOUS
  <2> HIDE DEF Relay!Init
  <2>4. outbox \in Seq(OutboxRow) /\ topic \in Seq(Nat) /\ Len(topic) = 0
    BY <2>1
  <2>5. offset \in Nat /\ offset <= Len(topic)
    BY <2>1, <2>4
  <2>6. unacked \in BOOLEAN /\ (unacked => offset < Len(topic))
    BY <2>1
  <2> QED
    BY <2>2, <2>3, <2>4, <2>5, <2>6 DEF RelayTypes
<1>2. Ids = {} /\ Batch = <<>> /\ Sending = {} /\ 1..Len(topic) = {}
  BY DEF Ids, Batch, Sending
<1>3. Written /\ BatchInv /\ TopicInv /\ PredecessorFirst
  BY <1>2 DEF Written, BatchInv, TopicInv, PredecessorFirst
<1>4. ConsumerInv
  <2>1. \A k \in Keys : effects[k] = <<>> /\ 1..Len(effects[k]) = {}
    OBVIOUS
  <2>2. processed = {} /\ 1..offset = {} /\ ~ unacked
    OBVIOUS
  <2> HIDE DEF Relay!Init
  <2> QED
    BY <2>1, <2>2 DEF ConsumerInv
<1> QED
  BY <1>1, <1>3, <1>4 DEF RelayInv

\* The last message of a key is the greatest of its live rows', or 0.
LEMMA LastIsGreatest ==
    ASSUME RelayInv, NEW k \in Keys
    PROVE  /\ Relay!LastMessage(k) \in Nat
           /\ \A id \in Ids : outbox[id].key = k /\ Live(id) =>
                 outbox[id].message <= Relay!LastMessage(k)
           /\ Relay!LastMessage(k) # 0 =>
                 \E id \in Ids : /\ outbox[id].key = k /\ Live(id)
                                 /\ outbox[id].message = Relay!LastMessage(k)
<1> DEFINE messages == {outbox[id].message : id \in Relay!RowsOf(k)} \cup {0}
<1>1. Relay!RowsOf(k) = {id \in Ids : outbox[id].key = k /\ Live(id)}
  BY DEF RelayInv, RelayTypes, Relay!RowsOf, Ids, Live
<1>2. \A id \in Ids : outbox[id].message \in 1..MaxRows
  <2>1. \A id \in Ids : outbox[id] \in OutboxRow
    BY DEF RelayInv, RelayTypes, Ids
  <2> QED
    BY <2>1 DEF OutboxRow
<1>3. MaxRows \in Nat
  BY PartAssumptions DEF Relay!RelayAssumption
<1>4. messages \subseteq Nat /\ messages # {} /\ \A x \in messages : x <= MaxRows
  BY <1>1, <1>2, <1>3
<1>5. Relay!LastMessage(k) = Relay!Max(messages)
  BY DEF Relay!LastMessage
<1> HIDE DEF messages
<1>6. Relay!Max(messages) \in messages /\ \A x \in messages : x <= Relay!Max(messages)
  <2>1. PICK x \in messages : \A y \in messages : y <= x
    BY <1>3, <1>4, GreatestElement
  <2>2. Relay!Max(messages) \in messages /\ \A y \in messages : Relay!Max(messages) >= y
    BY <1>4, <2>1 DEF Relay!Max
  <2> QED
    BY <1>4, <2>2
<1>7. \A id \in Relay!RowsOf(k) : outbox[id].message \in messages
  BY DEF messages
<1>8. Relay!Max(messages) # 0 =>
        \E id \in Relay!RowsOf(k) : outbox[id].message = Relay!Max(messages)
  BY <1>6 DEF messages
<1> QED
  BY <1>1, <1>4, <1>5, <1>6, <1>7, <1>8

\* A new row follows those of its key.
LEMMA WriteKeeps ==
    ASSUME RelayInv, NEW k \in Keys, NEW message \in 1..MaxRows, Relay!Write(k, message)
    PROVE  RelayInv'
<1> DEFINE new == Len(outbox) + 1
           row == [key |-> k, message |-> message, state |-> "open"]
<1>1. outbox \in Seq(OutboxRow) /\ Len(outbox) \in Nat /\ row \in OutboxRow
  BY DEF RelayInv, RelayTypes, OutboxRow
<1>2. outbox' = Append(outbox, row) /\ UNCHANGED <<batch, sent, topic, offset, unacked, processed, effects>>
  BY DEF Relay!Write, Relay!relayVars, Relay!consumerVars
<1>3. /\ outbox' \in Seq(OutboxRow) /\ Len(outbox') = new
      /\ \A id \in Ids : outbox'[id] = outbox[id]
      /\ outbox'[new] = row
  <2> HIDE DEF row
  <2> QED
    BY <1>1, <1>2 DEF Ids
<1>4. Ids' = Ids \cup {new} /\ new \notin Ids /\ new \in Nat
  BY <1>1, <1>3 DEF Ids
<1>5. RowsKept
  BY <1>1, <1>3 DEF RowsKept, Stored
<1>6. Written'
  <2>1. ASSUME NEW j \in Ids, NEW i \in 1..(j - 1)
        PROVE  i \in Ids
    BY <1>1 DEF Ids
  <2>2. ASSUME NEW j \in Ids
        PROVE  /\ \A i \in 1..(j - 1) :
                    outbox'[i].key = outbox'[j].key =>
                      /\ outbox'[i].state # "open"
                      /\ Live(i)' /\ Live(j)' => outbox'[i].message <= outbox'[j].message
               /\ Live(j)' /\ outbox'[j].message > 1 =>
                    \E i \in 1..(j - 1) :
                       /\ Live(i)' /\ outbox'[i].key = outbox'[j].key
                       /\ outbox'[i].message = outbox'[j].message - 1
    <3>1. /\ \A i \in 1..(j - 1) :
               outbox[i].key = outbox[j].key =>
                 outbox[i].state # "open" /\ (Live(i) /\ Live(j) => outbox[i].message <= outbox[j].message)
          /\ Live(j) /\ outbox[j].message > 1 =>
               \E i \in 1..(j - 1) :
                  Live(i) /\ outbox[i].key = outbox[j].key /\ outbox[i].message = outbox[j].message - 1
      BY DEF RelayInv, Written
    <3>2. outbox'[j] = outbox[j] /\ Live(j)' = Live(j)
      BY <1>3 DEF Live
    <3>3. \A i \in 1..(j - 1) : outbox'[i] = outbox[i] /\ Live(i)' = Live(i)
      BY <1>3, <2>1 DEF Live
    <3> QED
      BY <3>1, <3>2, <3>3
  <2>3. new - 1 = Len(outbox) /\ 1..(new - 1) = Ids
    BY <1>1 DEF Ids
  <2> DEFINE last == Relay!LastMessage(k)
  <2>4. /\ last \in Nat
        /\ \A id \in Ids : outbox[id].key = k /\ Live(id) => outbox[id].message <= last
        /\ last # 0 => \E id \in Ids : /\ outbox[id].key = k /\ Live(id)
                                       /\ outbox[id].message = last
    BY LastIsGreatest
  <2>5. message \in {last, last + 1} \ {0}
    BY DEF Relay!Write
  <2>6. \A id \in Ids : outbox[id].state = "open" => outbox[id].key # k
    BY <1>1 DEF Relay!Write, Relay!InState, Ids
  <2> HIDE DEF last
  <2>7. ASSUME NEW i \in Ids, outbox[i].key = k
        PROVE  outbox[i].state # "open" /\ (Live(i) => outbox[i].message <= message)
    <3>1. outbox[i].message \in Nat
      <4>1. outbox[i] \in OutboxRow
        BY <1>1 DEF Ids
      <4> QED
        BY <4>1 DEF OutboxRow
    <3> QED
      BY <2>4, <2>5, <2>6, <2>7, <3>1
  <2>8. ASSUME message > 1
        PROVE  \E i \in Ids : Live(i) /\ outbox[i].key = k /\ outbox[i].message = message - 1
    <3>1. last # 0
      BY <2>4, <2>5, <2>8
    <3>2. PICK id \in Ids : outbox[id].key = k /\ Live(id) /\ outbox[id].message = last
      BY <2>4, <3>1
    <3>3. CASE message = last + 1
      BY <2>4, <3>2, <3>3
    <3>4. CASE message = last
      <4>1. PICK i \in 1..(id - 1) : /\ Live(i) /\ outbox[i].key = outbox[id].key
                                     /\ outbox[i].message = outbox[id].message - 1
        BY <2>8, <3>2, <3>4 DEF RelayInv, Written
      <4>2. i \in Ids
        BY <2>1, <4>1
      <4> QED
        BY <3>2, <3>4, <4>1, <4>2
    <3> QED
      BY <2>5, <3>3, <3>4
  <2>9. /\ \A i \in 1..(new - 1) :
             outbox'[i].key = outbox'[new].key =>
               /\ outbox'[i].state # "open"
               /\ Live(i)' => outbox'[i].message <= outbox'[new].message
        /\ outbox'[new].message > 1 =>
             \E i \in 1..(new - 1) :
                /\ Live(i)' /\ outbox'[i].key = outbox'[new].key
                /\ outbox'[i].message = outbox'[new].message - 1
    <3>1. outbox'[new].key = k /\ outbox'[new].message = message
      BY <1>3
    <3>2. \A i \in Ids : Live(i)' <=> Live(i)
      BY <1>3 DEF Live
    <3> HIDE DEF new
    <3> QED
      BY <1>3, <2>3, <2>7, <2>8, <3>1, <3>2
  <2> HIDE DEF new
  <2>10. SUFFICES ASSUME NEW j \in Ids'
         PROVE  /\ \A i \in 1..(j - 1) :
                     outbox'[i].key = outbox'[j].key =>
                       /\ outbox'[i].state # "open"
                       /\ Live(i)' /\ Live(j)' => outbox'[i].message <= outbox'[j].message
                /\ Live(j)' /\ outbox'[j].message > 1 =>
                     \E i \in 1..(j - 1) :
                        /\ Live(i)' /\ outbox'[i].key = outbox'[j].key
                        /\ outbox'[i].message = outbox'[j].message - 1
    BY DEF Written
  <2>11. CASE j \in Ids
    BY <2>2, <2>11
  <2>12. CASE j = new
    BY <2>9, <2>12
  <2> QED
    BY <1>4, <2>11, <2>12
<1>7. BatchInv' /\ TopicInv'
  <2>1. \A id \in Ids : /\ Live(id)' => Live(id)
                        /\ outbox[id].state \in {"pending", "published"} =>
                             outbox'[id].state = outbox[id].state
    BY <1>3 DEF Live
  <2>2. \A id \in Ids' : outbox'[id].state = "published" =>
                             id \in Ids /\ outbox[id].state = "published"
    <3>1. outbox'[new].state = "open"
      BY <1>3
    <3> QED
      BY <1>3, <1>4, <3>1
  <2> QED
    BY <1>2, <1>5, <2>1, <2>2, BatchKeeps
<1>8. topic' \in Seq(Nat) /\ Len(topic) <= Len(topic') /\ PredecessorFirst'
      /\ \A i \in 1..Len(topic) : topic'[i] = topic[i]
  BY <1>2, <1>5, TopicKeeps
<1>9. /\ ConsumerInv' /\ offset' \in Nat /\ unacked' \in BOOLEAN
      /\ offset' <= Len(topic') /\ (unacked' => offset' < Len(topic'))
      /\ effects' \in [Keys -> Seq(Nat)]
  BY <1>2, <1>5, <1>8, ConsumerKeeps
<1>10. RelayTypes'
  <2>1. batch' \in [{Replica} -> Seq(Nat)] /\ sent' \in [{Replica} -> SUBSET Nat]
    BY <1>2 DEF RelayInv, RelayTypes
  <2> QED
    BY <1>3, <1>8, <1>9, <2>1 DEF RelayTypes
<1> QED
  BY <1>6, <1>7, <1>8, <1>9, <1>10 DEF RelayInv

\* A transaction that ends was the last of its key, and nobody had its row.
LEMMA EndWriteKeeps ==
    ASSUME RelayInv, NEW id \in DOMAIN outbox, NEW state \in {"pending", "aborted"},
           Relay!EndWrite(id, state)
    PROVE  RelayInv'
<1>1. outbox \in Seq(OutboxRow) /\ Len(outbox) \in Nat /\ id \in Ids /\ outbox[id].state = "open"
      /\ outbox[id] \in OutboxRow
  BY DEF RelayInv, RelayTypes, Ids, Relay!EndWrite, Relay!InState
<1>2. /\ outbox' = [outbox EXCEPT ![id].state = state]
      /\ UNCHANGED <<batch, sent, topic, offset, unacked, processed, effects>>
  BY DEF Relay!EndWrite, Relay!relayVars, Relay!consumerVars
<1>3. outbox' \in Seq(OutboxRow) /\ Len(outbox') = Len(outbox)
  <2>1. [outbox[id] EXCEPT !.state = state] \in OutboxRow
    BY <1>1 DEF OutboxRow
  <2>2. outbox' = [outbox EXCEPT ![id] = [outbox[id] EXCEPT !.state = state]]
    BY <1>2
  <2> QED
    BY <1>1, <2>1, <2>2 DEF Ids
<1>4. /\ \A i \in Ids : i # id => outbox'[i] = outbox[i]
      /\ outbox'[id].key = outbox[id].key /\ outbox'[id].message = outbox[id].message
      /\ outbox'[id].state = state
  BY <1>1, <1>2 DEF Ids, OutboxRow
<1>5. Ids' = Ids
  BY <1>3 DEF Ids
<1>6. \A i \in Ids : /\ outbox'[i].key = outbox[i].key /\ outbox'[i].message = outbox[i].message
                     /\ Live(i)' => Live(i)
                     /\ outbox'[i].state = "open" => outbox[i].state = "open"
                     /\ outbox[i].state # "open" => outbox'[i].state = outbox[i].state
                     /\ outbox'[i].state = "published" => outbox[i].state = "published"
  <2> TAKE i \in Ids
  <2>1. CASE i = id
    BY <1>1, <1>4, <2>1 DEF Live
  <2>2. CASE i # id
    BY <1>4, <2>2 DEF Live
  <2> QED
    BY <2>1, <2>2
<1>7. RowsKept
  BY <1>3, <1>6 DEF RowsKept, Stored
<1>8. Written'
  <2> SUFFICES ASSUME NEW j \in Ids
        PROVE  /\ \A i \in 1..(j - 1) :
                    outbox'[i].key = outbox'[j].key =>
                      /\ outbox'[i].state # "open"
                      /\ Live(i)' /\ Live(j)' => outbox'[i].message <= outbox'[j].message
               /\ Live(j)' /\ outbox'[j].message > 1 =>
                    \E i \in 1..(j - 1) :
                       /\ Live(i)' /\ outbox'[i].key = outbox'[j].key
                       /\ outbox'[i].message = outbox'[j].message - 1
    BY <1>5 DEF Written
  <2>1. \A i \in 1..(j - 1) : i \in Ids
    BY <1>1 DEF Ids
  <2>2. ASSUME NEW i \in 1..(j - 1), outbox'[i].key = outbox'[j].key
        PROVE  /\ outbox'[i].state # "open"
               /\ Live(i)' /\ Live(j)' => outbox'[i].message <= outbox'[j].message
    <3>1. outbox[i].key = outbox[j].key
      BY <1>6, <2>1, <2>2
    <3>2. /\ outbox[i].state # "open"
          /\ Live(i) /\ Live(j) => outbox[i].message <= outbox[j].message
      BY <3>1 DEF RelayInv, Written
    <3> QED
      BY <1>6, <2>1, <3>2
  <2>3. ASSUME Live(j)', outbox'[j].message > 1
        PROVE  \E i \in 1..(j - 1) :
                  /\ Live(i)' /\ outbox'[i].key = outbox'[j].key
                  /\ outbox'[i].message = outbox'[j].message - 1
    <3>1. Live(j) /\ outbox[j].message > 1
      BY <1>6, <2>3
    <3>2. PICK i \in 1..(j - 1) :
             Live(i) /\ outbox[i].key = outbox[j].key /\ outbox[i].message = outbox[j].message - 1
      BY <3>1 DEF RelayInv, Written
    <3>3. outbox[i].state # "open"
      BY <3>2 DEF RelayInv, Written
    <3>4. Live(i)'
      BY <1>6, <2>1, <3>2, <3>3 DEF Live
    <3> QED
      BY <1>6, <2>1, <3>2, <3>4
  <2> QED
    BY <2>2, <2>3
<1>9. BatchInv' /\ TopicInv'
  <2>1. \A i \in Ids : /\ Live(i)' => Live(i)
                       /\ outbox[i].state \in {"pending", "published"} =>
                            outbox'[i].state = outbox[i].state
    BY <1>6
  <2>2. \A i \in Ids' : outbox'[i].state = "published" =>
                            i \in Ids /\ outbox[i].state = "published"
    BY <1>5, <1>6
  <2> QED
    BY <1>2, <1>7, <2>1, <2>2, BatchKeeps
<1>10. topic' \in Seq(Nat) /\ Len(topic) <= Len(topic') /\ PredecessorFirst'
      /\ \A i \in 1..Len(topic) : topic'[i] = topic[i]
  BY <1>2, <1>7, TopicKeeps
<1>11. /\ ConsumerInv' /\ offset' \in Nat /\ unacked' \in BOOLEAN
      /\ offset' <= Len(topic') /\ (unacked' => offset' < Len(topic'))
      /\ effects' \in [Keys -> Seq(Nat)]
  BY <1>2, <1>7, <1>10, ConsumerKeeps
<1>12. RelayTypes'
  <2>1. batch' \in [{Replica} -> Seq(Nat)] /\ sent' \in [{Replica} -> SUBSET Nat]
    BY <1>2 DEF RelayInv, RelayTypes
  <2> QED
    BY <1>3, <1>10, <1>11, <2>1 DEF RelayTypes
<1> QED
  BY <1>8, <1>9, <1>10, <1>11, <1>12 DEF RelayInv

\* The first pending rows, and no row of their keys before them is left behind: only
\* one replica fetches.
LEMMA FetchKeeps ==
    ASSUME RelayInv, Relay!Fetch(Replica)
    PROVE  RelayInv'
<1>1. outbox \in Seq(OutboxRow) /\ Len(outbox) \in Nat /\ Batch = <<>> /\ Sending = {}
  BY DEF RelayInv, RelayTypes, Relay!Fetch, Relay!Idle, Batch, Sending
<1>2. UNCHANGED <<outbox, sent, topic, offset, unacked, processed, effects>>
  BY DEF Relay!Fetch, Relay!consumerVars
<1>3. RowsKept /\ Written'
  BY <1>2, RowsStand
<1> DEFINE pending == Relay!Pending
<1>4. pending = {id \in Ids : outbox[id].state = "pending"}
  <2>1. \A x : x \notin Relay!Range(Batch)
    BY <1>1 DEF Relay!Range
  <2>2. Relay!Locked = {}
    BY <1>1, <2>1 DEF Relay!Locked, Batch, Sending
  <2> QED
    BY <1>1, <2>2 DEF Relay!Pending, Relay!InState, Ids
<1>5. IsFiniteSet(pending) /\ pending \subseteq Nat
  <2>1. IsFiniteSet(Ids)
    BY <1>1, FS_Interval DEF Ids
  <2>2. pending \subseteq Ids /\ Ids \subseteq Nat
    BY <1>1, <1>4 DEF Ids
  <2> QED
    BY <2>1, <2>2, FS_Subset
<1> DEFINE n == Relay!Min({BatchSize, Relay!Cardinality(pending)})
           s == Relay!FirstOf(pending, n)
<1>6. batch' = [batch EXCEPT ![Replica] = s]
  BY DEF Relay!Fetch
<1> HIDE DEF pending
<1>7. Relay!Cardinality(pending) = Cardinality(pending)
  BY DEF Relay!Cardinality, Cardinality, Relay!IsFiniteSet, IsFiniteSet
<1>8. n \in 0..Cardinality(pending)
  <2>1. Cardinality(pending) \in Nat /\ BatchSize \in Nat
    BY <1>5, FS_CardinalityType, PartAssumptions DEF Relay!RelayAssumption
  <2>2. \E x \in {BatchSize, Cardinality(pending)} : \A y \in {BatchSize, Cardinality(pending)} : x <= y
    BY <2>1
  <2>3. n \in {BatchSize, Cardinality(pending)} /\ \A y \in {BatchSize, Cardinality(pending)} : n <= y
    BY <1>7, <2>2 DEF Relay!Min
  <2> QED
    BY <2>1, <2>3
<1> HIDE DEF n
<1>9. First(s, pending, n)
  BY <1>5, <1>8, FirstOfIsFirst
<1> HIDE DEF s
<1>10. n \in Nat /\ s \in [1..n -> pending] /\ (\A i, j \in 1..n : i < j => s[i] < s[j])
       /\ \A id \in pending \ {s[i] : i \in 1..n} : \A i \in 1..n : s[i] < id
  <2>1. n \in Nat
    BY <1>5, <1>8, FS_CardinalityType
  <2> QED
    BY <1>9, <2>1 DEF First
<1>11. s \in Seq(Nat) /\ Len(s) = n
  <2>1. n \in Nat /\ s \in [1..n -> Nat]
    BY <1>5, <1>10
  <2> QED
    BY <2>1
<1>12. Batch' = s /\ Sending' = {} /\ batch' \in [{Replica} -> Seq(Nat)] /\ Ids' = Ids
  BY <1>1, <1>2, <1>6, <1>11 DEF RelayInv, RelayTypes, Batch, Sending, Ids
<1>13. BatchInv'
  <2>1. \A i \in 1..n : s[i] \in Ids /\ outbox[s[i]].state = "pending"
    BY <1>4, <1>10
  <2>2. ASSUME NEW i \in 1..n, NEW id \in 1..(s[i] - 1),
               outbox[id].key = outbox[s[i]].key, Live(id), outbox[id].state # "published"
        PROVE  \E j \in 1..n : s[j] = id
    <3>1. id \in Ids /\ id < s[i] /\ id \in Nat
      BY <1>1, <2>1 DEF Ids
    <3>2. outbox[id].state # "open"
      BY <2>1, <2>2 DEF RelayInv, Written
    <3>3. outbox[id] \in OutboxRow
      BY <1>1, <3>1 DEF Ids
    <3>4. id \in pending
      BY <1>4, <2>2, <3>1, <3>2, <3>3 DEF OutboxRow, Live
    <3>5. ~ s[i] < id
      BY <2>1, <3>1 DEF Ids
    <3> QED
      BY <1>10, <3>4, <3>5
  <2> QED
    BY <1>2, <1>10, <1>11, <1>12, <2>1, <2>2 DEF BatchInv, Live
<1>14. TopicInv'
  BY <1>2, <1>12 DEF RelayInv, TopicInv, In, Stored
<1>15. topic' \in Seq(Nat) /\ Len(topic) <= Len(topic') /\ PredecessorFirst'
       /\ \A i \in 1..Len(topic) : topic'[i] = topic[i]
  BY <1>2, <1>3, TopicKeeps
<1>16. /\ ConsumerInv' /\ offset' \in Nat /\ unacked' \in BOOLEAN
       /\ offset' <= Len(topic') /\ (unacked' => offset' < Len(topic'))
       /\ effects' \in [Keys -> Seq(Nat)]
  BY <1>2, <1>3, <1>15, ConsumerKeeps
<1>17. RelayTypes'
  <2>1. sent' \in [{Replica} -> SUBSET Nat] /\ outbox' \in Seq(OutboxRow)
    BY <1>2 DEF RelayInv, RelayTypes
  <2> QED
    BY <1>12, <1>15, <1>16, <2>1 DEF RelayTypes
<1> QED
  BY <1>3, <1>13, <1>14, <1>15, <1>16, <1>17 DEF RelayInv

\* The head of the batch goes to the partition.
LEMMA SendKeeps ==
    ASSUME RelayInv, Relay!Send(Replica)
    PROVE  RelayInv'
<1> DEFINE h == Head(Batch)
<1>1. outbox \in Seq(OutboxRow) /\ Batch \in Seq(Nat) /\ Batch # <<>> /\ Len(Batch) \in Nat
      /\ topic \in Seq(Nat) /\ Len(topic) \in Nat /\ h = Batch[1] /\ h \in Nat /\ 1 \in 1..Len(Batch)
  BY DEF RelayInv, RelayTypes, Relay!Send, Batch
<1>2. UNCHANGED <<outbox, offset, unacked, processed, effects>> /\ topic' = Append(topic, h)
  BY DEF Relay!Send, Relay!consumerVars, Batch
<1>3. Batch' = Tail(Batch) /\ batch' \in [{Replica} -> Seq(Nat)]
  <2>1. batch' = [batch EXCEPT ![Replica] = Tail(Batch)]
    BY DEF Relay!Send, Batch
  <2>2. Tail(Batch) \in Seq(Nat)
    BY <1>1
  <2> QED
    BY <2>1, <2>2 DEF RelayInv, RelayTypes, Batch
<1>4. Sending' = Sending \cup {h} /\ sent' \in [{Replica} -> SUBSET Nat]
  <2>1. sent' = [sent EXCEPT ![Replica] = Sending \cup {h}]
    BY DEF Relay!Send, Batch, Sending
  <2>2. Sending \cup {h} \in SUBSET Nat
    BY <1>1 DEF RelayInv, RelayTypes, Sending
  <2> QED
    BY <2>1, <2>2 DEF RelayInv, RelayTypes, Sending
<1>5. RowsKept /\ Written'
  BY <1>2, RowsStand
<1>6. h \in Ids /\ outbox[h].state = "pending"
  BY <1>1, HeadFollows
<1>7. Len(Tail(Batch)) = Len(Batch) - 1 /\ \A i \in 1..(Len(Batch) - 1) : Tail(Batch)[i] = Batch[i + 1]
  BY <1>1
<1>8. \A i \in 1..(Len(Batch) - 1) :
         /\ i + 1 \in 1..Len(Batch)
         /\ \A j \in 1..(Len(Batch) - 1) : i < j => i + 1 < j + 1
         /\ h < Batch[i + 1]
  BY <1>1 DEF RelayInv, BatchInv
<1>9. \A j \in 1..Len(Batch) : Batch[j] = h \/ (j - 1 \in 1..(Len(Batch) - 1) /\ Tail(Batch)[j - 1] = Batch[j])
  <2> TAKE j \in 1..Len(Batch)
  <2>1. CASE j = 1
    BY <1>1, <2>1
  <2>2. CASE j # 1
    <3>1. j - 1 \in 1..(Len(Batch) - 1) /\ (j - 1) + 1 = j
      BY <1>1, <2>2
    <3> QED
      BY <1>7, <3>1
  <2> QED
    BY <2>1, <2>2
<1>10. topic' \in Seq(Nat) /\ Len(topic') = Len(topic) + 1 /\ topic'[Len(topic) + 1] = h
       /\ \A i \in 1..Len(topic) : topic'[i] = topic[i] /\ i \in 1..Len(topic')
  BY <1>1, <1>2
<1> HIDE DEF h
<1>11. BatchInv'
  <2>1. ASSUME NEW i \in 1..(Len(Batch) - 1)
        PROVE  Tail(Batch)[i] \in Ids /\ outbox[Tail(Batch)[i]].state = "pending"
               /\ Tail(Batch)[i] \notin Sending \cup {h}
    <3>1. Batch[i + 1] \in Ids /\ outbox[Batch[i + 1]].state = "pending" /\ Batch[i + 1] \notin Sending
      BY <1>8 DEF RelayInv, BatchInv
    <3>2. Batch[i + 1] # h
      BY <1>1, <1>8, <3>1 DEF Ids
    <3> QED
      BY <1>7, <3>1, <3>2
  <2>2. \A i, j \in 1..(Len(Batch) - 1) : i < j => Tail(Batch)[i] < Tail(Batch)[j]
    BY <1>7, <1>8 DEF RelayInv, BatchInv
  <2>3. ASSUME NEW i \in 1..(Len(Batch) - 1), NEW id \in 1..(Tail(Batch)[i] - 1),
               outbox[id].key = outbox[Tail(Batch)[i]].key, Live(id)
        PROVE  \/ outbox[id].state = "published" \/ id \in Sending \cup {h}
               \/ \E j \in 1..(Len(Batch) - 1) : Tail(Batch)[j] = id
    <3>1. Tail(Batch)[i] = Batch[i + 1] /\ i + 1 \in 1..Len(Batch)
      BY <1>7, <1>8
    <3>2. \/ outbox[id].state = "published" \/ id \in Sending
          \/ \E j \in 1..Len(Batch) : Batch[j] = id
      BY <2>3, <3>1 DEF RelayInv, BatchInv
    <3> QED
      BY <1>9, <3>2
  <2>4. \A id \in Sending \cup {h} : id \in Ids /\ outbox[id].state = "pending"
    BY <1>6 DEF RelayInv, BatchInv
  <2>5. Ids' = Ids /\ Len(Batch') = Len(Batch) - 1
    BY <1>2, <1>3, <1>7 DEF Ids
  <2> QED
    BY <1>2, <1>3, <1>4, <2>1, <2>2, <2>3, <2>4, <2>5, ZenonT(30) DEF BatchInv, Live
<1>12. /\ PredecessorFirst'
       /\ \A i \in 1..Len(topic') : topic'[i] \in Ids' /\ Stored(topic[i])'
  BY <1>1, <1>2, <1>5, TopicKeeps DEF h
<1>13. TopicInv'
  <2>1. ASSUME NEW id, In(id) PROVE In(id)'
    <3>1. PICK i \in 1..Len(topic) : topic[i] = id
      BY <2>1 DEF In
    <3> QED
      BY <1>10, <3>1 DEF In
  <2>2. ASSUME NEW id, id = h PROVE In(id)'
    <3>1. Len(topic) + 1 \in 1..Len(topic')
      BY <1>1, <1>10
    <3> QED
      BY <1>10, <2>2, <3>1 DEF In
  <2>3. \A id \in Sending \cup {h} : In(id)'
    <3>1. \A id \in Sending : In(id)
      BY DEF RelayInv, TopicInv
    <3> QED
      BY <2>1, <2>2, <3>1
  <2>4. \A id \in Ids' : outbox'[id].state = "published" => In(id)'
    <3>1. \A id \in Ids : outbox[id].state = "published" => In(id)
      BY DEF RelayInv, TopicInv
    <3>2. Ids' = Ids
      BY <1>2 DEF Ids
    <3> QED
      BY <1>2, <2>1, <3>1, <3>2
  <2> QED
    BY <1>4, <1>12, <2>3, <2>4 DEF TopicInv
<1>14. /\ ConsumerInv' /\ offset' \in Nat /\ unacked' \in BOOLEAN
       /\ offset' <= Len(topic') /\ (unacked' => offset' < Len(topic'))
       /\ effects' \in [Keys -> Seq(Nat)]
  <2>1. Len(topic) <= Len(topic')
    BY <1>1, <1>10
  <2> QED
    BY <1>2, <1>5, <1>10, <2>1, ConsumerKeeps
<1>15. RelayTypes'
  <2>1. outbox' \in Seq(OutboxRow)
    BY <1>2 DEF RelayInv, RelayTypes
  <2> QED
    BY <1>3, <1>4, <1>10, <1>14, <2>1 DEF RelayTypes
<1> QED
  BY <1>5, <1>11, <1>12, <1>13, <1>14, <1>15 DEF RelayInv

\* A transaction of the relay ends, committed or rolled back: some of the rows it sent
\* are marked, and its record or none has reached the partition.
LEMMA CloseKeeps ==
    ASSUME RelayInv, outbox' \in Seq(OutboxRow), Len(outbox') = Len(outbox),
           \A id \in Ids : /\ outbox'[id].key = outbox[id].key
                           /\ outbox'[id].message = outbox[id].message
                           /\ \/ outbox'[id].state = outbox[id].state
                              \/ id \in Sending /\ outbox'[id].state = "published",
           Relay!Release(Replica), UNCHANGED <<offset, unacked, processed, effects>>,
           \/ topic' = topic
           \/ Batch # <<>> /\ topic' = Append(topic, Head(Batch))
    PROVE  RelayInv'
<1>1. outbox \in Seq(OutboxRow) /\ Len(outbox) \in Nat /\ Ids' = Ids
  BY DEF RelayInv, RelayTypes, Ids
<1>2. Batch' = <<>> /\ Sending' = {}
      /\ batch' \in [{Replica} -> Seq(Nat)] /\ sent' \in [{Replica} -> SUBSET Nat]
  <2>1. batch' = [batch EXCEPT ![Replica] = <<>>] /\ sent' = [sent EXCEPT ![Replica] = {}]
    BY DEF Relay!Release
  <2> QED
    BY <2>1 DEF RelayInv, RelayTypes, Batch, Sending
<1>3. \A id \in Sending : outbox[id].state = "pending" /\ In(id)
  BY DEF RelayInv, BatchInv, TopicInv
<1>4. \A id \in Ids : /\ \/ outbox'[id].state = outbox[id].state
                         \/ /\ outbox[id].state = "pending"
                            /\ outbox'[id].state = "published" /\ In(id)
                      /\ Live(id)' <=> Live(id)
                      /\ outbox'[id].state = "open" => outbox[id].state = "open"
  <2> TAKE id \in Ids
  <2>1. \/ outbox'[id].state = outbox[id].state
        \/ outbox[id].state = "pending" /\ outbox'[id].state = "published" /\ In(id)
    <3>1. CASE outbox'[id].state = outbox[id].state
      BY <3>1
    <3>2. CASE id \in Sending /\ outbox'[id].state = "published"
      BY <1>3, <3>2
    <3> QED
      BY <3>1, <3>2
  <2> QED
    BY <2>1 DEF Live
<1>5. RowsKept
  BY <1>1, <1>4 DEF RowsKept, Stored, Ids
<1>6. Written'
  <2> SUFFICES ASSUME NEW j \in Ids
        PROVE  /\ \A i \in 1..(j - 1) :
                    outbox'[i].key = outbox'[j].key =>
                      /\ outbox'[i].state # "open"
                      /\ Live(i)' /\ Live(j)' => outbox'[i].message <= outbox'[j].message
               /\ Live(j)' /\ outbox'[j].message > 1 =>
                    \E i \in 1..(j - 1) :
                       /\ Live(i)' /\ outbox'[i].key = outbox'[j].key
                       /\ outbox'[i].message = outbox'[j].message - 1
    BY <1>1 DEF Written
  <2>1. \A i \in 1..(j - 1) : i \in Ids
    BY <1>1 DEF Ids
  <2>2. ASSUME NEW i \in 1..(j - 1), outbox'[i].key = outbox'[j].key
        PROVE  /\ outbox'[i].state # "open"
               /\ Live(i)' /\ Live(j)' => outbox'[i].message <= outbox'[j].message
    <3>1. outbox[i].key = outbox[j].key
      BY <2>1, <2>2
    <3>2. /\ outbox[i].state # "open"
          /\ Live(i) /\ Live(j) => outbox[i].message <= outbox[j].message
      BY <3>1 DEF RelayInv, Written
    <3> QED
      BY <1>4, <2>1, <3>2
  <2>3. ASSUME Live(j)', outbox'[j].message > 1
        PROVE  \E i \in 1..(j - 1) :
                  /\ Live(i)' /\ outbox'[i].key = outbox'[j].key
                  /\ outbox'[i].message = outbox'[j].message - 1
    <3>1. Live(j) /\ outbox[j].message > 1
      BY <1>4, <2>3
    <3>2. PICK i \in 1..(j - 1) :
             Live(i) /\ outbox[i].key = outbox[j].key /\ outbox[i].message = outbox[j].message - 1
      BY <3>1 DEF RelayInv, Written
    <3>3. Live(i)'
      BY <1>4, <2>1, <3>2
    <3> QED
      BY <2>1, <3>2, <3>3
  <2> QED
    BY <2>2, <2>3
<1>7. BatchInv'
  BY <1>2 DEF BatchInv
<1>8. /\ topic' \in Seq(Nat) /\ Len(topic) <= Len(topic')
      /\ \A i \in 1..Len(topic) : topic'[i] = topic[i]
      /\ \A i \in 1..Len(topic') : topic'[i] \in Ids' /\ Stored(topic[i])'
      /\ PredecessorFirst'
  BY <1>5, TopicKeeps
<1>9. TopicInv'
  <2>1. ASSUME NEW id, In(id) PROVE In(id)'
    <3>1. PICK i \in 1..Len(topic) : topic[i] = id
      BY <2>1 DEF In
    <3>2. i \in 1..Len(topic')
      BY <1>8 DEF RelayInv, RelayTypes
    <3> QED
      BY <1>8, <3>1, <3>2 DEF In
  <2>2. \A id \in Ids' : outbox'[id].state = "published" => In(id)'
    <3>1. \A id \in Ids : outbox'[id].state = "published" => In(id)
      BY <1>4 DEF RelayInv, TopicInv
    <3> QED
      BY <1>1, <2>1, <3>1
  <2> QED
    BY <1>2, <1>8, <2>2 DEF TopicInv
<1>10. /\ ConsumerInv' /\ offset' \in Nat /\ unacked' \in BOOLEAN
       /\ offset' <= Len(topic') /\ (unacked' => offset' < Len(topic'))
       /\ effects' \in [Keys -> Seq(Nat)]
  BY <1>5, <1>8, ConsumerKeeps
<1>11. RelayTypes'
  BY <1>2, <1>8, <1>10 DEF RelayTypes
<1> QED
  BY <1>6, <1>7, <1>8, <1>9, <1>10, <1>11 DEF RelayInv

\* Marking rows that were sent.
LEMMA MarkedRows ==
    ASSUME RelayInv, NEW ids, ids \subseteq Sending, Relay!MarkPublished(ids)
    PROVE  /\ outbox' \in Seq(OutboxRow) /\ Len(outbox') = Len(outbox)
           /\ \A id \in Ids : /\ outbox'[id].key = outbox[id].key
                              /\ outbox'[id].message = outbox[id].message
                              /\ \/ outbox'[id].state = outbox[id].state
                                 \/ id \in Sending /\ outbox'[id].state = "published"
<1>1. outbox \in Seq(OutboxRow) /\ DOMAIN outbox = Ids /\ Len(outbox) \in Nat
  BY DEF RelayInv, RelayTypes, Ids
<1>2. outbox' = [id \in Ids |-> IF id \in ids THEN [outbox[id] EXCEPT !.state = "published"]
                                              ELSE outbox[id]]
  BY <1>1 DEF Relay!MarkPublished
<1>3. ASSUME NEW id \in Ids
      PROVE  /\ outbox'[id] \in OutboxRow
             /\ outbox'[id].key = outbox[id].key
             /\ outbox'[id].message = outbox[id].message
             /\ \/ outbox'[id].state = outbox[id].state
                \/ id \in Sending /\ outbox'[id].state = "published"
  <2>1. outbox[id] \in OutboxRow
    BY <1>1 DEF Ids
  <2>2. CASE id \in ids
    <3>1. outbox'[id] = [outbox[id] EXCEPT !.state = "published"]
      BY <1>2, <2>2
    <3> QED
      BY <2>1, <2>2, <3>1 DEF OutboxRow
  <2>3. CASE id \notin ids
    <3>1. outbox'[id] = outbox[id]
      BY <1>2, <2>3
    <3> QED
      BY <2>1, <3>1
  <2> QED
    BY <2>2, <2>3
<1>4. outbox' \in [1..Len(outbox) -> OutboxRow]
  BY <1>2, <1>3 DEF Ids
<1>5. outbox' \in Seq(OutboxRow) /\ Len(outbox') = Len(outbox)
  BY <1>1, <1>4
<1> QED
  BY <1>3, <1>5

\* It commits once the batch is through.
LEMMA CommitBatchKeeps ==
    ASSUME RelayInv, Relay!CommitBatch(Replica) PROVE RelayInv'
<1>1. Relay!MarkPublished(Sending) /\ Relay!Release(Replica)
      /\ UNCHANGED <<topic, offset, unacked, processed, effects>>
  BY DEF Relay!CommitBatch, Relay!consumerVars, Sending
<1>2. /\ outbox' \in Seq(OutboxRow) /\ Len(outbox') = Len(outbox)
      /\ \A id \in Ids : /\ outbox'[id].key = outbox[id].key
                         /\ outbox'[id].message = outbox[id].message
                         /\ \/ outbox'[id].state = outbox[id].state
                            \/ id \in Sending /\ outbox'[id].state = "published"
  BY <1>1, MarkedRows
<1> QED
  BY <1>1, <1>2, CloseKeeps

\* It commits what was sent before the failure, whether or not the record arrived.
LEMMA SendFailsKeeps ==
    ASSUME RelayInv, NEW reached \in BOOLEAN, Relay!SendFails(Replica, reached) PROVE RelayInv'
<1>1. Relay!MarkPublished(Sending) /\ Relay!Release(Replica)
      /\ UNCHANGED <<offset, unacked, processed, effects>>
  BY DEF Relay!SendFails, Relay!consumerVars, Sending
<1>2. \/ topic' = topic
      \/ Batch # <<>> /\ topic' = Append(topic, Head(Batch))
  <2>1. /\ Batch # <<>>
        /\ topic' = IF reached THEN Append(topic, Head(Batch)) ELSE topic
    BY DEF Relay!SendFails, Batch
  <2> QED
    BY <2>1
<1>3. /\ outbox' \in Seq(OutboxRow) /\ Len(outbox') = Len(outbox)
      /\ \A id \in Ids : /\ outbox'[id].key = outbox[id].key
                         /\ outbox'[id].message = outbox[id].message
                         /\ \/ outbox'[id].state = outbox[id].state
                            \/ id \in Sending /\ outbox'[id].state = "published"
  BY <1>1, MarkedRows
<1> QED
  BY <1>1, <1>2, <1>3, CloseKeeps

\* It is rolled back, and what it sent stays in the partition unmarked.
LEMMA RelayCrashKeeps ==
    ASSUME RelayInv, Relay!RelayCrash(Replica) PROVE RelayInv'
<1>1. Relay!Release(Replica) /\ UNCHANGED <<outbox, topic, offset, unacked, processed, effects>>
  BY DEF Relay!RelayCrash, Relay!consumerVars
<1>2. outbox \in Seq(OutboxRow)
  BY DEF RelayInv, RelayTypes
<1> QED
  BY <1>1, <1>2, CloseKeeps

-----------------------------------------------------------------------------
\* The consumer's steps leave the rows, the relay and the partition alone.
LEMMA ConsumerStep ==
    ASSUME RelayInv, UNCHANGED <<outbox, batch, sent, topic>>, ConsumerInv',
           offset' \in Nat, unacked' \in BOOLEAN, offset' <= Len(topic),
           unacked' => offset' < Len(topic), effects' \in [Keys -> Seq(Nat)]
    PROVE  RelayInv'
<1>1. RowsKept /\ Written'
  BY RowsStand
<1>2. BatchInv' /\ TopicInv'
  BY <1>1, BatchKeeps DEF Live, Ids
<1>3. PredecessorFirst'
  BY <1>1, TopicKeeps
<1>4. RelayTypes'
  BY DEF RelayInv, RelayTypes
<1> QED
  BY <1>1, <1>2, <1>3, <1>4 DEF RelayInv

\* What is handled is new, and then it is the next of its key, or it was handled.
LEMMA HandleKeeps ==
    ASSUME RelayInv, Relay!Handle PROVE RelayInv'
<1> DEFINE id == topic[offset + 1]
           k == outbox[id].key
           m == outbox[id].message
           done == Len(effects[k])
<1>1. /\ offset < Len(topic) /\ unacked' = TRUE /\ processed' = processed \cup {<<k, m>>}
      /\ effects' = IF <<k, m>> \notin processed
                      THEN [effects EXCEPT ![k] = Append(effects[k], m)] ELSE effects
      /\ UNCHANGED <<outbox, batch, sent, topic, offset>>
  BY DEF Relay!Handle, Relay!MessageOf, Relay!TryMarkProcessed, Relay!relayVars
<1>2. /\ offset \in Nat /\ Len(topic) \in Nat /\ effects \in [Keys -> Seq(Nat)]
      /\ outbox \in Seq(OutboxRow) /\ offset + 1 \in 1..Len(topic)
  BY <1>1 DEF RelayInv, RelayTypes
<1>3. id \in Ids /\ k \in Keys /\ m \in Nat /\ m >= 1
  <2>1. id \in Ids
    BY <1>2 DEF RelayInv, TopicInv
  <2>2. outbox[id] \in OutboxRow
    BY <1>2, <2>1 DEF Ids
  <2> HIDE DEF id
  <2>3. k \in Keys /\ m \in 1..MaxRows
    BY <2>2 DEF OutboxRow
  <2> QED
    BY <2>1, <2>3
<1>4. effects[k] \in Seq(Nat) /\ done \in Nat
  BY <1>2, <1>3
<1>5. \A i \in Keys : \A n : <<i, n>> \in processed <=> n \in 1..Len(effects[i])
  BY DEF RelayInv, ConsumerInv
<1>6. <<k, m>> \notin processed => m = done + 1
  <2> SUFFICES ASSUME <<k, m>> \notin processed, m # done + 1 PROVE FALSE
    OBVIOUS
  <2>1. m > done + 1
    BY <1>3, <1>4, <1>5
  <2>2. PICK j \in 1..offset : outbox[topic[j]].key = k /\ outbox[topic[j]].message = m - 1
    <3>1. m > 1 /\ (offset + 1) - 1 = offset
      BY <1>2, <1>3, <1>4, <2>1
    <3> QED
      BY <1>2, <3>1 DEF RelayInv, PredecessorFirst
  <2>3. Relay!MessageOf(topic[j]) \in processed
    BY DEF RelayInv, ConsumerInv
  <2>4. <<k, m - 1>> \in processed
    BY <2>2, <2>3 DEF Relay!MessageOf
  <2> QED
    BY <1>3, <1>4, <1>5, <2>1, <2>4
<1>7. Relay!MessageOf(id) = <<k, m>>
  BY DEF Relay!MessageOf
<1>8. \A i \in 1..offset : Relay!MessageOf(topic[i]) \in processed
  BY DEF RelayInv, ConsumerInv
<1> HIDE DEF id, k, m, done
<1>9. /\ effects' \in [Keys -> Seq(Nat)]
      /\ \A i \in Keys : \A n \in 1..Len(effects'[i]) : effects'[i][n] = n
      /\ processed' = UNION {{<<i, n>> : n \in 1..Len(effects'[i])} : i \in Keys}
  <2>1. CASE <<k, m>> \in processed
    <3>1. effects' = effects /\ processed' = processed
      BY <1>1, <2>1
    <3> QED
      BY <1>2, <3>1 DEF RelayInv, ConsumerInv
  <2>2. CASE <<k, m>> \notin processed
    <3>1. effects' = [effects EXCEPT ![k] = Append(effects[k], m)] /\ m = done + 1
      BY <1>1, <1>6, <2>2
    <3> DEFINE longer == Append(effects[k], m)
    <3>2. longer \in Seq(Nat) /\ Len(longer) = m /\ longer[m] = m
          /\ \A n \in 1..done : longer[n] = effects[k][n]
      BY <1>3, <1>4, <3>1 DEF done
    <3>3. \A n \in 1..m : n \in 1..done \/ n = m
      BY <1>3, <1>4, <3>1
    <3>4. \A n \in 1..done : effects[k][n] = n
      BY <1>3 DEF RelayInv, ConsumerInv, done
    <3>5. effects' \in [Keys -> Seq(Nat)] /\ effects'[k] = longer
          /\ \A i \in Keys : i # k => effects'[i] = effects[i]
      BY <1>2, <1>3, <3>1, <3>2
    <3> HIDE DEF longer
    <3>6. \A n \in 1..Len(longer) : longer[n] = n
      BY <3>2, <3>3, <3>4
    <3>7. \A i \in Keys : \A n \in 1..Len(effects'[i]) : effects'[i][n] = n
      BY <3>5, <3>6 DEF RelayInv, ConsumerInv
    <3>8. 1..Len(longer) = 1..done \cup {m}
      BY <1>3, <1>4, <3>1, <3>2
    <3>9. processed' = UNION {{<<i, n>> : n \in 1..Len(effects'[i])} : i \in Keys}
      <4>1. ASSUME NEW x \in processed'
            PROVE  \E i \in Keys : \E n \in 1..Len(effects'[i]) : x = <<i, n>>
        <5>1. CASE x = <<k, m>>
          <6>1. m \in 1..Len(effects'[k])
            BY <3>5, <3>8
          <6> QED
            BY <1>3, <5>1, <6>1
        <5>2. CASE x \in processed
          <6>0. PICK i \in Keys : \E n \in 1..Len(effects[i]) : x = <<i, n>>
            BY <5>2 DEF RelayInv, ConsumerInv
          <6>1. PICK n \in 1..Len(effects[i]) : x = <<i, n>>
            BY <6>0
          <6>2. n \in 1..Len(effects'[i])
            BY <3>5, <3>8, <6>1 DEF done
          <6> QED
            BY <6>1, <6>2
        <5> QED
          BY <1>1, <5>1, <5>2
      <4>2. ASSUME NEW i \in Keys, NEW n \in 1..Len(effects'[i])
            PROVE  <<i, n>> \in processed'
        <5>1. CASE i = k /\ n = m
          BY <1>1, <5>1
        <5>2. CASE ~ (i = k /\ n = m)
          <6>1. n \in 1..Len(effects[i])
            BY <3>5, <3>8, <5>2 DEF done
          <6> QED
            BY <1>1, <1>5, <6>1
        <5> QED
          BY <5>1, <5>2
      <4> QED
        BY <4>1, <4>2
    <3> QED
      BY <3>5, <3>7, <3>9
  <2> QED
    BY <2>1, <2>2
<1>10. ConsumerInv'
  <2>1. \A i \in Ids \cup {id} : Relay!MessageOf(i)' = Relay!MessageOf(i)
    BY <1>1 DEF Relay!MessageOf
  <2>2. \A i \in 1..offset : Relay!MessageOf(topic[i])' \in processed'
    BY <1>1, <1>8 DEF Relay!MessageOf
  <2>3. Relay!MessageOf(topic[offset + 1])' \in processed'
    BY <1>1, <1>7 DEF Relay!MessageOf, id
  <2> QED
    BY <1>1, <1>9, <2>2, <2>3 DEF ConsumerInv
<1>11. unacked' \in BOOLEAN /\ (unacked' => offset' < Len(topic)) /\ offset' \in Nat /\ offset' <= Len(topic)
  BY <1>1, <1>2
<1> QED
  BY <1>1, <1>9, <1>10, <1>11, ConsumerStep

\* The offset goes past a message that was processed.
LEMMA AckKeeps ==
    ASSUME RelayInv, Relay!Ack PROVE RelayInv'
<1>1. /\ unacked /\ offset' = offset + 1 /\ unacked' = FALSE
      /\ UNCHANGED <<outbox, batch, sent, topic, processed, effects>>
  BY DEF Relay!Ack, Relay!relayVars
<1>2. offset \in Nat /\ Len(topic) \in Nat /\ offset < Len(topic) /\ effects \in [Keys -> Seq(Nat)]
  BY <1>1 DEF RelayInv, RelayTypes
<1>3. \A i \in 1..(offset + 1) : Relay!MessageOf(topic[i]) \in processed
  <2>1. \A i \in 1..(offset + 1) : i \in 1..offset \/ i = offset + 1
    BY <1>2
  <2>2. \A i \in 1..offset : Relay!MessageOf(topic[i]) \in processed
    BY DEF RelayInv, ConsumerInv
  <2>3. Relay!MessageOf(topic[offset + 1]) \in processed
    BY <1>1 DEF RelayInv, ConsumerInv
  <2> QED
    BY <2>1, <2>2, <2>3
<1>4. ConsumerInv'
  BY <1>1, <1>3 DEF RelayInv, ConsumerInv, Relay!MessageOf
<1>5. unacked' \in BOOLEAN /\ ~ unacked'
  BY <1>1
<1>6. offset' \in Nat /\ offset' <= Len(topic) /\ effects' \in [Keys -> Seq(Nat)]
  <2>1. offset' = offset + 1 /\ effects' = effects
    BY <1>1
  <2> QED
    BY <1>2, <2>1
<1> QED
  BY <1>1, <1>4, <1>5, <1>6, ConsumerStep

\* A record that will be delivered again stays processed.
LEMMA RedeliverKeeps ==
    ASSUME RelayInv, Relay!Redeliver PROVE RelayInv'
<1>1. /\ unacked' = FALSE
      /\ UNCHANGED <<outbox, batch, sent, topic, offset, processed, effects>>
  BY DEF Relay!Redeliver, Relay!relayVars
<1>2. offset \in Nat /\ offset <= Len(topic) /\ effects \in [Keys -> Seq(Nat)]
  BY DEF RelayInv, RelayTypes
<1>3. ConsumerInv'
  BY <1>1 DEF RelayInv, ConsumerInv, Relay!MessageOf
<1>4. unacked' \in BOOLEAN /\ ~ unacked'
  BY <1>1
<1> QED
  BY <1>1, <1>2, <1>3, <1>4, ConsumerStep

\* Steps that change nothing of it.
LEMMA RelayStutter ==
    ASSUME RelayInv, UNCHANGED <<outbox, batch, sent, topic, offset, unacked, processed, effects>>
    PROVE  RelayInv'
<1>1. offset \in Nat /\ offset <= Len(topic) /\ effects \in [Keys -> Seq(Nat)]
      /\ unacked \in BOOLEAN /\ (unacked => offset < Len(topic))
  BY DEF RelayInv, RelayTypes
<1>2. ConsumerInv'
  BY DEF RelayInv, ConsumerInv, Relay!MessageOf
<1> QED
  BY <1>1, <1>2, ConsumerStep

\* Every step of OutboxRelay keeps it.
LEMMA RelayStep == RelayInv /\ [Relay!Next]_Relay!vars => RelayInv'
<1> SUFFICES ASSUME RelayInv, [Relay!Next]_Relay!vars PROVE RelayInv'
  OBVIOUS
<1> USE DEF Relay!Next
<1>1. ASSUME NEW k \in Keys, NEW message \in 1..MaxRows, Relay!Write(k, message) PROVE RelayInv'
  BY <1>1, WriteKeeps
<1>2. ASSUME NEW id \in DOMAIN outbox, NEW state \in {"pending", "aborted"}, Relay!EndWrite(id, state)
      PROVE  RelayInv'
  BY <1>2, EndWriteKeeps
<1>3. CASE Relay!Fetch(Replica)
  BY <1>3, FetchKeeps
<1>4. CASE Relay!PollNothing(Replica)
  BY <1>4, RelayStutter
     DEF Relay!PollNothing, Relay!vars, Relay!relayVars, Relay!consumerVars
<1>5. CASE Relay!Send(Replica)
  BY <1>5, SendKeeps
<1>6. CASE Relay!CommitBatch(Replica)
  BY <1>6, CommitBatchKeeps
<1>7. CASE Relay!RelayCrash(Replica)
  BY <1>7, RelayCrashKeeps
<1>8. ASSUME NEW reached \in BOOLEAN, Relay!SendFails(Replica, reached) PROVE RelayInv'
  BY <1>8, SendFailsKeeps
<1>9. CASE Relay!Handle
  BY <1>9, HandleKeeps
<1>10. CASE Relay!Ack
  BY <1>10, AckKeeps
<1>11. CASE Relay!Redeliver
  BY <1>11, RedeliverKeeps
<1>12. CASE UNCHANGED Relay!vars
  BY <1>12, RelayStutter DEF Relay!vars, Relay!relayVars, Relay!consumerVars
<1> QED
  BY <1>1, <1>2, <1>3, <1>4, <1>5, <1>6, <1>7, <1>8, <1>9, <1>10, <1>11, <1>12

\* What is said of the relay follows from its invariant.
LEMMA RelayInvIsSound == RelayInv => RelayIsSound
<1> SUFFICES ASSUME RelayInv PROVE RelayIsSound
  OBVIOUS
<1>1. topic \in Seq(Nat) /\ Len(topic) \in Nat /\ outbox \in Seq(OutboxRow)
      /\ DOMAIN topic = 1..Len(topic) /\ DOMAIN outbox = Ids /\ effects \in [Keys -> Seq(Nat)]
  BY DEF RelayInv, RelayTypes, Ids
<1>2. Relay!OrderPerKey
  BY <1>1 DEF RelayInv, PredecessorFirst, Relay!OrderPerKey, Relay!MessageOf
<1>3. Relay!EffectsInOrderOnce
  <2> SUFFICES ASSUME NEW k \in Keys PROVE effects[k] = [n \in 1..Len(effects[k]) |-> n]
    BY DEF Relay!EffectsInOrderOnce
  <2>1. effects[k] \in Seq(Nat) /\ \A n \in 1..Len(effects[k]) : effects[k][n] = n
    BY <1>1 DEF RelayInv, ConsumerInv
  <2> QED
    BY <2>1
<1>4. Relay!NothingGivenUp
  <2>1. \A id \in Ids : outbox[id].state = "published" => \E i \in DOMAIN topic : topic[i] = id
    BY <1>1 DEF RelayInv, TopicInv, In
  <2>2. Relay!InState("published") \subseteq Relay!Range(topic)
    BY <1>1, <2>1 DEF Relay!InState, Relay!Range
  <2>3. \A i \in 1..offset : Relay!MessageOf(topic[i]) \in processed
    BY DEF RelayInv, ConsumerInv
  <2>4. \A i \in DOMAIN topic : outbox[topic[i]].state \in {"pending", "published"}
    BY <1>1 DEF RelayInv, TopicInv, Stored
  <2> QED
    BY <2>2, <2>3, <2>4 DEF Relay!NothingGivenUp
<1> QED
  BY <1>2, <1>3, <1>4 DEF RelayIsSound

\* Through failed sends, crashes and redeliveries, the messages of an order enter the
\* partition and take their effect in order, each once, and only what has its effect
\* is given up: of every service that has one relay (OutboxRelay, IdempotencyGuard).
THEOREM RelayIsSoundAlways == Relay!Spec => []RelayIsSound
<1>1. Relay!Spec => []RelayInv
  BY RelayInit, RelayStep, PTL DEF Relay!Spec
<1> QED
  BY <1>1, RelayInvIsSound, PTL

-----------------------------------------------------------------------------
(* The order service: the invariant of its intake.                         *)

\* The state of the intake, typed.
Answer == [status: {200, 202, 400, 409}, order: Requests \cup {NoOrder}]

IntakeTypes ==
    /\ request \in [Requests -> [key: IntakeKeys, body: Bodies]]
    /\ pc \in [Requests -> Intake!PC]
    /\ answers \in [Requests -> SUBSET Answer]
    /\ rows \in [IntakeKeys -> Requests \cup {NoOrder}]
    /\ placed \subseteq Requests

\* A row and its order.created are of one request, with that key and a valid body.
RowsPlaced ==
    /\ \A r \in placed : rows[request[r].key] = r /\ request[r].body \in ValidBodies
    /\ \A k \in IntakeKeys : rows[k] # NoOrder => rows[k] \in placed /\ request[rows[k]].key = k

\* One transaction at a time inserts under a key, and only while the key is free.
OneInsertion ==
    /\ \A r \in Requests :
         /\ pc[r] \in {"insert", "inserting"} => request[r].body \in ValidBodies
         /\ pc[r] = "inserting" => rows[request[r].key] = NoOrder
         /\ pc[r] = "reread" => rows[request[r].key] # NoOrder
    /\ \A r, q \in Requests :
         pc[r] = "inserting" /\ pc[q] = "inserting" /\ request[r].key = request[q].key => r = q

\* An answer holds for as long as the row does, which is for ever.
Stands(a, r) ==
    /\ a.status \in {200, 202} =>
         /\ a.order = rows[request[r].key] /\ a.order # NoOrder
         /\ request[a.order].body = request[r].body
    /\ a.status = 409 =>
         /\ rows[request[r].key] # NoOrder
         /\ request[rows[request[r].key]].body # request[r].body

\* The invariant of the intake: every answer given still stands.
IntakeInv ==
    /\ IntakeTypes /\ RowsPlaced /\ OneInsertion
    /\ \A r \in Requests : \A a \in answers[r] : Stands(a, r)

\* The key's row does not change under an answer that is added.
LEMMA AnswerKeeps ==
    ASSUME IntakeInv, NEW r \in Requests, NEW a \in Answer, Stands(a, r),
           answers' = [answers EXCEPT ![r] = @ \cup {a}],
           pc' = [pc EXCEPT ![r] = "answered"], UNCHANGED <<request, rows, placed>>
    PROVE  IntakeInv'
<1>1. IntakeTypes'
  BY DEF IntakeInv, IntakeTypes, Intake!PC
<1>2. RowsPlaced'
  BY DEF IntakeInv, RowsPlaced
<1>3. OneInsertion'
  BY DEF IntakeInv, IntakeTypes, OneInsertion
<1>4. ASSUME NEW q \in Requests, NEW b \in answers'[q] PROVE Stands(b, q)'
  <2>1. b \in answers[q] \/ (q = r /\ b = a)
    BY <1>4 DEF IntakeInv, IntakeTypes
  <2>2. Stands(b, q)
    BY <2>1 DEF IntakeInv
  <2> QED
    BY <2>2 DEF Stands
<1> QED
  BY <1>1, <1>2, <1>3, <1>4 DEF IntakeInv

\* Nor under a request that only goes on.
LEMMA GotoKeeps ==
    ASSUME IntakeInv, NEW r \in Requests, NEW label \in Intake!PC, pc' = [pc EXCEPT ![r] = label],
           UNCHANGED <<request, answers, rows, placed>>,
           label \in {"insert", "inserting"} => request[r].body \in ValidBodies,
           label = "inserting" =>
             /\ rows[request[r].key] = NoOrder
             /\ \A q \in Requests : pc[q] = "inserting" => request[q].key # request[r].key,
           label = "reread" => rows[request[r].key] # NoOrder
    PROVE  IntakeInv'
<1>1. IntakeTypes'
  BY DEF IntakeInv, IntakeTypes
<1>2. RowsPlaced'
  BY DEF IntakeInv, RowsPlaced
<1>3. OneInsertion'
  BY DEF IntakeInv, IntakeTypes, OneInsertion
<1>4. ASSUME NEW q \in Requests, NEW b \in answers'[q] PROVE Stands(b, q)'
  BY <1>4 DEF IntakeInv, Stands
<1> QED
  BY <1>1, <1>2, <1>3, <1>4 DEF IntakeInv

\* A known key answers with its order, or with 409 to another body.
LEMMA ReplayKeeps ==
    ASSUME IntakeInv, NEW r \in Requests, Intake!Existing(r) # NoOrder, Intake!Replay(r)
    PROVE  IntakeInv'
<1> DEFINE order == rows[request[r].key]
           a == [status |-> 200, order |-> order]
           b == [status |-> 409, order |-> NoOrder]
<1>1. order \in Requests
  BY DEF IntakeInv, IntakeTypes, Intake!Existing
<1>2. CASE request[r].body = request[order].body
  <2>1. a \in Answer /\ Stands(a, r)
    BY <1>1, <1>2 DEF Answer, Stands, Intake!Existing
  <2>2. /\ answers' = [answers EXCEPT ![r] = @ \cup {a}]
        /\ pc' = [pc EXCEPT ![r] = "answered"] /\ UNCHANGED <<request, rows, placed>>
    BY <1>2 DEF Intake!Replay, Intake!Existing, Intake!Answer, Intake!Goto
  <2> HIDE DEF a
  <2> QED
    BY <2>1, <2>2, AnswerKeeps
<1>3. CASE request[r].body # request[order].body
  <2>1. b \in Answer /\ Stands(b, r)
    BY <1>1, <1>3 DEF Answer, Stands, Intake!Existing
  <2>2. /\ answers' = [answers EXCEPT ![r] = @ \cup {b}]
        /\ pc' = [pc EXCEPT ![r] = "answered"] /\ UNCHANGED <<request, rows, placed>>
    BY <1>3 DEF Intake!Replay, Intake!Existing, Intake!Answer, Intake!Goto
  <2> HIDE DEF b
  <2> QED
    BY <2>1, <2>2, AnswerKeeps
<1> QED
  BY <1>2, <1>3

\* The commit takes a free key for the one request inserting under it.
LEMMA CommitKeeps ==
    ASSUME IntakeInv, NEW r \in Requests, Intake!Commit(r)
    PROVE  IntakeInv'
<1> DEFINE k == request[r].key
           a == [status |-> 202, order |-> r]
<1>1. /\ request \in [Requests -> [key: IntakeKeys, body: Bodies]] /\ k \in IntakeKeys
      /\ pc[r] = "inserting" /\ request[r].body \in ValidBodies /\ rows[k] = NoOrder
      /\ r # NoOrder /\ pc \in [Requests -> Intake!PC] /\ NoOrder \notin Requests
  BY PartAssumptions DEF IntakeInv, IntakeTypes, OneInsertion, Intake!Commit,
     Intake!IntakeAssumption
<1>2. /\ rows' = [rows EXCEPT ![k] = r] /\ placed' = placed \cup {r} /\ request' = request
      /\ answers' = answers \/ answers' = [answers EXCEPT ![r] = @ \cup {a}]
      /\ \E label \in {"answered", "lost"} : pc' = [pc EXCEPT ![r] = label]
  BY DEF Intake!Commit, Intake!Goto
<1>3. IntakeTypes'
  <2>1. a \in Answer
    BY DEF Answer
  <2> HIDE DEF a, k
  <2> QED
    BY <1>1, <1>2, <2>1 DEF IntakeInv, IntakeTypes, Intake!PC
<1>4. \A q \in IntakeKeys : rows'[q] = IF q = k THEN r ELSE rows[q]
  BY <1>1, <1>2 DEF IntakeInv, IntakeTypes
<1>5. \A q \in placed : request[q].key # k
  BY <1>1 DEF IntakeInv, IntakeTypes, RowsPlaced
<1>6. RowsPlaced'
  <2>1. \A q \in placed' : rows'[request'[q].key] = q /\ request'[q].body \in ValidBodies
    BY <1>1, <1>2, <1>4, <1>5 DEF IntakeInv, IntakeTypes, RowsPlaced
  <2>2. \A q \in IntakeKeys : rows'[q] # NoOrder => rows'[q] \in placed' /\ request'[rows'[q]].key = q
    BY <1>1, <1>2, <1>4 DEF IntakeInv, RowsPlaced
  <2> QED
    BY <2>1, <2>2 DEF RowsPlaced
<1>7. OneInsertion'
  <2>1. \A q \in Requests : (q # r /\ pc'[q] = pc[q]) \/ (q = r /\ pc'[q] \in {"answered", "lost"})
    BY <1>1, <1>2
  <2>2. \A q \in Requests : pc'[q] = "inserting" => request[q].key # k
    BY <1>1, <2>1 DEF IntakeInv, OneInsertion
  <2>3. \A q \in Requests : request[q].key \in IntakeKeys
    BY <1>1
  <2> QED
    BY <1>1, <1>2, <1>4, <2>1, <2>2, <2>3 DEF IntakeInv, OneInsertion
<1>8. ASSUME NEW q \in Requests, NEW b \in answers'[q] PROVE Stands(b, q)'
  <2>1. b \in answers[q] \/ (q = r /\ b = a)
    BY <1>2, <1>8 DEF IntakeInv, IntakeTypes
  <2>2. request[q].key \in IntakeKeys
    BY <1>1
  <2>3. CASE b \in answers[q]
    <3>1. Stands(b, q)
      BY <2>3 DEF IntakeInv
    <3> QED
      BY <1>1, <1>2, <1>4, <2>2, <3>1 DEF Stands
  <2>4. CASE q = r /\ b = a
    BY <1>1, <1>2, <1>4, <2>4 DEF Stands
  <2> QED
    BY <2>1, <2>3, <2>4
<1> QED
  BY <1>3, <1>6, <1>7, <1>8 DEF IntakeInv

\* No request under way, no order.
LEMMA IntakeInit == Intake!Init => IntakeInv
<1> SUFFICES ASSUME Intake!Init PROVE IntakeInv
  OBVIOUS
<1>1. IntakeTypes
  BY DEF Intake!Init, IntakeTypes, Intake!PC
<1>2. RowsPlaced /\ OneInsertion
  BY DEF Intake!Init, RowsPlaced, OneInsertion
<1> QED
  BY <1>1, <1>2 DEF Intake!Init, IntakeInv

\* Every step of a request keeps the keys and the answers.
LEMMA IntakeStep == IntakeInv /\ [Intake!Next]_(Intake!vars) => IntakeInv'
<1> SUFFICES ASSUME IntakeInv, [Intake!Next]_(Intake!vars) PROVE IntakeInv'
  OBVIOUS
<1>1. CASE UNCHANGED Intake!vars
  BY <1>1 DEF Intake!vars, IntakeInv, IntakeTypes, RowsPlaced, OneInsertion, Stands
<1>2. ASSUME NEW r \in Requests, Intake!FindByIdempotencyKey(r) PROVE IntakeInv'
  <2>1. CASE Intake!Existing(r) # NoOrder
    BY <1>2, <2>1, ReplayKeeps DEF Intake!FindByIdempotencyKey
  <2>2. CASE Intake!Existing(r) = NoOrder
    BY <1>2, <2>2, GotoKeeps DEF Intake!FindByIdempotencyKey, Intake!Goto, Intake!PC
  <2> QED
    BY <2>1, <2>2
<1>3. ASSUME NEW r \in Requests, Intake!Validate(r) PROVE IntakeInv'
  <2>1. CASE request[r].body \in ValidBodies
    BY <1>3, <2>1, GotoKeeps DEF Intake!Validate, Intake!Goto, Intake!PC
  <2>2. CASE request[r].body \notin ValidBodies
    <3> DEFINE a == [status |-> 400, order |-> NoOrder]
    <3>1. a \in Answer /\ Stands(a, r)
      BY DEF Answer, Stands
    <3>2. /\ answers' = [answers EXCEPT ![r] = @ \cup {a}]
          /\ pc' = [pc EXCEPT ![r] = "answered"] /\ UNCHANGED <<request, rows, placed>>
      BY <1>3, <2>2 DEF Intake!Validate, Intake!Answer, Intake!Goto
    <3> HIDE DEF a
    <3> QED
      BY <3>1, <3>2, AnswerKeeps
  <2> QED
    BY <2>1, <2>2
<1>4. ASSUME NEW r \in Requests, Intake!Insert(r) PROVE IntakeInv'
  <2>1. pc[r] = "insert" /\ request[r].body \in ValidBodies
    BY <1>4 DEF Intake!Insert, IntakeInv, OneInsertion
  <2>2. \A q \in Requests : pc[q] = "inserting" => request[q].key # request[r].key
    BY <1>4 DEF Intake!Insert, Intake!Inserting
  <2>3. CASE Intake!Existing(r) = NoOrder
    BY <1>4, <2>1, <2>2, <2>3, GotoKeeps DEF Intake!Insert, Intake!Goto, Intake!PC,
       Intake!Existing
  <2>4. CASE Intake!Existing(r) # NoOrder
    BY <1>4, <2>4, GotoKeeps DEF Intake!Insert, Intake!Goto, Intake!PC, Intake!Existing
  <2> QED
    BY <2>3, <2>4
<1>5. ASSUME NEW r \in Requests, Intake!Commit(r) PROVE IntakeInv'
  BY <1>5, CommitKeeps
<1>6. ASSUME NEW r \in Requests, Intake!ReRead(r) PROVE IntakeInv'
  BY <1>6, ReplayKeeps DEF Intake!ReRead, Intake!Existing, IntakeInv, OneInsertion
<1>7. ASSUME NEW r \in Requests, Intake!Abort(r) \/ Intake!Resend(r) PROVE IntakeInv'
  <2>1. CASE Intake!Abort(r)
    BY <2>1, GotoKeeps DEF Intake!Abort, Intake!Goto, Intake!PC
  <2>2. CASE Intake!Resend(r)
    BY <2>2, GotoKeeps DEF Intake!Resend, Intake!Goto, Intake!PC
  <2> QED
    BY <1>7, <2>1, <2>2
<1> QED
  BY <1>1, <1>2, <1>3, <1>4, <1>5, <1>6, <1>7 DEF Intake!Next

\* The inductive invariant of the intake.
LEMMA IntakeInvariant == Intake!Spec => []IntakeInv
BY IntakeInit, IntakeStep, PTL DEF Intake!Spec

\* However many requests carry a key, at once, again, or with other bodies, it makes at
\* most one order, its row and order.created together, and whoever is told of an order
\* is told of that one and sent that body.
THEOREM KeysAreKeptAlways == Intake!Spec => []KeysAreKept
<1>1. IntakeInv => Intake!OneOrderPerKey
  <2> SUFFICES ASSUME IntakeInv PROVE Intake!OneOrderPerKey
    OBVIOUS
  <2>1. \A p, q \in placed : request[p].key = request[q].key => p = q
    BY DEF IntakeInv, RowsPlaced
  <2>2. NoOrder \notin Requests
    BY PartAssumptions DEF Intake!IntakeAssumption
  <2>3. placed = {rows[k] : k \in IntakeKeys} \ {NoOrder}
    BY <2>2 DEF IntakeInv, IntakeTypes, RowsPlaced
  <2> QED
    BY <2>1, <2>3 DEF Intake!OneOrderPerKey
<1>2. IntakeInv => Intake!AnswersAgree
  <2> SUFFICES ASSUME IntakeInv PROVE Intake!AnswersAgree
    OBVIOUS
  <2>1. ASSUME NEW k \in IntakeKeys PROVE Intake!Answered(k, {200, 202}) \subseteq {rows[k]}
    BY DEF Intake!Answered, IntakeInv, Stands
  <2>2. ASSUME NEW r \in Requests, NEW a \in answers[r], a.status \in {200, 202}
        PROVE  request[a.order].body = request[r].body /\ request[r].body \in ValidBodies
    <3>1. Stands(a, r) /\ request[r].key \in IntakeKeys
      BY DEF IntakeInv, IntakeTypes
    <3> QED
      BY <2>2, <3>1 DEF Stands, IntakeInv, RowsPlaced
  <2>3. ASSUME NEW r \in Requests, NEW a \in answers[r], a.status = 409
        PROVE  Intake!Existing(r) # NoOrder /\ request[Intake!Existing(r)].body # request[r].body
    <3>1. Stands(a, r)
      BY DEF IntakeInv
    <3> QED
      BY <2>3, <3>1 DEF Stands, Intake!Existing
  <2> QED
    BY <2>1, <2>2, <2>3 DEF Intake!AnswersAgree
<1> QED
  BY <1>1, <1>2, IntakeInvariant, PTL DEF KeysAreKept
=============================================================================
