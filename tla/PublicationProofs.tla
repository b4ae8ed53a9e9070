--------------------------- MODULE PublicationProofs ---------------------------
(***************************************************************************)
(* Theorems about the publication of a pack, for any prices and any number *)
(* of publishers.  The first three hold whatever else happens to the pack, *)
(* the last one without what Freedom adds.                                 *)
(***************************************************************************)
EXTENDS Publication, TLAPS

Places == {"idle", "marked", "priced", "sent", "saving", "stored", "written"}

\* What the shop makes of a request to an existing row is a row again; content
\* and a price object, once there, stay, and only a request that may be listed
\* brings content.
LEMMA UpdatedRow ==
  ASSUME NEW old \in PackRow, NEW request \in Request, NEW bills \in BOOLEAN,
         row \in PackRow,
         old.pointer # Stub => row.pointer # Stub,
         old.content => row.content,
         request.go => request.pointer # Stub
  PROVE  LET new == Updated(old, request, bills)
         IN  /\ new \in PackRow
             /\ new.price = row.price
             /\ row.pointer # Stub => new.pointer # Stub
             /\ row.content => new.content
             /\ request.go => new.content /\ new.pointer # Stub
             /\ new.content => row.content \/ request.go
             /\ new.listed => row.listed \/ request.go
             /\ new.pointer = row.pointer
                  \/ /\ old.pointer = Stub /\ request.pointer # Stub
                     /\ new.pointer = request.pointer
  <1> DEFINE pointer == Column(old.pointer, PointerOf(old, request), row.pointer)
             content == Column(old.content, old.content \/ request.go, row.content)
             listed == Column(old.listed, request.go /\ bills, row.listed)
  <1>1. /\ old.pointer \in Pointer /\ row.pointer \in Pointer /\ request.pointer \in Pointer
        /\ old.content \in BOOLEAN /\ row.content \in BOOLEAN /\ request.go \in BOOLEAN
        /\ old.listed \in BOOLEAN /\ row.listed \in BOOLEAN /\ row.price \in Amount
    BY DEF PackRow, Request
  <1>2. Updated(old, request, bills)
          = [price |-> row.price, pointer |-> pointer, content |-> content, listed |-> listed]
    BY DEF Updated, SendsContent
  <1>3. /\ pointer \in Pointer
        /\ row.pointer # Stub => pointer # Stub
        /\ request.go => pointer # Stub
        /\ \/ pointer = row.pointer
           \/ /\ old.pointer = Stub /\ request.pointer # Stub
              /\ pointer = request.pointer
    BY <1>1 DEF Column, PointerOf
  <1>4. /\ content \in BOOLEAN
        /\ row.content => content
        /\ request.go => content
        /\ content => row.content \/ request.go
    BY <1>1 DEF Column
  <1>5. listed \in BOOLEAN /\ (listed => row.listed \/ request.go)
    BY <1>1 DEF Column
  <1> HIDE DEF pointer, content, listed
  <1>6. [price |-> row.price, pointer |-> pointer, content |-> content, listed |-> listed]
          \in PackRow
    BY <1>1, <1>3, <1>4, <1>5 DEF PackRow
  <1> QED
    BY <1>2, <1>3, <1>4, <1>5, <1>6

\* What Leave does, publisher by publisher.
LEMMA LeaveClears ==
  ASSUME TypeOK, NEW w \in Publisher, Leave(w)
  PROVE  /\ pc' \in [Publisher -> Places]
         /\ ask' \in [Publisher -> Request \cup {None}]
         /\ mine' \in [Publisher -> BOOLEAN]
         /\ seen' \in [Publisher -> PackRow \cup {None}]
         /\ pc'[w] = "idle" /\ ask'[w] = None /\ mine'[w] = FALSE /\ seen'[w] = None
         /\ \A v \in Publisher \ {w} :
              pc'[v] = pc[v] /\ ask'[v] = ask[v] /\ mine'[v] = mine[v] /\ seen'[v] = seen[v]
  BY DEF TypeOK, Leave, Places

-----------------------------------------------------------------------------
(***************************************************************************)
(* Saving, the one step that changes the row for a publisher               *)
(***************************************************************************)
\* The row after a save: still a row, with content only if it can be charged,
\* and nothing of what it had is gone.
LEMMA SavedRow ==
  ASSUME PublicationInv, NEW w \in Publisher, Save(w)
  PROVE  /\ row' \in PackRow
         /\ row'.content => row'.pointer # Stub
         /\ Registered => /\ row.pointer # Stub => row'.pointer # Stub
                          /\ row.content => row'.content
                          /\ row'.listed => row.listed \/ row'.content
                          /\ row'.price = row.price
         /\ ~Registered => /\ row'.listed => row'.content
                           /\ row'.price = ask[w].price
                           /\ row'.pointer = ask[w].pointer
         /\ Registered /\ row'.pointer # row.pointer =>
              /\ seen[w] # None /\ seen[w].pointer = Stub
              /\ row'.pointer = ask[w].pointer /\ ask[w].pointer # Stub
  <1> USE DEF PublicationInv
  <1>1. ask[w] \in Request /\ (ask[w].go => ask[w].pointer # Stub)
    BY DEF Save, TypeOK, RequestsHold, Pending
  <1>2. CASE seen[w] = None
    <2>1. ~Registered
      BY <1>2 DEF Save
    <2>2. PICK bills \in Bills(ask[w].pointer) : row' = Inserted(ask[w], bills)
      BY <1>2 DEF Save
    <2>3. bills \in BOOLEAN
      BY DEF Bills
    <2>4. row' = [price |-> ask[w].price, pointer |-> ask[w].pointer,
                  content |-> ask[w].go, listed |-> ask[w].go /\ bills]
      BY <2>2 DEF Inserted, SendsContent
    <2>5. /\ ask[w].price \in Amount /\ ask[w].pointer \in Pointer
          /\ ask[w].go \in BOOLEAN
      BY <1>1 DEF Request
    <2> QED
      BY <1>1, <2>1, <2>3, <2>4, <2>5 DEF PackRow
  <1>3. CASE seen[w] # None
    <2>1. /\ seen[w] \in PackRow /\ Registered
          /\ seen[w].pointer # Stub => row.pointer # Stub
          /\ seen[w].content => row.content
      BY <1>3 DEF TypeOK, RequestsHold
    <2>2. row \in PackRow
      BY <2>1 DEF TypeOK, Registered
    <2>3. PICK bills \in Bills(PointerOf(seen[w], ask[w])) :
            row' = Updated(seen[w], ask[w], bills)
      BY <1>3 DEF Save
    <2>4. bills \in BOOLEAN
      BY DEF Bills
    <2>5. row.content => row.pointer # Stub
      BY <2>1 DEF ContentIsPriced
    <2>6. row.content \in BOOLEAN /\ row.listed \in BOOLEAN
      BY <2>2 DEF PackRow
    <2> DEFINE new == Updated(seen[w], ask[w], bills)
    <2>7. /\ new \in PackRow
          /\ new.price = row.price
          /\ row.pointer # Stub => new.pointer # Stub
          /\ row.content => new.content
          /\ ask[w].go => new.content /\ new.pointer # Stub
          /\ new.content => row.content \/ ask[w].go
          /\ new.listed => row.listed \/ ask[w].go
          /\ new.pointer = row.pointer
               \/ /\ seen[w].pointer = Stub /\ ask[w].pointer # Stub
                  /\ new.pointer = ask[w].pointer
      BY <1>1, <2>1, <2>2, <2>4, UpdatedRow
    <2> HIDE DEF new
    <2>8. row' = new
      BY <2>3 DEF new
    <2> QED
      BY <1>3, <2>1, <2>5, <2>7, <2>8
  <1> QED
    BY <1>2, <1>3

-----------------------------------------------------------------------------
(***************************************************************************)
(* The inductive invariant                                                 *)
(***************************************************************************)
LEMMA InitInv == Init => PublicationInv
  BY DEF Init, PublicationInv, TypeOK, RequestsHold, ContentIsPriced, TraceKept,
         Pending, Registered

\* A publisher on its way to the shop: the row is not touched.
LEMMA WayInv ==
  ASSUME PublicationInv, NEW w \in Publisher, Mark(w) \/ Decide(w) \/ Resolve(w) \/ Find(w)
  PROVE  PublicationInv'
  <1> USE DEF PublicationInv, Goto
  <1>1. CASE Mark(w)
    <2>1. TypeOK'
      BY <1>1 DEF Mark, TypeOK
    <2>2. RequestsHold'
      BY <1>1 DEF Mark, TypeOK, RequestsHold, Pending, Registered
    <2>3. ContentIsPriced' /\ TraceKept'
      BY <1>1 DEF Mark, TypeOK, ContentIsPriced, TraceKept, Registered
    <2> QED
      BY <2>1, <2>2, <2>3
  <1>2. CASE Decide(w)
    <2>1. PICK fit \in BOOLEAN :
            ask' = [ask EXCEPT ![w] = [price |-> ladder, pointer |-> Stub, go |-> fit]]
      BY <1>2 DEF Decide
    <2>2. [price |-> ladder, pointer |-> Stub, go |-> fit] \in Request
      BY DEF Request, Pointer, TypeOK
    <2>3. TypeOK'
      BY <1>2, <2>1, <2>2 DEF Decide, TypeOK, shopVars, traceVars
    <2>4. RequestsHold'
      BY <1>2, <2>1, <2>2, NoneAssumption
         DEF Decide, TypeOK, RequestsHold, Pending, Registered, shopVars, traceVars
    <2>5. ContentIsPriced' /\ TraceKept'
      BY <1>2 DEF Decide, TypeOK, ContentIsPriced, TraceKept, Registered, shopVars, traceVars
    <2> QED
      BY <2>3, <2>4, <2>5
  <1>3. CASE Resolve(w)
    <2>1. ask[w] \in Request
      BY <1>3 DEF Resolve, TypeOK, RequestsHold, Pending
    <2>2. PICK new : /\ new \in Request
                     /\ new.go => new.pointer # Stub
                     /\ ask' = [ask EXCEPT ![w] = new]
      <3>1. CASE Reuse(w)
        <4>1. row \in PackRow /\ row.pointer \in Amount
          BY <3>1 DEF Reuse, Billable, Registered, TypeOK, PackRow, Pointer
        <4>2. PICK clear \in BOOLEAN :
                ask' = [ask EXCEPT ![w] = [price |-> row.pointer, pointer |-> row.pointer,
                                           go |-> ask[w].go /\ clear]]
          BY <3>1 DEF Reuse, TypeOK
        <4>3. [price |-> row.pointer, pointer |-> row.pointer, go |-> ask[w].go /\ clear]
                \in Request
          BY <2>1, <4>1 DEF Request, Pointer
        <4>4. row.pointer # Stub
          BY <3>1 DEF Reuse, Billable
        <4> QED
          BY <4>2, <4>3, <4>4
      <3>2. CASE Mint(w)
        <4>1. PICK pointer \in {Stub} \cup (IF ask[w].go THEN {ask[w].price} ELSE {}),
                   clear \in BOOLEAN :
                ask' = [ask EXCEPT ![w] = [price |-> ask[w].price, pointer |-> pointer,
                                           go |-> ask[w].go /\ clear /\ pointer # Stub]]
          BY <3>2 DEF Mint, TypeOK
        <4>2. [price |-> ask[w].price, pointer |-> pointer,
               go |-> ask[w].go /\ clear /\ pointer # Stub] \in Request
          BY <2>1, <4>1 DEF Request, Pointer
        <4> QED
          BY <4>1, <4>2
      <3> QED
        BY <1>3, <3>1, <3>2 DEF Resolve
    <2>3. TypeOK'
      BY <1>3, <2>2 DEF Resolve, TypeOK, shopVars, traceVars
    <2>4. RequestsHold'
      BY <1>3, <2>2, NoneAssumption
         DEF Resolve, TypeOK, RequestsHold, Pending, Registered, shopVars, traceVars
    <2>5. ContentIsPriced' /\ TraceKept'
      BY <1>3 DEF Resolve, TypeOK, ContentIsPriced, TraceKept, Registered, shopVars, traceVars
    <2> QED
      BY <2>3, <2>4, <2>5
  <1>4. CASE Find(w)
    <2>1. TypeOK'
      BY <1>4 DEF Find, TypeOK, traceVars
    <2>2. RequestsHold'
      BY <1>4 DEF Find, TypeOK, RequestsHold, Pending, Registered, traceVars
    <2>3. ContentIsPriced' /\ TraceKept'
      BY <1>4 DEF Find, TypeOK, ContentIsPriced, TraceKept, Registered, traceVars
    <2> QED
      BY <2>1, <2>2, <2>3
  <1> QED
    BY <1>1, <1>2, <1>3, <1>4

LEMMA SaveInv ==
  ASSUME PublicationInv, NEW w \in Publisher, Save(w)
  PROVE  PublicationInv'
  <1> USE DEF PublicationInv
  <1>1. /\ row' \in PackRow
        /\ row'.content => row'.pointer # Stub
        /\ Registered => /\ row.pointer # Stub => row'.pointer # Stub
                         /\ row.content => row'.content
    BY SavedRow
  <1>2. Registered'
    BY <1>1, NoneAssumption DEF Registered
  <1>3. /\ pc' \in [Publisher -> Places]
        /\ ask' \in [Publisher -> Request \cup {None}]
        /\ mine' \in [Publisher -> BOOLEAN]
        /\ seen' \in [Publisher -> PackRow \cup {None}]
        /\ pc'[w] \in {"idle", "stored"} /\ ask'[w] = None /\ seen'[w] = None
        /\ mine'[w] => pc'[w] # "idle"
        /\ \A v \in Publisher \ {w} :
             pc'[v] = pc[v] /\ ask'[v] = ask[v] /\ mine'[v] = mine[v] /\ seen'[v] = seen[v]
    <2>1. CASE Leave(w)
      BY <2>1, LeaveClears
    <2>2. CASE /\ Goto(w, "stored")
               /\ ask' = [ask EXCEPT ![w] = None]
               /\ seen' = [seen EXCEPT ![w] = None]
               /\ UNCHANGED mine
      BY <2>2 DEF TypeOK, Goto, Places
    <2> QED
      BY <2>1, <2>2 DEF Save
  <1>4. TypeOK'
    BY <1>1, <1>3 DEF Save, TypeOK, Places
  <1>5. RequestsHold'
    BY <1>1, <1>2, <1>3 DEF TypeOK, RequestsHold, Pending
  <1>6. ContentIsPriced'
    BY <1>1 DEF ContentIsPriced
  <1>7. TraceKept'
    BY <1>3 DEF Save, TypeOK, TraceKept
  <1> QED
    BY <1>4, <1>5, <1>6, <1>7

\* A publisher at its end, whatever end.
LEMMA EndInv ==
  ASSUME PublicationInv, NEW w \in Publisher, WriteListing(w) \/ Clear(w) \/ Fail(w)
  PROVE  PublicationInv'
  <1> USE DEF PublicationInv
  <1>1. CASE WriteListing(w)
    <2>1. TypeOK'
      BY <1>1 DEF WriteListing, Goto, TypeOK, shopVars
    <2>2. RequestsHold'
      BY <1>1 DEF WriteListing, Goto, TypeOK, RequestsHold, Pending, Registered, shopVars
    <2>3. ContentIsPriced' /\ TraceKept'
      BY <1>1 DEF WriteListing, Goto, TypeOK, ContentIsPriced, TraceKept, Registered, shopVars
    <2> QED
      BY <2>1, <2>2, <2>3
  <1>2. CASE Clear(w) \/ Fail(w)
    <2>1. /\ Leave(w) /\ UNCHANGED <<row, ladder, receipt, archived, unmarked>>
          /\ marker' \in BOOLEAN
          /\ marker' = marker \/ pc[w] = "written"
      BY <1>2 DEF Clear, Fail, TypeOK
    <2>2. /\ pc' \in [Publisher -> Places]
          /\ ask' \in [Publisher -> Request \cup {None}]
          /\ mine' \in [Publisher -> BOOLEAN]
          /\ seen' \in [Publisher -> PackRow \cup {None}]
          /\ pc'[w] = "idle" /\ ask'[w] = None /\ mine'[w] = FALSE /\ seen'[w] = None
          /\ \A v \in Publisher \ {w} :
               pc'[v] = pc[v] /\ ask'[v] = ask[v] /\ mine'[v] = mine[v] /\ seen'[v] = seen[v]
      BY <2>1, LeaveClears
    <2>3. TypeOK'
      BY <2>1, <2>2 DEF TypeOK, Places
    <2>4. RequestsHold'
      BY <2>1, <2>2 DEF RequestsHold, Pending, Registered
    <2>5. ContentIsPriced' /\ TraceKept'
      BY <2>1, <2>2 DEF ContentIsPriced, TraceKept, Registered
    <2> QED
      BY <2>3, <2>4, <2>5
  <1> QED
    BY <1>1, <1>2

\* What else happens to the pack: a row stays one and keeps its content, and
\* its pointer unless it gets a new price object.
LEMMA ElseInv ==
  ASSUME PublicationInv, Reprice \/ PatchListing \/ MoveLadder \/ Archive
  PROVE  PublicationInv'
  <1> USE DEF PublicationInv
  <1>1. CASE Reprice \/ PatchListing
    <2>1. Registered /\ row \in PackRow
      BY <1>1 DEF Reprice, PatchListing, TypeOK, Registered
    <2>2. /\ row' \in PackRow
          /\ row'.content = row.content
          /\ row.pointer # Stub => row'.pointer # Stub
      <3>1. CASE Reprice
        <4>1. PICK amount \in Amount :
                \/ row' = [row EXCEPT !.price = amount, !.pointer = amount]
                \/ row' = [row EXCEPT !.price = amount]
          BY <3>1 DEF Reprice
        <4>2. amount # Stub
          BY PublicationAssumption
        <4> QED
          BY <2>1, <4>1, <4>2 DEF PackRow, Pointer
      <3>2. CASE PatchListing
        BY <2>1, <3>2 DEF PatchListing, PackRow
      <3> QED
        BY <1>1, <3>1, <3>2
    <2>3. Registered'
      BY <2>2, NoneAssumption DEF Registered
    <2>4. UNCHANGED <<ladder, pc, ask, seen, traceVars>>
      BY <1>1 DEF Reprice, PatchListing
    <2>5. TypeOK'
      BY <2>2, <2>4 DEF TypeOK, traceVars
    <2>6. RequestsHold'
      BY <2>2, <2>3, <2>4 DEF RequestsHold, Pending
    <2>7. ContentIsPriced' /\ TraceKept'
      BY <2>1, <2>2, <2>4 DEF ContentIsPriced, TraceKept, traceVars
    <2> QED
      BY <2>5, <2>6, <2>7
  <1>2. CASE MoveLadder
    BY <1>2 DEF MoveLadder, TypeOK, RequestsHold, Pending, ContentIsPriced, TraceKept,
                Registered, shopVars, traceVars
  <1>3. CASE Archive
    BY <1>3 DEF Archive, TypeOK, RequestsHold, Pending, ContentIsPriced, TraceKept,
                Registered, shopVars
  <1> QED
    BY <1>1, <1>2, <1>3

LEMMA StepInv == PublicationInv /\ [Next]_vars => PublicationInv'
  <1> SUFFICES ASSUME PublicationInv, [Next]_vars
               PROVE  PublicationInv'
    OBVIOUS
  <1>1. CASE \E w \in Publisher : Publish(w)
    BY <1>1, WayInv, SaveInv, EndInv DEF Publish
  <1>2. CASE Reprice \/ PatchListing \/ MoveLadder \/ Archive
    BY <1>2, ElseInv
  <1>3. CASE UNCHANGED vars
    BY <1>3 DEF vars, PublicationInv, TypeOK, RequestsHold, Pending, ContentIsPriced,
                TraceKept, Registered
  <1> QED
    BY <1>1, <1>2, <1>3 DEF Next

\* PublicationInv holds of any number of publishers, whatever else happens to
\* the pack (publish.py, bridge.py, POST /internal/catalog).
THEOREM Invariance == Spec => []PublicationInv
  BY InitInv, StepInv, PTL DEF Spec

\* At every moment a pack on sale without a receipt has a marker, or the marker
\* could not be written, or its receipt was archived (publish.py).
THEOREM TracesStay == Spec => []Traced
  <1>1. PublicationInv => Traced
    BY DEF PublicationInv, TraceKept, Traced, Listed
  <1> QED
    BY <1>1, Invariance, PTL

-----------------------------------------------------------------------------
(***************************************************************************)
(* On sale means deliverable and billable                                  *)
(***************************************************************************)
LEMMA SellableStep ==
  ASSUME PublicationInv, PublicationInv', Sellable, [Next]_vars
  PROVE  Sellable'
  <1>1. Listed' /\ row'.content => row'.pointer # Stub
    BY DEF PublicationInv, ContentIsPriced, Listed
  <1>2. Listed' => row'.content
    <2>1. CASE UNCHANGED row
      BY <2>1 DEF Sellable, Listed, Registered
    <2>2. ASSUME NEW w \in Publisher, Save(w)
          PROVE  Listed' => row'.content
      BY <2>2, SavedRow DEF Sellable, Listed
    <2>3. CASE Reprice
      <3>1. Registered /\ row \in PackRow
        BY <2>3 DEF Reprice, PublicationInv, TypeOK, Registered
      <3>2. row'.content = row.content /\ row'.listed = row.listed
        BY <2>3, <3>1 DEF Reprice, PackRow
      <3> QED
        BY <3>1, <3>2 DEF Sellable, Listed
    <2>4. CASE PatchListing
      <3>1. Registered /\ row \in PackRow
        BY <2>4 DEF PatchListing, PublicationInv, TypeOK, Registered
      <3>2. row'.content = row.content /\ (row'.listed => row.content)
        BY <2>4, <3>1 DEF PatchListing, PackRow
      <3> QED
        BY <3>2 DEF Listed
    <2> QED
      BY <2>1, <2>2, <2>3, <2>4
         DEF Next, Publish, Mark, Decide, Resolve, Find, WriteListing, Clear, Fail,
             MoveLadder, Archive, vars, shopVars
  <1> QED
    BY <1>1, <1>2 DEF Sellable

\* Whatever the order of publications, re-pricings and listings, a pack on sale
\* has content to deliver and a price object to charge (listing_blockers,
\* POST /internal/catalog, PATCH /internal/catalog/{id}/listing).
THEOREM OnSaleIsSellable == Spec => []Sellable
  <1>1. Init => Sellable
    BY DEF Init, Sellable, Listed, Registered
  <1>2. PublicationInv /\ PublicationInv' /\ Sellable /\ [Next]_vars => Sellable'
    BY SellableStep
  <1> QED
    BY <1>1, <1>2, Invariance, PTL DEF Spec

-----------------------------------------------------------------------------
(***************************************************************************)
(* Charged as shown                                                        *)
(***************************************************************************)
\* Before the shop has a price object nothing but the ladder decides a price.
LEMMA RailWay ==
  ASSUME PublicationInv, RailInv, NEW w \in Publisher,
         Mark(w) \/ Decide(w) \/ Resolve(w) \/ Find(w)
  PROVE  RailInv'
  <1> USE DEF Goto
  <1>1. TypeOK /\ RequestsHold
    BY DEF PublicationInv
  <1>2. CASE Mark(w)
    BY <1>1, <1>2 DEF Mark, TypeOK, RailInv, Pending, Billable, Registered
  <1>3. CASE Decide(w)
    BY <1>1, <1>3 DEF Decide, TypeOK, RequestsHold, RailInv, Pending, Billable, Registered,
                      shopVars, traceVars
  <1>4. CASE Resolve(w)
    <2>1. seen[w] = None /\ ask[w] \in Request /\ Pending(w)
      BY <1>1, <1>4 DEF Resolve, TypeOK, RequestsHold, Pending
    <2>2. PICK new : /\ ask' = [ask EXCEPT ![w] = new]
                     /\ new.pointer \in {new.price, Stub}
                     /\ ~Billable => new.price = ladder
      <3>1. CASE Reuse(w)
        <4>1. PICK clear \in BOOLEAN :
                ask' = [ask EXCEPT ![w] = [price |-> row.pointer, pointer |-> row.pointer,
                                           go |-> ask[w].go /\ clear]]
          BY <1>1, <3>1 DEF Reuse, TypeOK
        <4> QED
          BY <3>1, <4>1 DEF Reuse
      <3>2. CASE Mint(w)
        <4>1. PICK pointer \in {Stub} \cup (IF ask[w].go THEN {ask[w].price} ELSE {}),
                   clear \in BOOLEAN :
                ask' = [ask EXCEPT ![w] = [price |-> ask[w].price, pointer |-> pointer,
                                           go |-> ask[w].go /\ clear /\ pointer # Stub]]
          BY <1>1, <3>2 DEF Mint, TypeOK
        <4> DEFINE new == [price |-> ask[w].price, pointer |-> pointer,
                           go |-> ask[w].go /\ clear /\ pointer # Stub]
        <4>2. new.price = ask[w].price /\ new.pointer = pointer
          OBVIOUS
        <4>3. pointer \in {ask[w].price, Stub}
          BY <4>1
        <4>4. ~Billable => ask[w].price = ladder
          BY <2>1 DEF RailInv
        <4>5. ask' = [ask EXCEPT ![w] = new]
          BY <4>1
        <4> HIDE DEF new
        <4> QED
          BY <4>2, <4>3, <4>4, <4>5
      <3> QED
        BY <1>4, <3>1, <3>2 DEF Resolve
    <2> QED
      BY <1>1, <1>4, <2>1, <2>2
         DEF Resolve, TypeOK, RailInv, Pending, Billable, Registered, shopVars, traceVars
  <1>5. CASE Find(w)
    BY <1>1, <1>5 DEF Find, TypeOK, RailInv, Pending, Billable, Registered, traceVars
  <1> QED
    BY <1>2, <1>3, <1>4, <1>5

\* A save leaves the price, or inserts that of the request; if it moves the
\* pointer, then to the price of the row.
LEMMA RailSave ==
  ASSUME PublicationInv, RailInv, NEW w \in Publisher, Save(w)
  PROVE  RailInv'
  <1>1. TypeOK /\ RequestsHold
    BY DEF PublicationInv
  <1>2. /\ row' \in PackRow
        /\ Registered => /\ row.pointer # Stub => row'.pointer # Stub
                         /\ row'.price = row.price
        /\ ~Registered => /\ row'.price = ask[w].price
                          /\ row'.pointer = ask[w].pointer
        /\ Registered /\ row'.pointer # row.pointer =>
             /\ seen[w] # None /\ seen[w].pointer = Stub
             /\ row'.pointer = ask[w].pointer /\ ask[w].pointer # Stub
    BY SavedRow
  <1>3. Registered' /\ ladder' = ladder
    BY <1>2, NoneAssumption DEF Registered, Save
  <1>4. Pending(w) /\ ~Pending(w)' /\ seen'[w] = None
    BY <1>1 DEF Save, Pending, Goto, Leave, TypeOK
  <1>5. \A v \in Publisher \ {w} :
          ask'[v] = ask[v] /\ seen'[v] = seen[v] /\ pc'[v] = pc[v]
    BY <1>1 DEF Save, Goto, Leave, TypeOK
  <1>6. ask[w].pointer \in {ask[w].price, Stub} /\ (~Billable => ask[w].price = ladder)
    BY <1>4 DEF RailInv
  <1>7. row'.price = IF Billable' THEN row'.pointer ELSE ladder'
    <2>1. CASE ~Registered
      BY <1>2, <1>3, <1>6, <2>1 DEF Billable
    <2>2. CASE Registered /\ row'.pointer # row.pointer
      BY <1>2, <1>3, <1>6, <2>2 DEF Billable, RailInv
    <2>3. CASE Registered /\ row'.pointer = row.pointer
      BY <1>2, <1>3, <2>3 DEF Billable, RailInv
    <2> QED
      BY <2>1, <2>2, <2>3
  <1>8. Billable => Billable'
    BY <1>2, <1>3 DEF Billable
  <1>9. \A v \in Publisher :
          Pending(v)' => /\ ask'[v].pointer \in {ask'[v].price, Stub}
                         /\ ~Billable' => ask'[v].price = ladder'
    BY <1>3, <1>4, <1>5, <1>8 DEF RailInv, Pending
  <1>10. ASSUME NEW v \in Publisher, seen'[v] # None, seen'[v].pointer = Stub
         PROVE  row'.price = ask'[v].price
    <2>1. v # w /\ seen[v] # None /\ ask'[v] = ask[v] /\ seen[v].pointer = Stub
      BY <1>4, <1>5, <1>10
    <2>2. Registered
      BY <1>1, <2>1 DEF RequestsHold
    <2> QED
      BY <1>2, <2>1, <2>2 DEF RailInv
  <1> QED
    BY <1>7, <1>9, <1>10 DEF RailInv

\* No publisher is left behind by the end of another, and what re-prices the
\* pack sets both numbers while nobody is about to set one.
LEMMA RailElse ==
  ASSUME PublicationInv, RailInv, Freedom = {},
         \/ \E w \in Publisher : WriteListing(w) \/ Clear(w) \/ Fail(w)
         \/ Reprice \/ PatchListing \/ MoveLadder \/ Archive
  PROVE  RailInv'
  <1>1. TypeOK /\ RequestsHold
    BY DEF PublicationInv
  <1>2. ASSUME NEW w \in Publisher, WriteListing(w) \/ Clear(w) \/ Fail(w)
        PROVE  RailInv'
    <2>1. CASE WriteListing(w)
      BY <1>1, <2>1 DEF WriteListing, Goto, TypeOK, RailInv, Pending, Billable, Registered,
                        shopVars
    <2>2. CASE Clear(w) \/ Fail(w)
      BY <1>1, <2>2 DEF Clear, Fail, Leave, TypeOK, RailInv, Pending, Billable, Registered
    <2> QED
      BY <1>2, <2>1, <2>2
  <1>3. CASE Reprice
    <2>1. Registered /\ row \in PackRow
      BY <1>1, <1>3 DEF Reprice, TypeOK, Registered
    <2>2. PICK amount \in Amount : row' = [row EXCEPT !.price = amount, !.pointer = amount]
      BY <1>3 DEF Reprice
    <2>3. row' \in PackRow /\ row'.price = amount /\ row'.pointer = amount /\ amount # Stub
      BY <2>1, <2>2, PublicationAssumption DEF PackRow, Pointer
    <2>4. Billable'
      BY <2>3, NoneAssumption DEF Billable, Registered
    <2>5. \A w \in Publisher : pc[w] # "saving" /\ seen[w] = None
      BY <1>1, <1>3 DEF Reprice, RequestsHold
    <2> QED
      BY <1>3, <2>3, <2>4, <2>5 DEF Reprice, RailInv, Pending
  <1>4. CASE PatchListing
    <2>1. Registered /\ row \in PackRow
      BY <1>1, <1>4 DEF PatchListing, TypeOK, Registered
    <2>2. row' \in PackRow /\ row'.price = row.price /\ row'.pointer = row.pointer
      BY <1>4, <2>1 DEF PatchListing, PackRow
    <2>3. Registered'
      BY <2>2, NoneAssumption DEF Registered
    <2> QED
      BY <1>4, <2>1, <2>2, <2>3 DEF PatchListing, RailInv, Pending, Billable
  <1>5. CASE MoveLadder
    <2>1. Billable \/ (~Registered /\ \A w \in Publisher : ~Pending(w))
      BY <1>5 DEF MoveLadder, Pending
    <2> QED
      BY <1>5, <2>1 DEF MoveLadder, RailInv, Pending, Billable, Registered, shopVars
  <1>6. CASE Archive
    BY <1>6 DEF Archive, RailInv, Pending, Billable, Registered, shopVars
  <1> QED
    BY <1>2, <1>3, <1>4, <1>5, <1>6

\* Without what Freedom adds a pack on sale charges what its shelf shows, for
\* any prices and any number of publishers (bridge.py, price_for and
\* _resolve_money_rail; POST /internal/catalog; PATCH /price).
THEOREM ShelfIsTrue == ASSUME Freedom = {} PROVE Spec => []ChargedAsShown
  <1>1. Init => RailInv
    BY DEF Init, RailInv, Pending, Registered
  <1>2. PublicationInv /\ RailInv /\ [Next]_vars => RailInv'
    <2> SUFFICES ASSUME PublicationInv, RailInv, [Next]_vars
                 PROVE  RailInv'
      OBVIOUS
    <2>1. CASE UNCHANGED vars
      BY <2>1 DEF vars, RailInv, Pending, Billable, Registered
    <2> QED
      BY <2>1, RailWay, RailSave, RailElse DEF Next, Publish
  <1>3. PublicationInv /\ Sellable /\ RailInv => ChargedAsShown
    BY DEF RailInv, ChargedAsShown, Sellable, Listed, Billable
  <1> QED
    BY <1>1, <1>2, <1>3, Invariance, OnSaleIsSellable, PTL DEF Spec
===============================================================================
