------------------------------ MODULE Publication ------------------------------
(***************************************************************************)
(* One pack on its way into the shop, and the three doors by which its row *)
(* is changed once it is there.                                            *)
(*                                                                         *)
(* publish() marks the pack, takes it through the gates, decides its       *)
(* price, reuses or mints the provider's price object, uploads the bundle, *)
(* posts the row, writes a receipt and clears the mark (publish.py,        *)
(* bridge.py).  The shop serves the post in two steps with a question to   *)
(* the payment provider between them, and saves the columns that differ    *)
(* from those it read (Program.cs).  Several publishers may be at it: the  *)
(* publish claim is taken by the engine (ClaimLock) and not by the tools.  *)
(*                                                                         *)
(* A price object is known by the amount it charges.  What the pack really *)
(* charges is therefore row.pointer, and what the shelf shows row.price.   *)
(***************************************************************************)
EXTENDS Naturals

CONSTANTS
  Amount,      \* the prices, in pence
  Publisher,   \* the calls of publish() that may overlap
  Stub,        \* price_stub_<id>: no price object, nothing can be charged
  None,        \* no row, no request
  Freedom      \* what happens beyond the care the code counts on, see below

\* "ladder": the price ladder moves while the row has no price object
\* "bare":   an unlisted pack is re-priced without a price object
\* "rush":   a pack is re-priced while the shop is serving a publication
ASSUME PublicationAssumption ==
  /\ Amount \subseteq Nat
  /\ Stub \notin Nat
  /\ Freedom \subseteq {"ladder", "bare", "rush"}

Pointer == Amount \cup {Stub}

\* The columns of a Pack that this module is about; content: it has a ContentKey.
PackRow == [price : Amount, pointer : Pointer, content : BOOLEAN, listed : BOOLEAN]

\* What a publisher asks for; go: the gates passed so far let the pack be listed.
Request == [price : Amount, pointer : Pointer, go : BOOLEAN]

ASSUME NoneAssumption == None \notin PackRow /\ None \notin Request

VARIABLES
  row,         \* the pack's row in the shop, or None
  ladder,      \* what price_for() would decide now
  receipt,     \* store/listings/<id>.json exists
  marker,      \* store/listings/.inflight/<id>.json exists
  pc,          \* what each publisher does next
  ask,         \* what it asks for
  mine,        \* its own marker was written
  seen,        \* the row as the shop read it for its request, or None
  archived,    \* history: a receipt was archived, the pack being condemned
  unmarked     \* history: a marker could not be written

shopVars == <<row, seen>>
traceVars == <<receipt, marker, mine, archived, unmarked>>
vars == <<row, ladder, receipt, marker, pc, ask, mine, seen, archived, unmarked>>

Init ==
  /\ row = None
  /\ ladder \in Amount
  /\ receipt = FALSE
  /\ marker = FALSE
  /\ pc = [w \in Publisher |-> "idle"]
  /\ ask = [w \in Publisher |-> None]
  /\ mine = [w \in Publisher |-> FALSE]
  /\ seen = [w \in Publisher |-> None]
  /\ archived = FALSE
  /\ unmarked = FALSE

Registered == row # None
Listed == Registered /\ row.listed
Billable == Registered /\ row.pointer # Stub   \* the row has a price object

Goto(w, place) == pc' = [pc EXCEPT ![w] = place]

\* A publisher is done, or dead: what it had in memory is gone.
Leave(w) ==
  /\ pc' = [pc EXCEPT ![w] = "idle"]
  /\ ask' = [ask EXCEPT ![w] = None]
  /\ mine' = [mine EXCEPT ![w] = FALSE]
  /\ seen' = [seen EXCEPT ![w] = None]

-----------------------------------------------------------------------------
(***************************************************************************)
(* publish() and publish_pass(), up to the post                            *)
(***************************************************************************)
\* _mark_inflight: best effort, and a write that fails may still leave a file.
Mark(w) ==
  /\ pc[w] = "idle"
  /\ \/ /\ marker' = TRUE
        /\ mine' = [mine EXCEPT ![w] = TRUE]
        /\ UNCHANGED unmarked
     \/ /\ marker' \in {marker, TRUE}
        /\ unmarked' = TRUE
        /\ UNCHANGED mine
  /\ Goto(w, "marked")
  /\ UNCHANGED <<row, ladder, receipt, ask, seen, archived>>

\* The gates on the content, then the price.
Decide(w) ==
  /\ pc[w] = "marked"
  /\ \E fit \in BOOLEAN :
       ask' = [ask EXCEPT ![w] = [price |-> ladder, pointer |-> Stub, go |-> fit]]
  /\ Goto(w, "priced")
  /\ UNCHANGED <<ladder, shopVars, traceVars>>

\* GET /catalog/{id} answers for a listed pack only; the price object it names
\* is kept, and its amount is the price to record.
Reuse(w) ==
  /\ Listed /\ Billable
  /\ \E clear \in BOOLEAN :      \* the upload, and the fence on figures
       ask' = [ask EXCEPT ![w] = [price |-> row.pointer, pointer |-> row.pointer,
                                  go |-> @.go /\ clear]]

\* No row to be seen, or it could not be read: a price object is minted for a
\* pack that passed the gates.  Without a provisioner the stub stays.
Mint(w) ==
  \E pointer \in {Stub} \cup (IF ask[w].go THEN {ask[w].price} ELSE {}),
     clear \in BOOLEAN :
       ask' = [ask EXCEPT ![w] = [price |-> @.price, pointer |-> pointer,
                                  go |-> @.go /\ clear /\ pointer # Stub]]

Resolve(w) ==
  /\ pc[w] = "priced"
  /\ Reuse(w) \/ Mint(w)
  /\ Goto(w, "sent")
  /\ UNCHANGED <<ladder, shopVars, traceVars>>

-----------------------------------------------------------------------------
(***************************************************************************)
(* POST /internal/catalog                                                  *)
(***************************************************************************)
\* The row is read, and the payment provider is asked about its price.
Find(w) ==
  /\ pc[w] = "sent"
  /\ seen' = [seen EXCEPT ![w] = row]
  /\ Goto(w, "saving")
  /\ UNCHANGED <<row, ladder, ask, traceVars>>

\* Mutant of PointerOf: a publication always moves the pointer.
PointerOfMut(old, request) == request.pointer

\* The pointer moves only where there is none to contradict.
PointerOf(old, request) ==
  IF old.pointer = Stub THEN request.pointer ELSE old.pointer

\* Mutant of SendsContent: the content key goes with every request.
SendsContentMut(request) == TRUE

\* The content key is sent with a request to list, and with no other.
SendsContent(request) == request.go

\* SaveChanges() writes the columns that differ from what was read.
Column(read, written, now) == IF written = read THEN now ELSE written

Updated(old, request, bills) ==
  [price   |-> row.price,
   pointer |-> Column(old.pointer, PointerOf(old, request), row.pointer),
   content |-> Column(old.content, old.content \/ SendsContent(request), row.content),
   listed  |-> Column(old.listed, request.go /\ bills, row.listed)]

Inserted(request, bills) ==
  [price   |-> request.price,
   pointer |-> request.pointer,
   content |-> SendsContent(request),
   listed  |-> request.go /\ bills]

\* CanBillPriceAsync: a stub is never billable, and the provider may be down.
Bills(pointer) == {FALSE, pointer # Stub}

\* The provider is asked about the pointer the row is going to have.  The
\* publisher may not hear of the save: its call times out, or it dies.
Save(w) ==
  /\ pc[w] = "saving"
  /\ IF seen[w] = None
     THEN /\ ~Registered             \* a second insert of the id is an error
          /\ \E bills \in Bills(ask[w].pointer) : row' = Inserted(ask[w], bills)
     ELSE \E bills \in Bills(PointerOf(seen[w], ask[w])) :
            row' = Updated(seen[w], ask[w], bills)
  /\ \/ /\ Goto(w, "stored")
        /\ ask' = [ask EXCEPT ![w] = None]
        /\ seen' = [seen EXCEPT ![w] = None]
        /\ UNCHANGED mine
     \/ Leave(w)
  /\ UNCHANGED <<ladder, receipt, marker, archived, unmarked>>

-----------------------------------------------------------------------------
(***************************************************************************)
(* The rest of publish()                                                   *)
(***************************************************************************)
WriteListing(w) ==
  /\ pc[w] = "stored"
  /\ receipt' = TRUE
  /\ Goto(w, "written")
  /\ UNCHANGED <<ladder, marker, ask, mine, archived, unmarked, shopVars>>

\* _clear_inflight: of a marker that this call has written.
Clear(w) ==
  /\ pc[w] = "written"
  /\ marker' = (marker /\ ~mine[w])
  /\ Leave(w)
  /\ UNCHANGED <<row, ladder, receipt, archived, unmarked>>

\* Mutant of Fail: a publication that fails clears its marker.
FailMut(w) ==
  /\ pc[w] # "idle"
  /\ marker' = (marker /\ ~mine[w])
  /\ Leave(w)
  /\ UNCHANGED <<row, ladder, receipt, archived, unmarked>>

\* A guard refuses, the provider does not confirm or mint, the shop refuses, a
\* call fails, the process dies: the marker stays.
Fail(w) ==
  /\ pc[w] # "idle"
  /\ Leave(w)
  /\ UNCHANGED <<row, ladder, receipt, marker, archived, unmarked>>

-----------------------------------------------------------------------------
(***************************************************************************)
(* What else happens to the pack                                           *)
(***************************************************************************)
\* PATCH /internal/catalog/{id}/price, which moves the price and, if it carries
\* one, the price object of that amount.  A listed pack needs one.
Reprice ==
  /\ Registered
  /\ "rush" \in Freedom \/ \A w \in Publisher : pc[w] # "saving"
  /\ \E amount \in Amount :
       \/ row' = [row EXCEPT !.price = amount, !.pointer = amount]
       \/ /\ "bare" \in Freedom /\ ~row.listed
          /\ row' = [row EXCEPT !.price = amount]
  /\ UNCHANGED <<ladder, pc, ask, seen, traceVars>>

\* Mutant of PatchListing: a pack without content may be listed.
PatchListingMut ==
  /\ Registered
  /\ \E on \in BOOLEAN : row' = [row EXCEPT !.listed = on]
  /\ UNCHANGED <<ladder, pc, ask, seen, traceVars>>

\* PATCH /internal/catalog/{id}/listing
PatchListing ==
  /\ Registered
  /\ \E on \in BOOLEAN :
       /\ on => row.content
       /\ row' = [row EXCEPT !.listed = on]
  /\ UNCHANGED <<ladder, pc, ask, seen, traceVars>>

\* The configured ladder changes, or the pack's evidence moves it to a new rung.
MoveLadder ==
  /\ \/ "ladder" \in Freedom
     \/ Billable
     \/ ~Registered /\ \A w \in Publisher : pc[w] \in {"idle", "marked"}
  /\ ladder' \in Amount
  /\ UNCHANGED <<pc, ask, shopVars, traceVars>>

\* A decay sweep or an operator gives the pack up (Withdrawal).
Archive ==
  /\ receipt
  /\ receipt' = FALSE
  /\ archived' = TRUE
  /\ UNCHANGED <<ladder, marker, pc, ask, mine, unmarked, shopVars>>

Publish(w) ==
  \/ Mark(w) \/ Decide(w) \/ Resolve(w)
  \/ Find(w) \/ Save(w)
  \/ WriteListing(w) \/ Clear(w) \/ Fail(w)

Next ==
  \/ \E w \in Publisher : Publish(w)
  \/ Reprice \/ PatchListing \/ MoveLadder \/ Archive

Spec == Init /\ [][Next]_vars

-----------------------------------------------------------------------------
(***************************************************************************)
(* Properties                                                              *)
(***************************************************************************)
Pending(w) == pc[w] \in {"priced", "sent", "saving"}

TypeOK ==
  /\ row \in PackRow \cup {None}
  /\ ladder \in Amount
  /\ receipt \in BOOLEAN /\ marker \in BOOLEAN
  /\ archived \in BOOLEAN /\ unmarked \in BOOLEAN
  /\ pc \in [Publisher -> {"idle", "marked", "priced", "sent", "saving",
                           "stored", "written"}]
  /\ ask \in [Publisher -> Request \cup {None}]
  /\ mine \in [Publisher -> BOOLEAN]
  /\ seen \in [Publisher -> PackRow \cup {None}]

\* What a request says of its pack, and what the row it was computed from still
\* says of the row: content and a price object, once there, stay.
RequestsHold ==
  \A w \in Publisher :
    /\ Pending(w) <=> ask[w] # None
    /\ pc[w] \in {"sent", "saving"} /\ ask[w].go => ask[w].pointer # Stub
    /\ seen[w] # None =>
         /\ pc[w] = "saving" /\ Registered
         /\ seen[w].pointer # Stub => row.pointer # Stub
         /\ seen[w].content => row.content

\* A pack whose content has reached the shop has a price object.
ContentIsPriced == Registered /\ row.content => row.pointer # Stub

\* From the mark to the receipt there is always a trace of a publication.
TraceKept ==
  /\ (Registered \/ \E w \in Publisher : pc[w] # "idle")
       => marker \/ receipt \/ archived \/ unmarked
  /\ \A w \in Publisher : pc[w] = "written" => receipt \/ archived
  /\ \A w \in Publisher : mine[w] => pc[w] # "idle"

\* The inductive invariant: a request never asks to list what cannot be
\* charged, content reaches the shop with a price object or not at all, and a
\* trace of each publication stays (listing_blockers, POST /internal/catalog,
\* _mark_inflight).
PublicationInv == TypeOK /\ RequestsHold /\ ContentIsPriced /\ TraceKept

\* A pack on sale can be delivered and charged for, whichever door put it there:
\* PATCH /listing asks about the content only and counts on the other doors.
Sellable == Listed => row.content /\ row.pointer # Stub

\* A pack on sale that the engine has no receipt for is one it knows it must
\* look into: the marker is there, unless it could not be written, or the
\* receipt was archived as the pack was given up (publish.py: "that window
\* observable").
Traced == Listed /\ ~receipt => marker \/ archived \/ unmarked

\* A buyer is charged what the shelf shows.  Publishers, ladder and re-pricing
\* may interleave, but for what Freedom adds (bridge.py, "drift is structurally
\* impossible").
ChargedAsShown == Listed => row.pointer = row.price

\* What keeps it: until the row has a price object every price in play is the
\* ladder's, and a save that will still move the pointer moves it to the price.
RailInv ==
  /\ Registered => row.price = IF Billable THEN row.pointer ELSE ladder
  /\ \A w \in Publisher :
       Pending(w) => /\ ask[w].pointer \in {ask[w].price, Stub}
                     /\ ~Billable => ask[w].price = ladder
  /\ \A w \in Publisher :
       seen[w] # None /\ seen[w].pointer = Stub => row.price = ask[w].price
===============================================================================
