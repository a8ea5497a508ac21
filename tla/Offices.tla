------------------------------- MODULE Offices -------------------------------
(***************************************************************************)
(* Offices and their geofences: officeGeofenceService.ts of the backend,   *)
(* and the editor of the console (geofence-manager.tsx, geofence-form.tsx) *)
(* in several tabs.  A tab edits the record its list has cached; saving    *)
(* captures every field of the draft, edited or not, and the form stays    *)
(* open to further edits, to another record and to being closed.  Office   *)
(* and Geofence are two documents, written and read one after the other.   *)
(***************************************************************************)
EXTENDS Naturals, FiniteSets

CONSTANTS
    Fences,    \* document ids of geofences, each with its office
    Pins,      \* positions on the map
    Reversed,  \* those the backend refuses: latitude and longitude swapped
    Addresses, \* addresses; "" is the empty one
    Editors,   \* console tabs
    MaxSaves,  \* bound on the requests that save or delete
    NoFence    \* no document, nothing cached, no draft, no request

Fields == [pin : Pins, address : Addresses]
ASSUME EmptyAddressAssumption == "" \in Addresses
ASSUME OfficesAssumption ==
    /\ Reversed \subseteq Pins
    /\ NoFence \notin Fields \cup Pins \cup Addresses
    /\ "new" \notin Fences
    /\ MaxSaves \in Nat

\* A form: the fence it edits ("new" for an office to create), its fields, the
\* confirmation, and its own save and removal under way; 0 for none.
Drafts == [of : Fences \cup {"new"}, fields : Fields, verified : BOOLEAN,
           save : 0..MaxSaves, remove : 0..MaxSaves]

\* A request: what it does to which fence with what it captured, from which
\* tab, how far the backend is, and whether the tab still waits for it.
FenceRequests == [does : {"create", "update", "delete"}, of : Fences \cup {"new"},
                  fields : Fields, tab : Editors, stage : {"sent", "office", "done"},
                  awaited : BOOLEAN]

Lists == [Fences -> Fields \cup {NoFence}]
PinLists == [Fences -> Pins \cup {NoFence}]

VARIABLES
    pinOf,     \* the Geofence documents, by id
    addressOf, \* the Office of each, which outlives it
    listing,   \* each tab's fetch of the list: the geofences it has read
    listed,    \* the list each tab has cached
    drafts,    \* the form of each tab
    posted,    \* the requests, in the order they were sent
    saves,     \* requests so far
    confirmed, \* ghost: positions somebody confirmed on the map
    typed      \* ghost: addresses somebody typed

officeVars == <<pinOf, addressOf, listing, listed, drafts, posted, saves,
                confirmed, typed>>
documents == <<pinOf, addressOf>>
lists == <<listing, listed>>

OfficesTypeOK ==
    /\ pinOf \in PinLists
    /\ addressOf \in [Fences -> Addresses \cup {NoFence}]
    /\ listing \in [Editors -> PinLists \cup {NoFence}]
    /\ listed \in [Editors -> Lists]
    /\ drafts \in [Editors -> Drafts \cup {NoFence}]
    /\ posted \in [1..MaxSaves -> FenceRequests \cup {NoFence}]
    /\ saves \in 0..MaxSaves
    /\ confirmed \subseteq Pins /\ typed \subseteq Addresses

\* Geofences saved earlier may be there, and every tab starts with its list
\* empty.
OfficesInit ==
    /\ pinOf \in [Fences -> (Pins \ Reversed) \cup {NoFence}]
    /\ addressOf \in [Fences -> Addresses \cup {NoFence}]
    /\ \A g \in Fences : pinOf[g] = NoFence <=> addressOf[g] = NoFence
    /\ listing = [e \in Editors |-> NoFence]
    /\ listed = [e \in Editors |-> [g \in Fences |-> NoFence]]
    /\ drafts = [e \in Editors |-> NoFence]
    /\ posted = [i \in 1..MaxSaves |-> NoFence]
    /\ saves = 0
    /\ confirmed = {pinOf[g] : g \in Fences} \ {NoFence}
    /\ typed = {addressOf[g] : g \in Fences} \ {NoFence}

-----------------------------------------------------------------------------
\* listGeofences reads the geofences, and populates them with their offices.
ReadFences(e) ==
    /\ listing' = [listing EXCEPT ![e] = pinOf]
    /\ UNCHANGED <<documents, listed, drafts, posted, saves, confirmed, typed>>

\* Mutation: the address is left blank when a record is opened.
DraftOfBlank(g, f) ==
    [of |-> g, fields |-> [f EXCEPT !.address = ""], verified |-> TRUE,
     save |-> 0, remove |-> 0]

\* The form of an existing record, hydrated from it.
DraftOf(g, f) ==
    [of |-> g, fields |-> f, verified |-> TRUE, save |-> 0, remove |-> 0]

\* The offices are read and the list arrives.  An open form follows its record
\* when that has changed, whatever of it is being saved, and closes when it is
\* gone.
FetchFences(e) ==
    LET read == [g \in Fences |-> IF listing[e][g] = NoFence THEN NoFence
                                  ELSE [pin |-> listing[e][g], address |-> addressOf[g]]]
        d == drafts[e]
        f == read[d.of]
    IN
    /\ listing[e] # NoFence
    /\ listing' = [listing EXCEPT ![e] = NoFence]
    /\ listed' = [listed EXCEPT ![e] = read]
    /\ drafts' = IF d # NoFence /\ d.of # "new" /\ listed[e][d.of] # f
                 THEN [drafts EXCEPT ![e] =
                        IF f = NoFence THEN NoFence
                        ELSE [DraftOf(d.of, f) EXCEPT !.save = d.save, !.remove = d.remove]]
                 ELSE drafts
    /\ UNCHANGED <<documents, posted, saves, confirmed, typed>>

Edits(e, g) == drafts[e] # NoFence /\ drafts[e].of = g

\* Another record is selected, or the form for a new office with the map's
\* centre; either replaces the form that is open.
OpenFence(e, g) ==
    /\ listed[e][g] # NoFence
    /\ ~Edits(e, g)
    /\ drafts' = [drafts EXCEPT ![e] = DraftOf(g, listed[e][g])]
    /\ UNCHANGED <<documents, lists, posted, saves, confirmed, typed>>

OpenNew(e, centre) ==
    /\ ~Edits(e, "new")
    /\ drafts' = [drafts EXCEPT ![e] =
            [of |-> "new", fields |-> [pin |-> centre, address |-> ""],
             verified |-> FALSE, save |-> 0, remove |-> 0]]
    /\ UNCHANGED <<documents, lists, posted, saves, confirmed, typed>>

\* Mutation: the confirmation survives a move.
MovePinKeepingCheck(e, p) ==
    /\ drafts[e] # NoFence
    /\ drafts' = [drafts EXCEPT ![e].fields.pin = p]
    /\ UNCHANGED <<documents, lists, posted, saves, confirmed, typed>>

\* movePin withdraws the confirmation; no input is disabled while saving.
MovePin(e, p) ==
    /\ drafts[e] # NoFence
    /\ drafts' = [drafts EXCEPT ![e].fields.pin = p, ![e].verified = FALSE]
    /\ UNCHANGED <<documents, lists, posted, saves, confirmed, typed>>

\* The checkbox is ticked, or unticked.
ConfirmPin(e) ==
    /\ drafts[e] # NoFence
    /\ ~drafts[e].verified
    /\ drafts' = [drafts EXCEPT ![e].verified = TRUE]
    /\ confirmed' = confirmed \cup {drafts[e].fields.pin}
    /\ UNCHANGED <<documents, lists, posted, saves, typed>>

UntickPin(e) ==
    /\ drafts[e] # NoFence
    /\ drafts[e].verified
    /\ drafts' = [drafts EXCEPT ![e].verified = FALSE]
    /\ UNCHANGED <<documents, lists, posted, saves, confirmed, typed>>

TypeAddress(e, x) ==
    /\ drafts[e] # NoFence
    /\ drafts' = [drafts EXCEPT ![e].fields.address = x]
    /\ typed' = typed \cup {x}
    /\ UNCHANGED <<documents, lists, posted, saves, confirmed>>

CancelForm(e) ==
    /\ drafts[e] # NoFence
    /\ drafts' = [drafts EXCEPT ![e] = NoFence]
    /\ UNCHANGED <<documents, lists, posted, saves, confirmed, typed>>

-----------------------------------------------------------------------------
\* The request numbered saves + 1 leaves tab e.
SendSave(e, what) ==
    /\ saves < MaxSaves
    /\ saves' = saves + 1
    /\ posted' = [posted EXCEPT ![saves + 1] =
            [does |-> what, of |-> drafts[e].of, fields |-> drafts[e].fields, tab |-> e,
             stage |-> "sent", awaited |-> TRUE]]

\* submit: refused until the pin is confirmed, and while this form is saving.
SubmitFence(e) ==
    /\ drafts[e] # NoFence
    /\ drafts[e].verified /\ drafts[e].save = 0
    /\ SendSave(e, IF drafts[e].of = "new" THEN "create" ELSE "update")
    /\ drafts' = [drafts EXCEPT ![e].save = saves + 1]
    /\ typed' = IF drafts[e].of = "new" THEN typed \cup {drafts[e].fields.address} ELSE typed
    /\ UNCHANGED <<documents, lists, confirmed>>

\* The button of an existing record that removes it.
RemoveFence(e) ==
    /\ drafts[e] # NoFence
    /\ drafts[e].of # "new" /\ drafts[e].remove = 0
    /\ SendSave(e, "delete")
    /\ drafts' = [drafts EXCEPT ![e].remove = saves + 1]
    /\ UNCHANGED <<documents, lists, confirmed, typed>>

Handling(i, what, stage) ==
    /\ posted[i] # NoFence
    /\ posted[i].does = what /\ posted[i].stage = stage

\* The backend is done with request i and answers, if anyone still waits.
Done(i) ==
    posted' = [posted EXCEPT ![i] =
        IF posted[i].awaited THEN [posted[i] EXCEPT !.stage = "done"] ELSE NoFence]

\* createGeofence: the coordinates are checked before anything is written;
\* if the Geofence cannot be, its Office stays behind without one.
CreateOffice(i, g) ==
    /\ Handling(i, "create", "sent")
    /\ posted[i].fields.pin \notin Reversed
    /\ addressOf[g] = NoFence
    /\ addressOf' = [addressOf EXCEPT ![g] = posted[i].fields.address]
    /\ posted' = [posted EXCEPT ![i].stage = "office", ![i].of = g]
    /\ UNCHANGED <<pinOf, lists, drafts, saves, confirmed, typed>>

CreateFence(i) ==
    /\ Handling(i, "create", "office")
    /\ pinOf' = [pinOf EXCEPT ![posted[i].of] = posted[i].fields.pin]
    /\ Done(i)
    /\ UNCHANGED <<addressOf, lists, drafts, saves, confirmed, typed>>

\* updateGeofence, first write: name and address of the office.  A deleted
\* geofence is not found.
UpdateOffice(i) ==
    LET g == posted[i].of
    IN
    /\ Handling(i, "update", "sent")
    /\ pinOf[g] # NoFence
    /\ addressOf' = [addressOf EXCEPT ![g] = posted[i].fields.address]
    /\ posted' = [posted EXCEPT ![i].stage = "office"]
    /\ UNCHANGED <<pinOf, lists, drafts, saves, confirmed, typed>>

\* Second write: the position, if it is usable and the geofence still there;
\* otherwise only the office has changed.
UpdateFence(i) ==
    LET r == posted[i]
    IN
    /\ Handling(i, "update", "office")
    /\ pinOf[r.of] # NoFence /\ r.fields.pin \notin Reversed
    /\ pinOf' = [pinOf EXCEPT ![r.of] = r.fields.pin]
    /\ Done(i)
    /\ UNCHANGED <<addressOf, lists, drafts, saves, confirmed, typed>>

\* deleteGeofence; its office stays.
DeleteFence(i) ==
    LET g == posted[i].of
    IN
    /\ Handling(i, "delete", "sent")
    /\ pinOf[g] # NoFence
    /\ pinOf' = [pinOf EXCEPT ![g] = NoFence]
    /\ Done(i)
    /\ UNCHANGED <<addressOf, lists, drafts, saves, confirmed, typed>>

\* onSaved closes the tab's form, whichever is open by now.
Saved(i) ==
    /\ posted[i] # NoFence
    /\ posted[i].awaited /\ posted[i].stage = "done"
    /\ posted' = [posted EXCEPT ![i] = NoFence]
    /\ drafts' = [drafts EXCEPT ![posted[i].tab] = NoFence]
    /\ UNCHANGED <<documents, lists, saves, confirmed, typed>>

\* onError: the request was refused, its answer lost, or it took too long;
\* the backend may still be at it.  The form, if it is still there, keeps
\* its draft.
SaveFails(i) ==
    LET e == posted[i].tab
        d == drafts[e]
    IN
    /\ posted[i] # NoFence
    /\ posted[i].awaited
    /\ posted' = [posted EXCEPT ![i] =
            IF @.stage = "done" THEN NoFence ELSE [@ EXCEPT !.awaited = FALSE]]
    /\ drafts' = IF d = NoFence THEN drafts
                 ELSE [drafts EXCEPT ![e].save = IF d.save = i THEN 0 ELSE d.save,
                                     ![e].remove = IF d.remove = i THEN 0 ELSE d.remove]
    /\ UNCHANGED <<documents, lists, saves, confirmed, typed>>

OfficesNext ==
    \/ \E e \in Editors :
        \/ ReadFences(e) \/ FetchFences(e)
        \/ ConfirmPin(e) \/ UntickPin(e) \/ CancelForm(e)
        \/ SubmitFence(e) \/ RemoveFence(e)
        \/ \E g \in Fences : OpenFence(e, g)
        \/ \E p \in Pins : OpenNew(e, p) \/ MovePin(e, p)
        \/ \E x \in Addresses : TypeAddress(e, x)
    \/ \E i \in 1..MaxSaves :
        \/ CreateFence(i) \/ UpdateOffice(i) \/ UpdateFence(i) \/ DeleteFence(i)
        \/ Saved(i) \/ SaveFails(i)
        \/ \E g \in Fences : CreateOffice(i, g)

OfficesSpec == OfficesInit /\ [][OfficesNext]_officeVars

-----------------------------------------------------------------------------
\* "The office location [has] to be confirmed on a map before the geofence
\* is saved", and an address is "only safe if the read path returns
\* everything the write path sends": whatever tabs save, load and delete past
\* each other, and however a form is edited, rehydrated or replaced while its
\* save is under way, every stored position was confirmed by somebody and
\* every stored address typed, or left empty on a new office, by somebody.
EditsAreHuman ==
    \A g \in Fences :
        /\ pinOf[g] # NoFence => pinOf[g] \in confirmed
        /\ addressOf[g] # NoFence => addressOf[g] \in typed
=============================================================================
