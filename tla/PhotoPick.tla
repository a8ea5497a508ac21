------------------------------- MODULE PhotoPick -------------------------------
(***************************************************************************)
(* A reference photo on its way: the console's PhotoUpload widget          *)
(* (photo-upload.tsx), in the form for a new employee or on a profile, the *)
(* presigned URL (uploadService.ts, services/presign.py, storage/), the    *)
(* bucket, and the URL that is handed to the backend and read again by the *)
(* AI service (objectKeyFromPublicUrl, image_source.py).  Nothing cancels  *)
(* an upload: what was dropped goes on behind what is shown.               *)
(***************************************************************************)
EXTENDS Naturals

CONSTANTS
    MaxPicks, \* bound on the files picked
    MaxOpens  \* bound on the times a profile's widget is opened

ASSUME PickAssumption == MaxPicks \in Nat /\ MaxOpens \in Nat \ {0}

Picks == 1..MaxPicks
Nothing == 0
Phases == {"idle", "compressing", "uploading", "done", "error"}
\* Against max_upload_bytes; the console compresses towards a little more.
Sizes == {"fits", "over"}
NoUpload == [stage |-> "none", widget |-> 0, size |-> "fits"]
Uploads ==
    [stage : {"none", "compressing", "signing", "putting"}, widget : 0..MaxOpens, size : Sizes]

\* Object keys, and the addresses that stand for them: <<>> is ''.
PhotoKeys == [prefix : {"refs"}, id : Picks]
Urls == {<<base, key>> : base \in {"https"}, key \in PhotoKeys} \cup {<<>>}

VARIABLES
    parent,     \* the form for a new employee, or the profile of one
    publicBase, \* STORAGE_PUBLIC_BASE_URL is set
    opens,      \* widgets shown so far
    view,       \* the widget: open, its phase and preview
    picked,     \* files picked so far
    uploads,    \* what became of each
    bucket,     \* the objects, with their sizes
    chosen,     \* reference_photo_url of the form
    saving,     \* requests with a photo: {urls}
    handed,     \* every URL sent to the backend
    blurred     \* ghost: what is shown need not be what is chosen

pickVars ==
    <<parent, publicBase, opens, view, picked, uploads, bucket, chosen, saving, handed, blurred>>

PickTypeOK ==
    /\ parent \in {"form", "profile"} /\ publicBase \in BOOLEAN
    /\ opens \in 0..MaxOpens /\ picked \in 0..MaxPicks
    /\ view \in [open : BOOLEAN, phase : Phases, preview : Picks \cup {Nothing}]
    /\ uploads \in [Picks -> Uploads]
    /\ bucket \subseteq [key : PhotoKeys, size : Sizes]
    /\ chosen \in Urls /\ saving \subseteq Urls /\ handed \subseteq Urls
    /\ blurred \in BOOLEAN

EmptyWidget == [open |-> TRUE, phase |-> "idle", preview |-> Nothing]

PickInit ==
    /\ parent \in {"form", "profile"} /\ publicBase \in BOOLEAN
    /\ opens = IF parent = "form" THEN 1 ELSE 0
    /\ view = [EmptyWidget EXCEPT !.open = (parent = "form")]
    /\ picked = 0 /\ uploads = [n \in Picks |-> NoUpload]
    /\ bucket = {} /\ chosen = <<>> /\ saving = {} /\ handed = {}
    /\ blurred = FALSE

UnderWay == {n \in Picks : uploads[n].stage # "none"}

\* The state of a widget that is gone is set in vain.
Shown(n, phase, preview) ==
    view' = IF view.open /\ uploads[n].widget = opens
            THEN [view EXCEPT !.phase = phase, !.preview = preview] ELSE view

Ended(n) == uploads' = [uploads EXCEPT ![n] = NoUpload]

-----------------------------------------------------------------------------
\* presignAdminUpload: reference_key under the admin's id and a fresh ULID,
\* and where the public can read it.
PhotoKeyOf(n) == [prefix |-> "refs", id |-> n]
PublicUrl(key) == IF publicBase THEN <<"https", key>> ELSE <<>>

\* require_managed_key; checkins/ is the other managed prefix.
Managed(key) == key.prefix \in {"refs", "checkins"}

\* Mutation: the declared length is signed whatever it is.
SignableAny(key, size) == Managed(key)

\* PresignService.presign_put: not over the ceiling, under a managed prefix.
Signable(key, size) == Managed(key) /\ size = "fits"

\* objectKeyFromPublicUrl.
ObjectKeyOf(url) == IF url = <<>> THEN {} ELSE {url[2]}

\* resolve and get_object: a managed key of an object within the ceiling.
Readable(url) ==
    \E key \in ObjectKeyOf(url) :
        Managed(key) /\ [key |-> key, size |-> "fits"] \in bucket

-----------------------------------------------------------------------------
\* handleFile, by the button or by a drop, which nothing forbids meanwhile.
Pick ==
    /\ view.open /\ picked < MaxPicks
    /\ picked' = picked + 1
    /\ uploads' = [uploads EXCEPT ![picked + 1] =
                      [stage |-> "compressing", widget |-> opens, size |-> "fits"]]
    /\ view' = [view EXCEPT !.phase = "compressing"]
    /\ blurred' = (blurred \/ UnderWay # {})
    /\ UNCHANGED <<parent, publicBase, opens, bucket, chosen, saving, handed>>

\* validateImageFile refuses: another type, or more than 25 MB.
PickRefused ==
    /\ view.open
    /\ view' = [view EXCEPT !.phase = "error"]
    /\ blurred' = (blurred \/ UnderWay # {})
    /\ UNCHANGED <<parent, publicBase, opens, picked, uploads, bucket, chosen, saving, handed>>

\* compressReferencePhoto, always to JPEG; what is still too large is uploaded
\* "anyway".
Compressed(n) ==
    /\ uploads[n].stage = "compressing"
    /\ \E size \in Sizes :
          uploads' = [uploads EXCEPT ![n].stage = "signing", ![n].size = size]
    /\ Shown(n, "uploading", n)
    /\ UNCHANGED <<parent, publicBase, opens, picked, bucket, chosen, saving, handed, blurred>>

Presigned(n) ==
    /\ uploads[n].stage = "signing"
    /\ Signable(PhotoKeyOf(n), uploads[n].size)
    /\ uploads' = [uploads EXCEPT ![n].stage = "putting"]
    /\ UNCHANGED <<parent, publicBase, opens, view, picked, bucket, chosen, saving, handed, blurred>>

\* One of the three failed; of a PUT only the answer may be missing.
UploadFailed(n) ==
    /\ uploads[n].stage # "none"
    /\ Ended(n)
    /\ Shown(n, "error", view.preview)
    /\ \/ UNCHANGED bucket
       \/ /\ uploads[n].stage = "putting"
          /\ bucket' = bucket \cup {[key |-> PhotoKeyOf(n), size |-> uploads[n].size]}
    /\ UNCHANGED <<parent, publicBase, opens, picked, chosen, saving, handed, blurred>>

\* onChange of the form sets its field, that of a profile sends the PATCH.
OnChange(url) ==
    IF parent = "form"
    THEN chosen' = url /\ UNCHANGED <<saving, handed>>
    ELSE /\ saving' = saving \cup ({url} \ {<<>>})
         /\ handed' = handed \cup ({url} \ {<<>>})
         /\ UNCHANGED chosen

\* The bucket has taken the file.
Uploaded(n) ==
    /\ uploads[n].stage = "putting"
    /\ bucket' = bucket \cup {[key |-> PhotoKeyOf(n), size |-> uploads[n].size]}
    /\ OnChange(PublicUrl(PhotoKeyOf(n)))
    /\ Ended(n)
    /\ Shown(n, "done", view.preview)
    /\ UNCHANGED <<parent, publicBase, opens, picked, blurred>>

\* Mutation: only the widget is cleared.
ClearView ==
    /\ view.open /\ view.phase \in {"done", "error"}
    /\ view' = EmptyWidget
    /\ UNCHANGED <<parent, publicBase, opens, picked, uploads, bucket, chosen, saving, handed, blurred>>

\* reset, which hands up null.
Clear ==
    /\ view.open /\ view.phase \in {"done", "error"}
    /\ view' = EmptyWidget
    /\ OnChange(<<>>)
    /\ UNCHANGED <<parent, publicBase, opens, picked, uploads, bucket, blurred>>

-----------------------------------------------------------------------------
\* The form is sent: it needs a photo.  One that is still uploading is not
\* waited for.
CreateProfile ==
    /\ parent = "form" /\ saving = {}
    /\ chosen # <<>>
    /\ saving' = {chosen} /\ handed' = handed \cup {chosen}
    /\ UNCHANGED <<parent, publicBase, opens, view, picked, uploads, bucket, chosen, blurred>>

\* The answer: the form is emptied for the next employee, but not its widget.
ProfileCreated ==
    /\ parent = "form" /\ saving # {}
    /\ saving' = {}
    /\ \/ chosen' = <<>> /\ blurred' = TRUE
       \/ UNCHANGED <<chosen, blurred>>
    /\ UNCHANGED <<parent, publicBase, opens, view, picked, uploads, bucket, handed>>

\* Replace; a widget that was closed is not the same one.
OpenWidget ==
    /\ parent = "profile" /\ ~view.open
    /\ opens < MaxOpens
    /\ opens' = opens + 1 /\ view' = EmptyWidget
    /\ UNCHANGED <<parent, publicBase, picked, uploads, bucket, chosen, saving, handed, blurred>>

\* Cancel; an upload under way goes on, and sends its PATCH.
CancelReplace ==
    /\ parent = "profile" /\ view.open
    /\ view' = [view EXCEPT !.open = FALSE]
    /\ UNCHANGED <<parent, publicBase, opens, picked, uploads, bucket, chosen, saving, handed, blurred>>

\* A PATCH has succeeded, which closes the widget whatever it does, or failed.
PhotoPatched ==
    /\ parent = "profile"
    /\ \E url \in saving : saving' = saving \ {url}
    /\ \/ view' = [view EXCEPT !.open = FALSE]
       \/ UNCHANGED view
    /\ UNCHANGED <<parent, publicBase, opens, picked, uploads, bucket, chosen, handed, blurred>>

PickNext ==
    \/ Pick \/ PickRefused \/ Clear
    \/ \E n \in Picks : Compressed(n) \/ Presigned(n) \/ UploadFailed(n) \/ Uploaded(n)
    \/ CreateProfile \/ ProfileCreated
    \/ OpenWidget \/ CancelReplace \/ PhotoPatched

PickSpec == PickInit /\ [][PickNext]_pickVars

-----------------------------------------------------------------------------
\* A photo that the backend is told of is there for the AI service to read:
\* uploaded, under a key it manages and within its ceiling, whichever uploads
\* failed, overlapped or were cancelled.
HandedIsReadable == \A url \in handed : Readable(url)

\* In the form, "Photo ready" is said of the photo that will be sent, and an
\* empty widget sends none; unless picks overlapped, or the form was emptied
\* under it.
ShownIsChosen ==
    parent = "form" /\ publicBase /\ ~blurred =>
        /\ view.phase = "done" => chosen = PublicUrl(PhotoKeyOf(view.preview))
        /\ view.phase = "idle" => chosen = <<>>

PhotosArrive == HandedIsReadable /\ ShownIsChosen
=============================================================================
