-------------------------------- MODULE Assets --------------------------------
(***************************************************************************)
(* Media: a row in PostgreSQL and an object in storage, kept in step by    *)
(* the two-phase upload, used as the inputs of one generation, and listed  *)
(* page by page.                                                           *)
(*                                                                         *)
(* A browser asks for an upload URL, puts the bytes straight into storage  *)
(* and asks for confirmation.  A confirmation reads the row, then the      *)
(* object, and then writes the row, with nothing locked in between; any    *)
(* number of them may be under way for one upload.  The generation checks  *)
(* its inputs when it is asked for, reads them again when it is claimed,   *)
(* and stores what it rendered under a URL signed at the claim.            *)
(***************************************************************************)
EXTENDS Naturals, Sequences, FiniteSets

CONSTANTS
    Uploads,  \* asset ids the browser uploads; ids are numbers, for their order
    Output,   \* the asset id of the generation's result
    Requests, \* confirmations under way at once
    Times,    \* creation times; two rows may share one
    Limit     \* page size

ASSUME AssetsAssumption ==
    /\ Uploads \subseteq Nat /\ Output \in Nat \ Uploads
    /\ IsFiniteSet(Uploads)
    /\ Times \subseteq Nat /\ Times # {}
    /\ Limit \in Nat \ {0}

VARIABLES
    row,     \* row[a]: the asset's row
    object,  \* object[a]: what storage holds under the asset's key
    confirm, \* confirm[c]: a confirmation under way
    listing, \* one walk through the media library
    work     \* the generation and the worker that runs it

assetVars == <<row, object, confirm, listing, work>>

Ids     == Uploads \cup {Output}
Nothing == "none"
Sizes   == {"fits", "over"}  \* against MAX_SIZE_BYTES of the asset's kind

Row     == [status : {"absent", "pending", "ready", "failed"}, at : Times]
Confirm == [asset : Ids, stat : {"idle", "unread"} \cup Sizes]
Idle    == [asset |-> Output, stat |-> "idle"]
Work    == [phase : {"none", "checked", "queued", "claimed", "rendering", "rendered", "done"},
            inputs : SUBSET Uploads,  \* generation_job_inputs
            given  : SUBSET Uploads]  \* what the claim carried

Ready == {a \in Ids : row[a].status = "ready"}

AssetsInit ==
    /\ row     \in [Ids -> {[status |-> "absent", at |-> t] : t \in Times}]
    /\ object  = [a \in Ids |-> Nothing]
    /\ confirm = [c \in Requests |-> Idle]
    /\ listing = [on |-> FALSE, promised |-> {}, pages |-> <<>>]
    /\ work    = [phase |-> "none", inputs |-> {}, given |-> {}]

(***************************************************************************)
(* The upload.                                                             *)
(***************************************************************************)
\* create_upload_url, for a declared type and size that are allowed.
CreateUpload(a) ==
    /\ row[a].status = "absent"
    /\ row' = [row EXCEPT ![a].status = "pending"]
    /\ UNCHANGED <<object, confirm, listing, work>>

\* The browser's PUT.  Storage enforces the signed type, never a size, and the
\* URL may be used again, after the confirmation too, until it expires; when that
\* is is left open, and no PUT has to come.
Put(a, size) ==
    /\ row[a].status # "absent"
    /\ object' = [object EXCEPT ![a] = size]
    /\ UNCHANGED <<row, confirm, listing, work>>

\* confirm_upload: a row that is ready already is answered as it is.
ConfirmLoad(c, a) ==
    /\ confirm[c] = Idle
    /\ row[a].status \in {"pending", "failed"}
    /\ confirm' = [confirm EXCEPT ![c] = [asset |-> a, stat |-> "unread"]]
    /\ UNCHANGED <<row, object, listing, work>>

ConfirmStat(c) ==
    /\ confirm[c].stat = "unread"
    /\ LET found == object[confirm[c].asset]
       IN  confirm' = [confirm EXCEPT ![c] = IF found = Nothing THEN Idle
                                             ELSE [@ EXCEPT !.stat = found]]
    /\ UNCHANGED <<row, object, listing, work>>

\* Mutation: the refusal is returned instead of raised, so FAILED is committed.
RefuseCommitted(c) ==
    /\ confirm[c].stat = "over"
    /\ object'  = [object EXCEPT ![confirm[c].asset] = Nothing]
    /\ row'     = [row EXCEPT ![confirm[c].asset].status = "failed"]
    /\ confirm' = [confirm EXCEPT ![c] = Idle]
    /\ UNCHANGED <<listing, work>>

\* The object is deleted, the row marked FAILED, and the refusal raised: the
\* route never commits, so the row stays as it was and the object is gone.
Refuse(c) ==
    /\ confirm[c].stat = "over"
    /\ object'  = [object EXCEPT ![confirm[c].asset] = Nothing]
    /\ confirm' = [confirm EXCEPT ![c] = Idle]
    /\ UNCHANGED <<row, listing, work>>

Accept(c) ==
    /\ confirm[c].stat = "fits"
    /\ row'     = [row EXCEPT ![confirm[c].asset].status = "ready"]
    /\ confirm' = [confirm EXCEPT ![c] = Idle]
    /\ UNCHANGED <<object, listing, work>>

-----------------------------------------------------------------------------
(***************************************************************************)
(* The media library: newest first, only what is ready, by keyset.         *)
(***************************************************************************)
\* (created_at, id) of a is below the cursor's: ids break ties.
Below(a, b) == row[a].at < row[b].at \/ (row[a].at = row[b].at /\ a < b)

\* Mutation: the cursor carries the time alone.
BeyondByTime(pages) ==
    {a \in Ready : pages = <<>> \/ row[a].at < row[pages[Len(pages)]].at}

Beyond(pages) == {a \in Ready : pages = <<>> \/ Below(a, pages[Len(pages)])}

ListFirst ==
    /\ ~listing.on
    /\ listing' = [on |-> TRUE, promised |-> Ready, pages |-> <<>>]
    /\ UNCHANGED <<row, object, confirm, work>>

\* ORDER BY created_at DESC, id DESC: at place i is the row that i - 1 others precede.
NewestFirst(S) == [i \in 1..Cardinality(S) |->
                     CHOOSE a \in S : Cardinality({b \in S : Below(a, b)}) = i - 1]

\* list_for_user: Limit + 1 rows are read, and the last only says there are more.
Found(pages) == NewestFirst(Beyond(pages))

ListPage ==
    /\ listing.on
    /\ LET found == Found(listing.pages)
       IN  listing' = [listing EXCEPT
             !.pages = @ \o SubSeq(found, 1, IF Len(found) > Limit THEN Limit ELSE Len(found)),
             !.on    = Len(found) > Limit]
    /\ UNCHANGED <<row, object, confirm, work>>

-----------------------------------------------------------------------------
(***************************************************************************)
(* One generation over those assets.                                       *)
(***************************************************************************)
\* _validate_inputs: what the request names must be ready; the identity image
\* a continuation inherits is left out when it is not.
CheckInputs(named, inherited) ==
    /\ work.phase = "none"
    /\ named \subseteq Ready
    /\ work' = [work EXCEPT !.phase = "checked", !.inputs = named \cup (inherited \cap Ready)]
    /\ UNCHANGED <<row, object, confirm, listing>>

\* The job and its links are inserted and committed.
Submit ==
    /\ work.phase = "checked"
    /\ work' = [work EXCEPT !.phase = "queued"]
    /\ UNCHANGED <<row, object, confirm, listing>>

\* claim_job: an input that is not ready is left out.
Claim ==
    /\ work.phase = "queued"
    /\ work' = [work EXCEPT !.phase = "claimed", !.given = work.inputs \cap Ready]
    /\ UNCHANGED <<row, object, confirm, listing>>

\* Back in the queue: how often is JobQueue's concern.
TryAgain == work' = [work EXCEPT !.phase = "queued"]

\* _stage_inputs: a missing object is an error, as is a download that breaks.
Stage ==
    /\ work.phase = "claimed"
    /\ \/ /\ \A a \in work.given : object[a] # Nothing
          /\ work' = [work EXCEPT !.phase = "rendering"]
       \/ TryAgain
    /\ UNCHANGED <<row, object, confirm, listing>>

\* The adapter returns, fails, or uses up its budget.
Rendered ==
    /\ work.phase = "rendering"
    /\ work' = [work EXCEPT !.phase = "rendered"] \/ TryAgain
    /\ UNCHANGED <<row, object, confirm, listing>>

\* upload_output_file and the completion.  An upload may break, or come after the
\* URL's signature has expired: nothing bounds the time since the claim.
UploadOutput ==
    /\ work.phase = "rendered"
    /\ \/ /\ object' = [object EXCEPT ![Output] = "fits"]
          /\ row'    = [row EXCEPT ![Output].status = "ready"]  \* register_generated
          /\ work'   = [work EXCEPT !.phase = "done"]
       \/ TryAgain /\ UNCHANGED <<row, object>>
    /\ UNCHANGED <<confirm, listing>>

-----------------------------------------------------------------------------
Upload == \E a \in Uploads :
    CreateUpload(a) \/ \E size \in Sizes : Put(a, size)

Confirmation == \E c \in Requests :
    \/ \E a \in Uploads : ConfirmLoad(c, a)
    \/ ConfirmStat(c) \/ Refuse(c) \/ Accept(c)

Generation ==
    \/ \E named, inherited \in SUBSET Uploads : CheckInputs(named, inherited)
    \/ Submit \/ Claim \/ Stage \/ Rendered \/ UploadOutput

AssetsNext == Upload \/ Confirmation \/ ListFirst \/ ListPage \/ Generation

AssetsSpec == AssetsInit /\ [][AssetsNext]_assetVars

(***************************************************************************)
(* Properties.                                                             *)
(***************************************************************************)
\* Rows, objects, confirmations and the generation have their types.
AssetsTypeOK ==
    /\ row \in [Ids -> Row]
    /\ object \in [Ids -> Sizes \cup {Nothing}]
    /\ confirm \in [Requests -> Confirm]
    /\ listing.on \in BOOLEAN /\ listing.promised \subseteq Ids
    /\ work \in Work

\* A worker is handed every input the generation was accepted with: claim_job
\* drops what is not ready without a word, so nothing that two confirmations,
\* late PUTs and refusals do between acceptance and claim may undo a ready row.
ClaimCarriesEveryInput ==
    work.phase \in {"claimed", "rendering", "rendered", "done"} => work.given = work.inputs

\* A walk of the library shows nothing twice, and at its end has shown all that
\* was ready when it began, whatever is uploaded or becomes ready meanwhile.
ListingIsComplete ==
    /\ \A i, j \in DOMAIN listing.pages : i # j => listing.pages[i] # listing.pages[j]
    /\ ~listing.on =>
         listing.promised \subseteq {listing.pages[i] : i \in DOMAIN listing.pages}
=============================================================================
