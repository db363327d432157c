------------------------------ MODULE RequestPath ------------------------------
(***************************************************************************)
(* One request from the body a client sends to the answer it reads: parsed *)
(* by a route, stored as a row, read back by the worker, turned into a call*)
(* of a shim, into a run of a model, into media, a charge and an answer.   *)
(* Each step sees only what the one before handed on, so what the client   *)
(* meant has to survive six translations.                                  *)
(***************************************************************************)
EXTENDS ModelCall

CONSTANTS
  VideoBodies, ImageBodies,  \* the bodies a client may send to either route
  None                       \* nothing there yet

(* What a body holds.  A length is a number, missing or unreadable; a ratio  *)
(* is any two integers, as nothing checks it.  Subjects are lists of         *)
(* locations.                                                                *)
Lengths    == Int \cup {Absent, Junk}
RatioTexts == (Int \X Int) \cup {Absent, Junk}
Locations  == Urls \cup {NoUrl}
Items      == [type : STRING, role : STRING, url : Locations]

Refusal == [status |-> "refused", urls |-> <<>>]  \* the answer to a body not taken

ASSUME BodiesAssumption ==
  /\ None \notin VideoBodies \cup ImageBodies /\ None \notin {"video", "image"} /\ None # Refusal
  /\ Absent \notin Int /\ Junk \notin Int
  /\ \A v \in VideoBodies :
       /\ v.content \in Seq(Items) /\ {v.first, v.last} \subseteq Locations
       /\ FlattenSeq(v.subject) \in Seq(Locations)
       /\ v.duration \in Lengths /\ v.ratio \in RatioTexts
  /\ \A v \in ImageBodies : {v.n, v.width, v.height} \subseteq Lengths /\ v.ratio \in RatioTexts

VARIABLES
  kind,      \* the route the client called
  body,      \* what it sent
  row,       \* the task's row
  call,      \* the body of the worker's call to the shim
  job,       \* what the model is run with
  charged,   \* what was added to seconds_billed for it
  answer     \* what the client heard last

pathVars == <<kind, body, row, call, job, charged, answer>>

Init ==
  /\ kind = None /\ body = None /\ row = None /\ call = None /\ job = None
  /\ charged = 0 /\ answer = None

Queued(request, duration) ==
  [request |-> request, duration |-> duration, status |-> "queued", urls |-> <<>>]

(* Slip: the last image of a batch is left behind.                           *)
AllButLast(n) == SubSeq([i \in 1..n |-> i], 1, n - 1)

-----------------------------------------------------------------------------
(* The submit routes: parse, refuse or enqueue.                              *)
SubmitVideo(b) ==
  /\ body = None
  /\ kind' = "video" /\ body' = b
  /\ IF VideoRefused(b) THEN answer' = Refusal /\ UNCHANGED row
     ELSE row' = Queued(ParseVideo(b), ParseVideo(b).duration) /\ UNCHANGED answer
  /\ UNCHANGED <<call, job, charged>>

SubmitImage(b) ==
  /\ body = None
  /\ kind' = "image" /\ body' = b
  /\ IF ImageRefused(b) THEN answer' = Refusal /\ UNCHANGED row
     ELSE row' = Queued(ParseImage(b), 0) /\ UNCHANGED answer
  /\ UNCHANGED <<call, job, charged>>

(* run_once: the row's request, read back, becomes a call of the shim.       *)
Generate ==
  /\ row # None /\ row.status = "queued"
  /\ row' = [row EXCEPT !.status = "running"]
  /\ call' = IF kind = "image" THEN ToFlux(row.request) ELSE ToSglang(Reloaded(row.request))
  /\ UNCHANGED <<kind, body, job, charged, answer>>

(* run_job of the shim, up to the pipeline; without a canvas it raises, and  *)
(* the task can only Fail.                                                   *)
Run ==
  /\ call # None /\ job = None
  /\ IF kind = "image" THEN HasSize(call) ELSE HasCanvas(call.ratio)
  /\ job' = IF kind = "image" THEN RunImage(call) ELSE RunVideo(call)
  /\ UNCHANGED <<kind, body, row, call, charged, answer>>

(* The pipeline's media, numbered: _materialize, publish, mark_succeeded and *)
(* the charge.                                                               *)
Materialized(n) == [i \in 1..n |-> i]
Charge(media) == IF kind = "image" THEN Len(media) ELSE row.duration
Publish ==
  /\ job # None /\ row.status = "running"
  /\ LET media == Materialized(IF kind = "image" THEN job.n ELSE 1)
     IN  /\ row' = [row EXCEPT !.status = "succeeded", !.urls = media]
         /\ charged' = Charge(media)
  /\ UNCHANGED <<kind, body, call, job, answer>>

(* The pipeline raises, or an image cannot be fetched.                       *)
Fail ==
  /\ row # None /\ row.status = "running"
  /\ row' = [row EXCEPT !.status = "failed"]
  /\ UNCHANGED <<kind, body, call, job, charged, answer>>

(* A poll at any time, or the image route's wait once the task has ended.    *)
Answer ==
  /\ row # None
  /\ kind = "image" => row.status \in {"succeeded", "failed"}
  /\ answer' = IF kind = "image" THEN ImageResponse(row) ELSE PollResponse(row)
  /\ UNCHANGED <<kind, body, row, call, job, charged>>

Next ==
  \/ \E b \in VideoBodies : SubmitVideo(b)
  \/ \E b \in ImageBodies : SubmitImage(b)
  \/ Generate \/ Run \/ Publish \/ Fail \/ Answer

Spec == Init /\ [][Next]_pathVars

-----------------------------------------------------------------------------
(* What the body means, read off the body alone.                             *)
PlacesOf(Plays(_)) ==
  {i \in DOMAIN body.content : /\ body.content[i].type = "image_url"
                               /\ body.content[i].url # NoUrl
                               /\ Plays(body.content[i].role)}
ReferencePlaces == PlacesOf(LAMBDA r : r \notin FirstRoles \cup LastRoles)
FramePlaces     == PlacesOf(LAMBDA r : r \in FirstRoles \cup LastRoles)
Subjects        == Given(FlattenSeq(body.subject))

FramesAsked     == ({body.content[i].url : i \in FramePlaces} \cup {body.first, body.last})
                     \ {NoUrl}
ReferencesAsked == {body.content[i].url : i \in ReferencePlaces} \cup Range(Subjects)

(* The frames asked for at one end: by the earliest content item of its      *)
(* roles, and by the top-level field.                                        *)
FramesAt(roles, field) ==
  LET places == PlacesOf(LAMBDA r : r \in roles)
  IN  ({field} \cup {body.content[i].url : i \in {k \in places : \A n \in places : k <= n}})
        \ {NoUrl}
Openings == FramesAt(FirstRoles, body.first)
Closings == FramesAt(LastRoles, body.last)

VideoRun == kind = "video" /\ job # None

(* An image given as a subject never becomes a frame, nor a frame a subject; *)
(* neither is dropped for the other; and the LoRA and step count are those   *)
(* of the mode the client asked for.  A request is refused only for mixing   *)
(* the two, or for having no content.                                        *)
ModesApart ==
  /\ VideoRun =>
       LET frames == {job.image, job.lastImage} \ {NoUrl}
       IN  /\ frames \subseteq FramesAsked /\ Range(job.references) \subseteq ReferencesAsked
           /\ frames = {} <=> FramesAsked = {}
           /\ job.references = <<>> <=> ReferencesAsked = {}
           /\ Workflow = "both" => (job.adapter = "ref2v" <=> ReferencesAsked # {})
           /\ job.steps = 5 <=> ReferencesAsked # {}
  /\ (kind = "video" /\ answer = Refusal) <=>
       /\ kind = "video"
       /\ body.content = <<>> \/ (FramesAsked # {} /\ ReferencesAsked # {})

(* A clip with an opening frame opens with one that was asked for there, by  *)
(* content or field, and closes with one asked for there if any was: the two *)
(* ends are neither swapped nor dropped, nor filled from one another.        *)
FramesInPlace ==
  VideoRun /\ Openings # {} =>
    /\ job.image \in Openings
    /\ IF Closings = {} THEN job.lastImage = NoUrl ELSE job.lastImage \in Closings

(* "Reference image N" of the prompt is the N-th reference of the request,   *)
(* content before subjects, as far as the model takes references.            *)
ReferencesInOrder ==
  VideoRun =>
    LET inContent == Cardinality(ReferencePlaces)
        total == inContent + Len(Subjects)
    IN  /\ Len(job.references) = IF total < MaxReferences THEN total ELSE MaxReferences
        /\ \A i \in ReferencePlaces :
             LET n == Cardinality({k \in ReferencePlaces : k <= i})
             IN  n <= MaxReferences => job.references[n] = body.content[i].url
        /\ \A s \in DOMAIN Subjects :
             inContent + s <= MaxReferences => job.references[inContent + s] = Subjects[s]

(* What is charged for a clip is its length, to within one step of 17        *)
(* frames: more is charged only beyond the 15 seconds the model makes at     *)
(* most, less only below the 5 it makes at least.                            *)
ChargeFollowsClip ==
  (VideoRun /\ row.status = "succeeded") =>
    /\ 24 * charged > job.frames + 16 => charged > 15
    /\ job.frames > 24 * charged + 16 => charged < 5

(* What reaches the model: 120 to 360 frames, 17k + 5 of them for a clip of  *)
(* 5 seconds or more; the short edge asked for, and the other a multiple of  *)
(* 32 that is nearer than one such step to the ratio, if that has a meaning. *)
GeometryAccepted ==
  VideoRun =>
    LET sides == Sides(row.request.ratio)  wide == sides[1] >= sides[2]
        edge  == IF row.request.resolution = "768P" THEN 768 ELSE 480
        short == IF wide THEN job.height ELSE job.width
        long  == IF wide THEN job.width ELSE job.height
        big   == IF wide THEN sides[1] ELSE sides[2]
        small == IF wide THEN sides[2] ELSE sides[1]
    IN  /\ job.frames \in 120..360
        /\ row.duration = 0 \/ row.duration >= 5 => job.frames % 17 = 5
        /\ short = edge /\ long % 32 = 0
        /\ small > 0 => /\ short <= long
                        /\ long * small - edge * big \in (-31 * small)..(31 * small)

(* An image request is answered with as many images as it asked for (1 to 9),*)
(* each once and in order, and charged for just these; its edges are         *)
(* multiples of 16, 256 or more, and never above what was asked for more.    *)
ImagesAccounted ==
  (kind = "image" /\ job # None) =>
    /\ \A edge \in {job.width, job.height} : edge % 16 = 0 /\ edge >= 256
    /\ call.sized => /\ job.width <= AtLeast(256, body.width)
                     /\ job.height <= AtLeast(256, body.height)
    /\ answer # None /\ answer.status = "ok" =>
         /\ answer.urls = [i \in 1..job.n |-> i] /\ charged = job.n
         /\ job.n \in 1..9 /\ (body.n \in 1..9 => job.n = body.n)

(* What comments and documents say of clips and the code does not do.        *)
(* "Top-level MiniMax-official fields take precedence" (protocol.py:163): a  *)
(* frame given there is a frame of the clip, whatever the content has.       *)
TopLevelFramesWin == {body.first, body.last} \ {NoUrl} \subseteq {job.image, job.lastImage}

(* A closing frame is the one of `frame_index' -1 (backend.py:123), also     *)
(* when there is no opening frame.                                           *)
ClosingFrameCloses ==
  Openings = {} /\ Closings # {} => job.image = NoUrl /\ job.lastImage \in Closings

(* Every valid duration, 4 to 15 (docs/API.md), becomes a frame count of the *)
(* form 17k + 5 (serving/README.md).                                         *)
ClipsOnGrid == row.duration \in 4..15 => job.frames % 17 = 5

(* 16:9 at 768P is 1344 x 768 (docs/API.md, and what the shim's comment says *)
(* the model was trained at).                                                *)
CanvasAsTrained ==
  row.request.resolution = "768P" /\ row.request.ratio = <<16, 9>> =>
    job.width = 1344 /\ job.height = 768

(* All four are said of every clip; of some clips not one is true.           *)
SomeDocumentHolds ==
  VideoRun => TopLevelFramesWin \/ ClosingFrameCloses \/ ClipsOnGrid \/ CanvasAsTrained
=============================================================================
