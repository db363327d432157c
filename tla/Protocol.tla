------------------------------- MODULE Protocol -------------------------------
(***************************************************************************)
(* The wire protocol of gateway/app/protocol.py: what a request body is    *)
(* taken to mean, what is stored of it, and how a task is told to the      *)
(* client.  Pure operators; the path of a request through them is          *)
(* RequestPath.                                                            *)
(*                                                                         *)
(* Abstracted: a URL is a model value, a text `w:h' the pair <<w, h>>, any *)
(* other text, and any value int() refuses, Junk; a field left out is      *)
(* Absent.  The prompt goes through unread; only that an image request has *)
(* one matters.  Roles are written in lower case, as the parser reads them.*)
(***************************************************************************)
EXTENDS Integers, SequencesExt

CONSTANTS
  Urls, NoUrl,     \* media locations a client names, and "no location"
  Absent, Junk     \* a field that is missing, and one nobody can read

DefaultDuration   == 6
DefaultRatio      == <<16, 9>>
DefaultResolution == "768P"
ImageMaxN         == 9

Or(value, default)  == IF value = Absent THEN default ELSE value
IntOr(value, default) == IF value \in {Absent, Junk} THEN default ELSE value

(* The elements of s at some of its places, in order.                        *)
Kept(s, places) ==
  LET kept[n \in 0..Len(s)] ==
        IF n = 0 THEN <<>>
        ELSE IF n \in places THEN Append(kept[n - 1], s[n]) ELSE kept[n - 1]
  IN  kept[Len(s)]
Given(urls) == Kept(urls, {i \in DOMAIN urls : urls[i] # NoUrl})

-----------------------------------------------------------------------------
(* The roles that make a content image a frame; every other role, or none,   *)
(* makes it a subject reference.                                             *)
FirstRoles == {"first_frame", "first_frame_image", "keyframe", "first"}
LastRoles  == {"last_frame", "last_frame_image", "last"}

Part(role) ==
  IF role \in FirstRoles THEN "first" ELSE IF role \in LastRoles THEN "last" ELSE "subject"

(* The images of content[] that play some part.                              *)
Images(content, part) ==
  Kept([i \in DOMAIN content |-> content[i].url],
       {i \in DOMAIN content : /\ content[i].type = "image_url" /\ content[i].url # NoUrl
                               /\ Part(content[i].role) = part})
FirstOf(urls, otherwise) == IF urls = <<>> THEN otherwise ELSE Head(urls)

(* subject_reference: entries of one or several urls each, in order.         *)
SubjectReferences(entries) == Given(FlattenSeq(entries))

(* Slips: subjects counted before content, the closing frame listed first,   *)
(* and a clip length that is not read back.                                  *)
SubjectsFirst(body) ==
  SubjectReferences(body.subject) \o Images(body.content, "subject")
ClosingFirst(body) ==
  Given(<<FirstOf(Images(body.content, "last"), body.last),
          FirstOf(Images(body.content, "first"), body.first)>>)
DurationForgotten(req) == [req EXCEPT !.duration = DefaultDuration]

(* The subject references, as the client's text numbers them.                *)
References(body) ==
  Images(body.content, "subject") \o SubjectReferences(body.subject)

(* keyframe_urls: the opening frame, if any, then the closing one, if any;   *)
(* a role in content[] comes before the top-level field.                     *)
Keyframes(body) ==
  Given(<<FirstOf(Images(body.content, "first"), body.first),
          FirstOf(Images(body.content, "last"), body.last)>>)

(* int(duration), or 6 seconds if that is missing or no number: any integer. *)
AskedDuration(value) == IntOr(value, DefaultDuration)

(* parse_video_request: refused, or a GenRequest.                            *)
VideoRefused(body) ==
  body.content = <<>> \/ (Keyframes(body) # <<>> /\ References(body) # <<>>)
ParseVideo(body) ==
  [references |-> References(body), keyframes |-> Keyframes(body),
   resolution |-> Or(body.resolution, DefaultResolution),
   ratio |-> Or(body.ratio, DefaultRatio), duration |-> AskedDuration(body.duration)]

(* GenRequest.task: the workflow.                                            *)
Task(req) ==
  CASE req.keyframes # <<>>  -> "fl2va"
    [] req.keyframes = <<>> /\ req.references # <<>> -> "ref2va"
    [] OTHER -> "t2va"

(* GenRequest.from_dict of what to_dict stored: `or' takes a stored duration *)
(* of 0 for a missing one.                                                   *)
Reloaded(req) == [req EXCEPT !.duration = IF @ = 0 THEN DefaultDuration ELSE @]

-----------------------------------------------------------------------------
(* parse_image_request: n between 1 and 9, dimensions only if both are       *)
(* numbers (0 for one that is missing).                                      *)
Clamped(n) == IF n < 1 THEN 1 ELSE IF n > ImageMaxN THEN ImageMaxN ELSE n
ImageRefused(body) == ~ body.prompt
ParseImage(body) ==
  LET side(x) == IF Junk \in {body.width, body.height} THEN 0 ELSE IntOr(x, 0)
  IN  [n |-> Clamped(IntOr(body.n, 1)), width |-> side(body.width),
       height |-> side(body.height), ratio |-> Or(body.ratio, DefaultRatio),
       references |-> SubjectReferences(body.subject)]

-----------------------------------------------------------------------------
(* poll_response: the status and, for a success, the media.  A success       *)
(* without media is told as a failure.                                       *)
PollResponse(row) ==
  IF row.status = "succeeded" /\ row.urls # <<>>
  THEN [status |-> "succeeded", urls |-> row.urls]
  ELSE [status |-> IF row.status = "succeeded" THEN "failed" ELSE row.status, urls |-> <<>>]

(* The image route's answer to a finished task: image_response with every    *)
(* reference, or image_error_body.                                           *)
ImageResponse(row) ==
  IF row.status = "succeeded" /\ row.urls # <<>>
  THEN [status |-> "ok", urls |-> row.urls] ELSE [status |-> "error", urls |-> <<>>]
=============================================================================
