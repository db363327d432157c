------------------------------- MODULE ModelCall -------------------------------
(***************************************************************************)
(* From a stored request to what the model is run with: the bodies that    *)
(* gateway/app/backend.py sends to the shims, and what the shims of        *)
(* serving/ make of them.  Pure operators over the requests of Protocol.   *)
(*                                                                         *)
(* The backend always names the task, so the shim's guess at a missing one *)
(* is left out; images are fetched, here they are their URLs.              *)
(***************************************************************************)
EXTENDS Protocol

CONSTANTS
  MaxReferences,     \* references the ref2va workflow takes: 9
  Workflow           \* H3_WORKFLOW: the partitions the video shim has loaded

ASSUME ModelCallAssumption ==
  MaxReferences \in Nat \ {0} /\ Workflow \in {"fl2va", "ref2va", "both"}

(* round() of a / b: to the nearest integer, to the even one of two.         *)
RoundedUnder(a, b) ==
  LET q == a \div b  r == 2 * (a % b)
  IN  IF r < b \/ (r = b /\ q % 2 = 0) THEN q ELSE q + 1
Rounded(a, b) == IF b < 0 THEN RoundedUnder(-a, -b) ELSE RoundedUnder(a, b)

AtLeast(least, n) == IF n < least THEN least ELSE n
Upto(n, s) == SubSeq(s, 1, IF Len(s) < n THEN Len(s) ELSE n)
Sides(ratio) == IF ratio = Junk THEN <<16, 9>> ELSE ratio

(* Slips: a reference sent as the opening frame, and frames left above the   *)
(* ceiling.                                                                  *)
ReferenceAsFrame(req) ==
  [task |-> "fl2va", shortEdge |-> 768, ratio |-> req.ratio, duration |-> req.duration,
   conditions |-> [i \in DOMAIN req.references |->
                     [uri |-> req.references[i], frame |-> 0, index |-> Absent]]]
NotSteppedDown(f) == f

-----------------------------------------------------------------------------
(* SGLangBackend._to_sglang.  A keyframe's place in the list is its frame:   *)
(* the first is the opening frame, a second the closing one (-1).            *)
ToSglang(req) ==
  [task |-> Task(req),
   conditions |->
     CASE Task(req) = "fl2va" ->
            LET frames == Upto(2, req.keyframes)
            IN  [i \in DOMAIN frames |->
                   [uri |-> frames[i], frame |-> <<0, -1>>[i], index |-> Absent]]
       [] Task(req) = "ref2va" ->
            LET refs == Upto(MaxReferences, req.references)
            IN  [i \in DOMAIN refs |-> [uri |-> refs[i], frame |-> Absent, index |-> i - 1]]
       [] OTHER -> <<>>,
   shortEdge |-> IF req.resolution = "768P" THEN 768 ELSE 480,
   ratio |-> req.ratio, duration |-> req.duration]

(* _short_edge_dims: the other edge to the nearest multiple of 32.  Of a     *)
(* ratio only its form is checked: a negative side gives a negative edge,    *)
(* and where the code divides by 0 the job raises.                           *)
HasCanvas(ratio) == (IF Sides(ratio)[1] >= Sides(ratio)[2] THEN Sides(ratio)[2]
                                                          ELSE Sides(ratio)[1]) # 0
ShortEdgeDims(shortEdge, ratio) ==
  LET w == Sides(ratio)[1]  h == Sides(ratio)[2]
  IN  IF w >= h THEN <<Rounded(shortEdge * w, h * 32) * 32, shortEdge>>
                ELSE <<shortEdge, Rounded(shortEdge * h, w * 32) * 32>>

(* _frames_for: 24 frames a second, rounded up to 17k + 5, brought down by   *)
(* 17s to at most 360, and no fewer than 120.                                *)
SteppedDown(f) == IF f <= 360 THEN f ELSE f - 17 * ((f - 360 + 16) \div 17)
FramesFor(duration) ==
  LET n == AtLeast(5, 24 * duration)
      up == n + ((5 - (n % 17)) % 17)
  IN  AtLeast(120, SteppedDown(up))

(* _build_conditioning and run_job of the video shim: references by index in *)
(* the ref2va workflow, frames by frame index in the others; the LoRA and    *)
(* the steps it was distilled to follow the task, whatever the call hints.   *)
ByIndex(conditions) ==  \* sorted: the n-th has n - 1 of a lower index
  [n \in DOMAIN conditions |->
     CHOOSE c \in Range(conditions) :
       Cardinality({d \in Range(conditions) : d.index < c.index}) = n - 1]
FrameAt(call, at) ==
  LET there == Kept(call.conditions,
                    {i \in DOMAIN call.conditions : call.conditions[i].frame = at})
  IN  IF there = <<>> THEN NoUrl ELSE Last(there).uri
RunVideo(call) ==
  LET refs == ByIndex(Kept(call.conditions,
                           {i \in DOMAIN call.conditions :
                              call.conditions[i].frame = Absent}))
      dims == ShortEdgeDims(call.shortEdge, call.ratio)
      byReference == call.task = "ref2va"
  IN  [width |-> dims[1], height |-> dims[2],
       frames |-> FramesFor(IF call.duration = 0 THEN 6 ELSE call.duration),
       image |-> IF byReference THEN NoUrl ELSE FrameAt(call, 0),
       lastImage |-> IF byReference THEN NoUrl ELSE FrameAt(call, -1),
       references |-> IF byReference THEN [i \in DOMAIN refs |-> refs[i].uri] ELSE <<>>,
       adapter |-> IF Workflow = "both" THEN IF byReference THEN "ref2v" ELSE "fl2v"
                   ELSE IF Workflow = "ref2va" THEN "ref2v" ELSE "fl2v",
       steps |-> IF byReference THEN 5 ELSE 9]

-----------------------------------------------------------------------------
(* FluxImageBackend._to_flux: dimensions only when both are given, and one   *)
(* subject at most.                                                          *)
ToFlux(req) ==
  [n |-> AtLeast(1, req.n), sized |-> req.width # 0 /\ req.height # 0,
   width |-> req.width, height |-> req.height, ratio |-> req.ratio,
   references |-> Upto(1, req.references)]

(* _dims of the image shim: multiples of 16, at least 256; from a ratio, the *)
(* long edge is 1024, and the longer side is what is divided by.             *)
HasSize(call) ==
  call.sized \/ (IF Sides(call.ratio)[1] >= Sides(call.ratio)[2] THEN Sides(call.ratio)[1]
                                                                ELSE Sides(call.ratio)[2]) # 0
ImageDims(call) ==
  LET w == Sides(call.ratio)[1]  h == Sides(call.ratio)[2]
      dims == IF call.sized THEN <<(call.width \div 16) * 16, (call.height \div 16) * 16>>
              ELSE IF w >= h THEN <<1024, Rounded(1024 * h, w * 16) * 16>>
              ELSE <<Rounded(1024 * w, h * 16) * 16, 1024>>
  IN  <<AtLeast(256, dims[1]), AtLeast(256, dims[2])>>

ImageCount(call) == Clamped(call.n)

(* run_job of the image shim.                                                *)
RunImage(call) ==
  [width |-> ImageDims(call)[1], height |-> ImageDims(call)[2], n |-> ImageCount(call),
   image |-> IF call.references = <<>> THEN NoUrl ELSE call.references[1]]
=============================================================================
