----------------------------- MODULE MCRequestPath -----------------------------
(* RequestPath over small sets of bodies: some that vary the images, some     *)
(* that vary length and canvas, and some image requests.                      *)
EXTENDS RequestPath

CONSTANTS a, b

MCItems ==
  {[type |-> "text", role |-> "", url |-> NoUrl]}
    \cup [type : {"image_url"}, role : {"first_frame", "last_frame", "reference_image"},
          url : {a, b}]
    \cup {[type |-> "image_url", role |-> "", url |-> NoUrl]}

VideoBody(content, first, last, subject, duration, resolution, ratio) ==
  [content |-> content, first |-> first, last |-> last, subject |-> subject,
   duration |-> duration, resolution |-> resolution, ratio |-> ratio]

(* Up to two content items, either top-level frame, up to two subjects.       *)
ImageInputs ==
  {VideoBody(c, f, l, s, Absent, Absent, Absent) :
     c \in {<<>>} \cup [1..1 -> MCItems] \cup [1..2 -> MCItems],
     f \in {NoUrl, a}, l \in {NoUrl, b},
     s \in {<<>>, <<<<a>>>>, <<<<b, NoUrl>>, <<a>>>>}}

Ratios == {<<21, 9>>, <<16, 9>>, <<4, 3>>, <<1, 1>>, <<3, 4>>, <<9, 16>>, Junk}
            \cup {<<0, 9>>, <<16, 0>>, <<0, 0>>, <<-16, 9>>, <<9, -16>>, <<-16, -9>>}

Canvases ==
  {VideoBody(<<[type |-> "text", role |-> "", url |-> NoUrl]>>, NoUrl, NoUrl, <<>>, d, p, r) :
     d \in (-2..20) \cup {Absent, Junk}, p \in {Absent, "480P"}, r \in Ratios}

MCVideoBodies == ImageInputs \cup Canvases

(* What the documents promise something of: clips of 16:9 at the default of    *)
(* 768P, of a valid duration, with frames.                                     *)
MCDocumentedBodies ==
  {VideoBody(c, f, l, <<>>, d, Absent, <<16, 9>>) :
     c \in [1..1 -> MCItems], f \in {NoUrl, a}, l \in {NoUrl, b}, d \in {4, 6}}

MCImageBodies ==
  [prompt : BOOLEAN, n : {-1, 0, 1, 2, 9, 10, Absent, Junk}, width : {0, 100, 1000, Junk, Absent},
   height : {768, Absent}, ratio : Ratios \cup {Absent}, subject : {<<>>, <<<<a, b>>>>}]
=============================================================================
