------------------------------ MODULE MCMedia ------------------------------
(* Instances of Media for model checking. *)
EXTENDS Media, FiniteSets, TLC

CONSTANTS in1, in2, out1, n1, n2, pipe, root, other

Raster(id, size, format, defect) ==
  [id |-> id, size |-> size, format |-> format, defect |-> defect]

Small == Raster("small", 1, "png", None)
Large == Raster("large", 3, "png", None)
Gif == Raster("gif", 1, "gif", None)
Unsized == Raster("unsized", 1, "gif", "unsized")
Animated == Raster("animated", 2, "gif", "animated")
Tiff == Raster("tiff", 2, "tiff", None)
Noise == Raster("noise", 1, None, None)
Torn == Raster("torn", 1, "png", None)

AllBytes == {Small, Large, Gif, Unsized, Animated, Tiff, Noise, Torn}
TornBytes == {Torn}
RootHolds == (root :> {in1, in2}) @@ (other :> {in2, out1})

Of(kind, data, mime) ==
  [kind |-> kind, data |-> data, mime |-> mime, envelope |-> None, uri |-> None,
   forwardsText |-> FALSE]
Text == [Of("text", None, None) EXCEPT !.forwardsText = TRUE]
Note == [Of("textResource", Small, None) EXCEPT !.forwardsText = TRUE]
Image(data, mime) == Of("image", data, mime)
Declared(data) == [fields |-> 3, version |-> 1, digest |-> data.id, sizeBytes |-> data.size]
Handoff(data, uri) ==
  [Image(None, "png") EXCEPT !.envelope = Declared(data), !.uri = uri]

Blocks ==
  {Text, Of("link", None, None), Note,
   Image(Small, "png"), Image(Large, "png"), Image(Gif, "png"), Image(Unsized, "gif"),
   Image(Animated, "gif"), Image(Noise, "png"), Image(Undecodable, "png"),
   Image(Tiff, "tiff"), Image(None, "png"),
   Of("imageBlob", Small, "png"), Of("blob", Large, "pdf"), Of("blob", None, "pdf"),
   Of("blob", Undecodable, "pdf"),
   Handoff(Small, in1), Handoff(Large, in2), Handoff(Small, out1), Handoff(Small, "remote"),
   [Handoff(Small, in1) EXCEPT !.envelope.version = 2],
   [Handoff(Small, in1) EXCEPT !.envelope.sizeBytes = -1],
   [Handoff(Small, in1) EXCEPT !.envelope.digest = "malformed"],
   [Handoff(Small, in1) EXCEPT !.envelope.fields = 4],
   [Handoff(Small, in1) EXCEPT !.envelope = Scalar],
   [Handoff(Small, in1) EXCEPT !.envelope = None],
   [Handoff(Small, in1) EXCEPT !.mime = "tiff"]}

Prompts ==
  {<<b>> : b \in Blocks}
  \cup {<<a, b>> : a \in {Text, Note, Image(Small, "png"), Of("imageBlob", Small, "png")},
                   b \in Blocks}
  \cup {<<Handoff(Small, in1), b>> : b \in {Text, Note, Handoff(Large, in2), Image(Gif, "gif")}}
  \cup {<<Handoff(Small, in1), Handoff(Small, in1), Handoff(Small, in1)>>,
        <<Image(Small, "png"), Note, Of("blob", Small, "pdf"), Image(Gif, "gif")>>}

Options(image, prompt, native, handoffs, blobs, textFirst) ==
  [limits |-> [image |-> image, prompt |-> prompt, output |-> 0],
   native |-> native, root |-> IF handoffs THEN root ELSE None,
   blobs |-> blobs, textBeforeImages |-> textFirst]

AllOptions ==
  {Options(0, 0, 0, TRUE, "gate", FALSE),
   Options(2, 3, 0, TRUE, "gate", TRUE),
   Options(4, 2, 1, TRUE, "refuse", FALSE),
   Options(2, 0, 0, FALSE, "gate", TRUE)}

AllCalls ==
  [kind : {"prompt"}, blocks : Prompts, options : AllOptions]
  \cup [kind : {"file"}, path : Path, roots : {<<root>>, <<root, other>>},
        limits : {[image |-> 0, prompt |-> 0, output |-> l] : l \in {0, 1, 2}}]
  \cup [kind : {"inline"}, data : AllBytes \cup {Undecodable}, mime : {"png", "gif", "pdf"},
        limits : {[image |-> 0, prompt |-> 0, output |-> l] : l \in {0, 1, 2}}]

AllDisks ==
  {(in1 :> n1) @@ (in2 :> n2) @@ (out1 :> None),
   (in1 :> None) @@ (in2 :> pipe) @@ (out1 :> n1),
   (in1 :> [to |-> out1]) @@ (in2 :> [to |-> in1]) @@ (out1 :> n2)}
AllContents ==
  {(n1 :> Small) @@ (n2 :> Large) @@ (pipe :> Noise),
   (n1 :> Tiff) @@ (n2 :> Small) @@ (pipe :> Noise)}

=============================================================================
