------------------------------- MODULE Media -------------------------------
(***************************************************************************)
(* The image gates (image/input.go, handoff.go, limits.go, output.go): one *)
(* call of ValidatePrompt, ReadFile or DecodeOutput, while the host or the *)
(* harness changes the files it names.                                     *)
(*                                                                         *)
(* A byte string is a member of Bytes, with its size and what the raster   *)
(* parsers make of it; its id stands for its SHA-256.  A path names a file *)
(* in a fixed directory, a file is a node that names come and go for, and  *)
(* a symbolic link leads to a path that is no link itself.                 *)
(***************************************************************************)
EXTENDS Integers, Sequences

CONSTANTS
  None,
  Path, Node,
  Irregular,   \* the nodes that are directories, pipes or devices
  Root,        \* directories that are configured as roots,
  Holds,       \* and the paths that lie in them once directories are resolved
  Bytes,
  Undecodable, \* data that is no base64
  Scalar,      \* a handoff envelope that is no object
  Mixed,       \* what a read may return while its file is written
  Formats,     \* the inbound allowlist,
  ImageTypes,  \* among the types that are an image's
  FrameClamp,
  MaxHandoffs, \* maxHandoffBlocksPerPrompt
  Calls,       \* the calls that are made
  Disks,       \* the files there may be at first,
  Contents,    \* and their contents
  MaxChanges   \* bound on the changes to the files

Kinds == {"image", "imageBlob", "blob", "textResource", "text", "link"}

(* The codes of refusals, and what is not refused. *)
Verdicts ==
  {"admitted", "emitted", "aborted", "unsupported", "too_large", "invalid_handoff",
   "invalid_media_type", "media_type_mismatch", "invalid_dimensions", "animated_not_supported",
   "invalid_base64", "missing_data", "handoff_digest_mismatch", "missing_file",
   "path_not_allowed", "not_raster"}

(* A text resource always has its text. *)
BlocksOf(blocks) ==
  /\ Len(blocks) \in Nat /\ DOMAIN blocks = 1 .. Len(blocks)
  /\ \A i \in DOMAIN blocks :
       LET b == blocks[i]
       IN  /\ b.kind \in Kinds
           /\ b.data \in Bytes \cup {None, Undecodable}
           /\ b.kind = "textResource" => b.data \in Bytes

(* raster.go: format is None when the bytes are no known raster. *)
ASSUME MediaAssumption ==
  /\ Irregular \subseteq Node
  /\ Holds \in [Root -> SUBSET Path]
  /\ \A b \in Bytes : /\ DOMAIN b = {"id", "size", "format", "defect"}
                      /\ b.size \in Nat
                      /\ b.defect \in {"animated", "unsized", None}
                      /\ b.defect # None => b.format \in Formats
  /\ Mixed \subseteq Bytes
  /\ FrameClamp \in Nat \ {0} /\ MaxHandoffs \in Nat /\ MaxChanges \in Nat

(* Validate admits no negative limit. *)
Limits == [image : Nat, prompt : Nat, output : Nat]

Link == [to : Path]

(* The calls are of the API's types; what its arguments name may be any    *)
(* files.                                                                  *)
ASSUME CallsAssumption ==
  /\ \A c \in Calls :
       /\ c.kind \in {"prompt", "file", "inline"}
       /\ c.kind = "prompt" => /\ BlocksOf(c.blocks)
                              /\ c.options.limits \in Limits /\ c.options.native \in Nat
       /\ c.kind = "file" => /\ c.path \in Path /\ c.limits \in Limits
                            /\ Len(c.roots) \in Nat /\ DOMAIN c.roots = 1 .. Len(c.roots)
       /\ c.kind = "inline" => c.data \in Bytes \cup {Undecodable} /\ c.limits \in Limits
  /\ Disks \subseteq [Path -> Node \cup {None} \cup Link]
  /\ Contents \subseteq [Node -> Bytes]

(* What stands for something else is none of the things. *)
ASSUME NamesAssumption ==
  /\ None \notin Bytes /\ None \notin Verdicts
  /\ Undecodable \notin Bytes /\ Undecodable # None

VARIABLES
  call,       \* the call, with its arguments
  standing,   \* the roots that exist
  disk,       \* what each path names: a node, a link or nothing
  content,    \* the bytes of each node
  changes,
  ended,      \* the context of the call has ended
  at,         \* what the call does next
  progress,   \* ValidatePrompt's locals
  file,       \* the descriptor that is open
  answer

files == <<standing, disk, content, changes>>
vars == <<call, files, ended, at, progress, file, answer>>

Descriptor == [place : Path, node : Node, seen : Bytes]

Init ==
  /\ call \in Calls
  /\ standing \in {Root, {}}
  /\ disk \in Disks /\ content \in Contents
  /\ changes = 0
  /\ ended = FALSE
  /\ at = CASE call.kind = "prompt" -> "block"
            [] call.kind = "file"   -> "resolve"
            [] call.kind = "inline" -> "decode"
  /\ progress = [block |-> 1, charged |-> 0, handoffs |-> 0, index |-> 0, images |-> <<>>]
  /\ file = None
  /\ answer = None

-----------------------------------------------------------------------------
(* The files, and the system's answers about them *)

Busy == at \in {"open", "read", "inspect"}

(* Rename, remove, create, or a link in the place of a file. *)
NameChanges ==
  /\ Busy /\ changes < MaxChanges
  /\ \E p \in Path, entry \in Node \cup {None} \cup Link :
       /\ entry # disk[p]
       /\ disk' = [disk EXCEPT ![p] = entry]
  /\ changes' = changes + 1
  /\ UNCHANGED <<call, standing, content, ended, at, progress, file, answer>>

FileIsWritten ==
  /\ Busy /\ changes < MaxChanges
  /\ \E n \in Node \ Irregular, b \in Bytes :
       /\ b # content[n]
       /\ content' = [content EXCEPT ![n] = b]
  /\ changes' = changes + 1
  /\ UNCHANGED <<call, standing, disk, ended, at, progress, file, answer>>

ContextEnds ==
  /\ call.kind = "prompt" /\ answer = None /\ ~ended
  /\ ended' = TRUE
  /\ UNCHANGED <<call, files, at, progress, file, answer>>

Followed(p) == IF disk[p] \in Link THEN disk[p].to ELSE p

(* filepath.EvalSymlinks: the path, or why there is none. *)
Resolved(p) ==
  LET q == Followed(p)
  IN  IF disk[q] = None THEN "missing" ELSE IF disk[q] \in Link THEN "unsafe" ELSE q

(* os.Root.OpenFile: what lies outside the root is not opened. *)
Opened(root, p) ==
  LET q == Followed(p)
  IN  IF ~(root \in standing /\ p \in Holds[root] /\ q \in Holds[root]) \/ disk[q] \in Link
      THEN [refusal |-> "path_not_allowed"]
      ELSE IF disk[q] = None THEN [refusal |-> "missing_file"]
      ELSE [place |-> q, node |-> disk[q], seen |-> content[disk[q]]]

(* io.ReadAll(io.LimitReader(file, bound)), of a file that may be written  *)
(* meanwhile.                                                              *)
Reads(bound) ==
  {[of |-> b, len |-> IF b.size < bound THEN b.size ELSE bound] :
     b \in {content[file.node]}
           \cup (IF content[file.node] # file.seen THEN Mixed ELSE {})}

Answers(a) == at' = "done" /\ file' = None /\ answer' = a

-----------------------------------------------------------------------------
(* Limits *)

EffectiveInputPerImage(limits, native) ==
  LET policy == IF limits.image = 0 \/ limits.image > FrameClamp
                THEN FrameClamp ELSE limits.image
  IN  IF native > 0 /\ native < policy THEN native ELSE policy

ClampOutput(configured) ==
  IF configured = 0 \/ configured > FrameClamp THEN FrameClamp ELSE configured

(* What a sibling advertises of the options that it passes. *)
MediaEnvelope(options) ==
  [maxBytes |-> EffectiveInputPerImage(options.limits, options.native),
   maxPromptBytes |-> options.limits.prompt,
   imageFormats |-> Formats]

(* Faulty variant: the configured limit, unclamped, is the gate's. *)
MaxImageBytesConfigured == call.options.limits.image

MaxImageBytes == EffectiveInputPerImage(call.options.limits, call.options.native)
-----------------------------------------------------------------------------
(* ValidatePrompt *)

options == call.options
Block == call.blocks[progress.block]
IsMedia(b) == b.kind \notin {"text", "link"}
NativeImage(b) == b.kind \in {"image", "imageBlob"}
TakesIndex(b) == IsMedia(b) /\ b.kind # "textResource"

Size(data) == IF data = None THEN 0 ELSE data.size
Whole(data) == [of |-> data, len |-> data.size]

(* A file URI is a path or, when its host or its path is refused, "remote". *)
HandoffForm(b) ==
  /\ b.kind = "image" /\ b.data = None
  /\ b.envelope # None \/ b.uri \in Path \cup {"remote"}

(* handoffURIPath *)
NamesLocalPath(b) == b.uri \in Path

WellFormed(envelope) ==
  /\ envelope \notin {None, Scalar}
  /\ envelope.fields = 3 /\ envelope.version = 1
  /\ envelope.digest # "malformed"
  /\ envelope.sizeBytes \in Nat

TooManyHandoffs(b) ==
  options.root # None /\ HandoffForm(b) /\ progress.handoffs >= MaxHandoffs

(* What readHandoff refuses before it opens anything. *)
HandoffDefect(b) ==
  IF options.root = None \/ ~WellFormed(b.envelope) \/ ~NamesLocalPath(b)
  THEN "invalid_handoff"
  ELSE IF b.mime \notin Formats                THEN "invalid_media_type"
  ELSE IF b.envelope.sizeBytes > MaxImageBytes THEN "too_large"
  ELSE None

RasterDefect(data, mime) ==
  IF data.format \notin Formats       THEN "media_type_mismatch"
  ELSE IF data.defect = "unsized"     THEN "invalid_dimensions"
  ELSE IF data.defect = "animated"    THEN "animated_not_supported"
  ELSE IF data.format # mime          THEN "media_type_mismatch"
  ELSE None

EmbeddedDefect(b) ==
  IF b.kind = "textResource"          THEN None
  ELSE IF b.kind = "blob"
       THEN IF b.data = Undecodable THEN "invalid_base64" ELSE None
  ELSE IF b.data = None               THEN "missing_data"
  ELSE IF b.mime \notin Formats       THEN "invalid_media_type"
  ELSE IF b.data = Undecodable        THEN "invalid_base64"
  ELSE RasterDefect(b.data, b.mime)

(* The gates behind the decoding: each image, then the whole prompt. *)
SizeDefect(b, len) ==
  LET charged == progress.charged + len
  IN  IF \/ b.kind # "textResource" /\ len > MaxImageBytes
         \/ (options.limits.prompt > 0 /\ charged > options.limits.prompt)
      THEN "too_large" ELSE None

Defect(b) ==
  IF b.kind = "blob" /\ options.blobs = "refuse" THEN "unsupported"
  ELSE IF TooManyHandoffs(b)                     THEN "too_large"
  ELSE IF HandoffForm(b)                         THEN HandoffDefect(b)
  ELSE IF EmbeddedDefect(b) # None               THEN EmbeddedDefect(b)
  ELSE SizeDefect(b, Size(b.data))

Refuses(b, code) ==
  /\ Answers([verdict |-> code,
              index |-> IF code = "unsupported" THEN -1 ELSE progress.index])
  /\ UNCHANGED progress

NextIndex(b) == IF TakesIndex(b) THEN progress.index + 1 ELSE progress.index

Passes(b, data) ==
  /\ at' = "block" /\ file' = None
  /\ progress' =
       [progress EXCEPT
          !.block = @ + 1,
          !.charged = @ + data.len,
          !.handoffs = IF HandoffForm(b) THEN @ + 1 ELSE @,
          !.index = NextIndex(b),
          !.images = IF TakesIndex(b)
                     THEN Append(@, [data |-> data, mime |-> b.mime,
                                     block |-> progress.block, index |-> progress.index])
                     ELSE @]
  /\ UNCHANGED answer

AtBlock == at = "block" /\ progress.block <= Len(call.blocks)

ContextStopsIt ==
  /\ AtBlock \/ (at = "open" /\ call.kind = "prompt")
  /\ ended
  /\ Answers([verdict |-> "aborted"])
  /\ UNCHANGED <<call, files, ended, progress>>

SkipsBlock ==
  /\ AtBlock /\ ~ended /\ ~IsMedia(Block)
  /\ progress' = [progress EXCEPT !.block = @ + 1]
  /\ UNCHANGED <<call, files, ended, at, file, answer>>

ChecksBlock ==
  /\ AtBlock /\ ~ended /\ IsMedia(Block)
  /\ \/ /\ Defect(Block) # None
        /\ Refuses(Block, Defect(Block))
     \/ /\ Defect(Block) = None
        /\ IF HandoffForm(Block)
           THEN at' = "open" /\ UNCHANGED <<progress, file, answer>>
           ELSE Passes(Block, [of |-> Block.data, len |-> Size(Block.data)])
  /\ UNCHANGED <<call, files, ended>>

(* The root answers the open; the descriptor is then inspected. *)
OpensHandoff ==
  /\ at = "open" /\ call.kind = "prompt" /\ ~ended
  /\ LET opened == Opened(options.root, Block.uri)
     IN  \/ /\ opened \in Descriptor /\ opened.node \notin Irregular
            /\ at' = "read" /\ file' = opened
            /\ UNCHANGED <<progress, answer>>
         \/ /\ opened \in Descriptor /\ opened.node \in Irregular
            /\ Refuses(Block, "path_not_allowed")
         \/ /\ opened \notin Descriptor
            /\ Refuses(Block, opened.refusal)
  /\ UNCHANGED <<call, files, ended>>

(* Faulty variant: the size alone is compared. *)
HandoffBytesMatchSize(data, envelope) == data.len = envelope.sizeBytes

HandoffBytesMatch(data, envelope) ==
  /\ data.len = envelope.sizeBytes
  /\ data.len = data.of.size /\ data.of.id = envelope.digest

ReadHandoffDefect(b, data) ==
  IF ~HandoffBytesMatch(data, b.envelope) THEN "handoff_digest_mismatch"
  ELSE IF RasterDefect(data.of, b.mime) # None THEN RasterDefect(data.of, b.mime)
  ELSE SizeDefect(b, data.len)

ReadsHandoff ==
  /\ at = "read" /\ call.kind = "prompt"
  /\ \/ Refuses(Block, "missing_file")
     \/ \E data \in Reads(Block.envelope.sizeBytes + 1) :
          LET defect == ReadHandoffDefect(Block, data)
          IN  IF defect # None THEN Refuses(Block, defect) ELSE Passes(Block, data)
  /\ UNCHANGED <<call, files, ended>>

(* textBeforeImages: text that would be forwarded behind an image. *)
TextFollowsImage ==
  \E i, j \in DOMAIN call.blocks :
    /\ i < j /\ NativeImage(call.blocks[i])
    /\ call.blocks[j].forwardsText /\ ~NativeImage(call.blocks[j])

EndsPrompt ==
  /\ at = "block" /\ progress.block > Len(call.blocks)
  /\ IF options.textBeforeImages /\ TextFollowsImage
     THEN Answers([verdict |-> "unsupported", index |-> -1])
     ELSE Answers([verdict |-> "admitted", images |-> progress.images])
  /\ UNCHANGED <<call, files, ended, progress>>

-----------------------------------------------------------------------------
(* ReadFile and DecodeOutput *)

SniffedMIME(data) ==
  IF data.defect = "unsized" THEN None ELSE data.format

Limit == ClampOutput(call.limits.output)

OutputVerdict(data) ==
  IF data.len > Limit                  THEN "too_large"
  ELSE IF SniffedMIME(data.of) = None  THEN "not_raster"
  ELSE "emitted"

Inside(p, root) == root \in standing /\ p \in Holds[root]

Containing(p) == {i \in DOMAIN call.roots : Inside(p, call.roots[i])}

(* containingRoot: the first root, in order, that the path lies in. *)
ContainingRoot(p) ==
  call.roots[CHOOSE i \in Containing(p) : \A j \in Containing(p) : i <= j]

(* resolveMissing: a path that is missing is placed by its own spelling. *)
Placed(p) == IF Resolved(p) = "missing" THEN p ELSE Resolved(p)

ResolvesPath ==
  /\ at = "resolve"
  /\ LET resolved == Resolved(call.path)
         allowed == resolved # "unsafe" /\ Containing(Placed(call.path)) # {}
     IN  \/ /\ ~allowed
            /\ Answers([verdict |-> "path_not_allowed"])
            /\ UNCHANGED progress
         \/ /\ allowed /\ resolved = "missing"
            /\ Answers([verdict |-> "missing_file"])
            /\ UNCHANGED progress
         \/ /\ allowed /\ resolved # "missing"
            /\ at' = "open"
            /\ progress' = [root |-> ContainingRoot(resolved), path |-> resolved]
            /\ UNCHANGED <<file, answer>>
  /\ UNCHANGED <<call, files, ended>>

OpensArtifact ==
  /\ at = "open" /\ call.kind = "file"
  /\ LET opened == Opened(progress.root, progress.path)
     IN  \/ /\ opened \in Descriptor
            /\ at' = "inspect" /\ file' = opened
            /\ UNCHANGED answer
         \/ /\ opened \notin Descriptor
            /\ Answers([verdict |-> opened.refusal])
  /\ UNCHANGED <<call, files, ended, progress>>

InspectsArtifact ==
  /\ at = "inspect"
  /\ \/ file.node \in Irregular /\ Answers([verdict |-> "path_not_allowed"])
     \/ /\ file.node \notin Irregular /\ content[file.node].size > Limit
        /\ Answers([verdict |-> "too_large"])
     \/ /\ file.node \notin Irregular /\ content[file.node].size <= Limit
        /\ at' = "read" /\ UNCHANGED <<file, answer>>
  /\ UNCHANGED <<call, files, ended, progress>>

(* Faulty variant: nothing is read beyond the limit. *)
OutputBoundAtLimit == Limit

OutputBound == Limit + 1

ReadsArtifact ==
  /\ at = "read" /\ call.kind = "file"
  /\ \/ Answers([verdict |-> "missing_file"])
     \/ \E data \in Reads(OutputBound) :
          Answers([verdict |-> OutputVerdict(data), data |-> data, place |-> file.place])
  /\ UNCHANGED <<call, files, ended, progress>>

(* A declared image type that differs from the bytes' is refused. *)
InlineVerdict(data, mime) ==
  IF data = Undecodable THEN "invalid_base64"
  ELSE LET verdict == OutputVerdict(Whole(data))
       IN  IF verdict = "emitted" /\ mime \in ImageTypes \ {SniffedMIME(data)}
           THEN "media_type_mismatch" ELSE verdict

DecodesInline ==
  /\ at = "decode"
  /\ Answers([verdict |-> InlineVerdict(call.data, call.mime), data |-> call.data])
  /\ UNCHANGED <<call, files, ended, progress>>

-----------------------------------------------------------------------------
Next ==
  \/ NameChanges \/ FileIsWritten \/ ContextEnds
  \/ ContextStopsIt \/ SkipsBlock \/ ChecksBlock
  \/ OpensHandoff \/ ReadsHandoff \/ EndsPrompt
  \/ ResolvesPath \/ OpensArtifact \/ InspectsArtifact \/ ReadsArtifact
  \/ DecodesInline

Spec == Init /\ [][Next]_vars

-----------------------------------------------------------------------------
(* Properties *)

Verdict == IF answer = None THEN None ELSE answer.verdict

(* What a block says it weighs. *)
Stated(b) ==
  IF ~IsMedia(b) THEN 0
  ELSE IF HandoffForm(b) THEN IF WellFormed(b.envelope) THEN b.envelope.sizeBytes ELSE 0
  ELSE IF b.data = Undecodable THEN 0 ELSE Size(b.data)

TotalStated(blocks) ==
  LET total[n \in 0 .. Len(blocks)] ==
        IF n = 0 THEN 0 ELSE total[n - 1] + Stated(blocks[n])
  IN  total

StatedUpTo(n) == TotalStated(call.blocks)[n]

(* The advertised media envelope and the gates agree (MediaEnvelope and    *)
(* ValidatePrompt compute their bounds apart): what is admitted keeps to   *)
(* the envelope, and what is refused as too large broke it, by what the    *)
(* request itself stated.  No prompt opens more than the bounded number of *)
(* files.                                                                  *)
EnvelopeIsExact ==
  call.kind = "prompt" =>
    LET envelope == MediaEnvelope(options)
        OverPrompt(n) == envelope.maxPromptBytes > 0 /\ StatedUpTo(n) > envelope.maxPromptBytes
        OverImage(b) == TakesIndex(b) /\ Stated(b) > envelope.maxBytes
    IN  /\ progress.handoffs <= MaxHandoffs
        /\ Verdict = "admitted" =>
             /\ ~OverPrompt(Len(call.blocks))
             /\ \A i \in DOMAIN call.blocks :
                  LET b == call.blocks[i]
                  IN  ~OverImage(b) /\ (NativeImage(b) => b.mime \in envelope.imageFormats)
        /\ Verdict = "too_large" =>
             \/ OverPrompt(progress.block) \/ OverImage(Block)
             \/ progress.handoffs = MaxHandoffs /\ HandoffForm(Block)

(* Whatever the host does to its files meanwhile, an admitted prompt holds *)
(* each image and blob of the request, in its order and at its index, with *)
(* the very bytes that the request sent or whose digest it declared, and   *)
(* of the format it declared (decodeMedia, handoffBytesMatch, checkRaster).*)
AdmittedAsDeclared ==
  Verdict = "admitted" =>
    LET images == answer.images
    IN  /\ {images[i].block : i \in DOMAIN images}
              = {j \in DOMAIN call.blocks : TakesIndex(call.blocks[j])}
        /\ \A i \in DOMAIN images :
             LET b == call.blocks[images[i].block]
                 data == images[i].data
             IN  /\ images[i].index = i - 1
                 /\ i > 1 => images[i - 1].block < images[i].block
                 /\ data.len = Size(data.of)
                 /\ IF HandoffForm(b) THEN data.of.id = b.envelope.digest
                                     ELSE data.of = b.data
                 /\ NativeImage(b) => data.of.format = b.mime /\ data.of.defect = None

(* An emitted artifact is a whole raster within the limit, never the head  *)
(* of a file that grew after it was inspected, and was opened inside a     *)
(* root, also when the path changed after it was resolved (ReadFile).      *)
ArtifactIsWhole ==
  Verdict = "emitted" =>
    LET data == IF call.kind = "inline" THEN Whole(answer.data) ELSE answer.data
    IN  /\ data.len = data.of.size /\ data.len <= Limit
        /\ SniffedMIME(data.of) # None
        /\ call.kind = "file" =>
             \E i \in DOMAIN call.roots : Inside(answer.place, call.roots[i])

=============================================================================
