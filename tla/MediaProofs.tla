----------------------------- MODULE MediaProofs -----------------------------
(***************************************************************************)
(* What the image gates admit and emit, for every byte string, prompt,     *)
(* root and limit, whatever is done to the files meanwhile.  The invariant *)
(* follows ValidatePrompt's locals: the blocks behind the loop fit and are *)
(* charged as they stated, and each image taken is the one of its block.   *)
(***************************************************************************)
EXTENDS Media, SequenceTheorems, WellFoundedInduction, TLAPS

(* The gate of a single image, of a call c. *)
Cap(c) == EffectiveInputPerImage(c.options.limits, c.options.native)

Fits(c, b) ==
  /\ TakesIndex(b) => Stated(b) <= Cap(c)
  /\ NativeImage(b) => b.mime \in Formats

(* What was read or decoded, *)
Data == [of : Bytes \cup {None}, len : Nat]

Taken(c) ==
  [data : Data, mime : {c.blocks[j].mime : j \in DOMAIN c.blocks},
   block : DOMAIN c.blocks, index : Nat]

(* and that it is what the block declared. *)
IsDeclared(b, data) ==
  /\ data.len = Size(data.of)
  /\ IF HandoffForm(b) THEN data.of.id = b.envelope.digest ELSE data.of = b.data
  /\ NativeImage(b) => data.of.format = b.mime /\ data.of.defect = None

(* ValidatePrompt's locals, p, between two blocks. *)
Locals(c, p) ==
  /\ p \in [block : 1 .. Len(c.blocks) + 1, charged : Nat, handoffs : 0 .. MaxHandoffs,
            index : Nat, images : Seq(Taken(c))]
  /\ p.index = Len(p.images)

Charged(c, p) ==
  /\ p.charged = TotalStated(c.blocks)[p.block - 1]
  /\ c.options.limits.prompt > 0 => p.charged <= c.options.limits.prompt

PassedFit(c, p) == \A i \in 1 .. p.block - 1 : Fits(c, c.blocks[i])

ImagesInOrder(c, p) ==
  \A i \in DOMAIN p.images :
    LET image == p.images[i]
        b == c.blocks[image.block]
    IN  /\ image.block < p.block /\ TakesIndex(b)
        /\ image.index = i - 1
        /\ i > 1 => p.images[i - 1].block < image.block
        /\ IsDeclared(b, image.data)

NoneIsLost(c, p) ==
  \A j \in 1 .. p.block - 1 :
    TakesIndex(c.blocks[j]) => \E i \in DOMAIN p.images : p.images[i].block = j

Kept(c, p) ==
  Locals(c, p) /\ Charged(c, p) /\ PassedFit(c, p) /\ ImagesInOrder(c, p) /\ NoneIsLost(c, p)

(* The handoff that is opened and read has passed every earlier gate. *)
Awaited(c, p) ==
  LET b == c.blocks[p.block]
  IN  /\ p.block \in DOMAIN c.blocks
      /\ HandoffForm(b) /\ WellFormed(b.envelope) /\ NamesLocalPath(b)
      /\ b.mime \in Formats /\ b.envelope.sizeBytes <= Cap(c)
      /\ p.handoffs < MaxHandoffs

(* Why a prompt is too large, by what it states. *)
IsTooLarge(c, p) ==
  LET b == c.blocks[p.block]
  IN  /\ p.block \in DOMAIN c.blocks
      /\ \/ /\ c.options.limits.prompt > 0
            /\ TotalStated(c.blocks)[p.block] > c.options.limits.prompt
         \/ TakesIndex(b) /\ Stated(b) > Cap(c)
         \/ p.handoffs = MaxHandoffs /\ HandoffForm(b)

VerdictOf(a) == IF a = None THEN None ELSE a.verdict

PromptInv(c, p, a) ==
  /\ Kept(c, p)
  /\ VerdictOf(a) = "admitted" => p.block = Len(c.blocks) + 1 /\ a.images = p.images
  /\ VerdictOf(a) = "too_large" => IsTooLarge(c, p)
  /\ VerdictOf(a) # "emitted"

(* An artifact. *)
IsWhole(data, limit) ==
  data.len = data.of.size /\ data.len <= limit /\ SniffedMIME(data.of) # None

InARoot(c, place, roots) ==
  \E i \in DOMAIN c.roots : c.roots[i] \in roots /\ place \in Holds[c.roots[i]]

FileInv(c, roots, a) ==
  /\ VerdictOf(a) # "admitted"
  /\ VerdictOf(a) = "emitted" =>
       /\ IsWhole(a.data, ClampOutput(c.limits.output))
       /\ InARoot(c, a.place, roots)

InlineInv(c, a) ==
  /\ VerdictOf(a) # "admitted"
  /\ VerdictOf(a) = "emitted" => IsWhole(Whole(a.data), ClampOutput(c.limits.output))

FilesTyped ==
  /\ standing \subseteq Root
  /\ disk \in [Path -> Node \cup {None} \cup Link]
  /\ content \in [Node -> Bytes]

(* What the call is about to do, and with which file. *)
AtPrompt ==
  /\ at \in {"block", "open", "read", "done"}
  /\ at \in {"open", "read"} => Awaited(call, progress)
  /\ at = "read" => file \in Descriptor

AtFile ==
  /\ at \in {"resolve", "open", "inspect", "read", "done"}
  /\ at = "open" =>
       progress.path \in Path /\ \E i \in DOMAIN call.roots : progress.root = call.roots[i]
  /\ at \in {"inspect", "read"} => file \in Descriptor /\ InARoot(call, file.place, standing)

AtInline == at \in {"decode", "done"}

MediaInv ==
  /\ call \in Calls
  /\ FilesTyped
  /\ at # "done" => answer = None
  /\ call.kind = "prompt" => AtPrompt /\ PromptInv(call, progress, answer)
  /\ call.kind = "file" => AtFile /\ FileInv(call, standing, answer)
  /\ call.kind = "inline" => AtInline /\ InlineInv(call, answer)

-----------------------------------------------------------------------------
(* Positions and sums *)

(* A nonempty set of positions has a least one (containingRoot returns the *)
(* first root that contains the path).                                     *)
LEMMA LeastPosition ==
  ASSUME NEW S, S \subseteq Nat, S # {}
  PROVE  \E i \in S : \A j \in S : i <= j
<1>1. PICK m \in S : \A k \in S : <<k, m>> \notin OpToRel(<, Nat)
  BY NatLessThanWellFounded, WFMin, Zenon
<1>2. \A k \in S : ~ (k < m)
  BY <1>1, Zenon DEF OpToRel
<1> QED  BY <1>2

(* What holds of 0 and of each next position holds of all up to n.         *)
LEMMA UpToPosition ==
  ASSUME NEW n \in Nat, NEW S, 0 \in S, \A m \in 0 .. n - 1 : m \in S => m + 1 \in S
  PROVE  \A m \in 0 .. n : m \in S
<1> DEFINE left == {m \in 0 .. n : m \notin S}
<1> SUFFICES ASSUME left # {} PROVE FALSE
  OBVIOUS
<1>1. left \subseteq Nat
  OBVIOUS
<1>2. PICK m \in left : \A k \in left : m <= k
  BY <1>1, LeastPosition
<1>3. m - 1 \in 0 .. n - 1 /\ m - 1 \in S
  BY <1>2
<1> QED  BY <1>2, <1>3

(* Numbers can be summed: the function that the recursion defines exists.  *)
LEMMA SumsExist ==
  ASSUME NEW n \in Nat, NEW s \in [1 .. n -> Nat]
  PROVE  \E f \in [0 .. n -> Nat] :
           f = [m \in 0 .. n |-> IF m = 0 THEN 0 ELSE f[m - 1] + s[m]]
<1> DEFINE Sums(f, k) == f[0] = 0 /\ \A m \in 1 .. k : f[m] = f[m - 1] + s[m]
           summed == {k \in 0 .. n : \E f \in [0 .. k -> Nat] : Sums(f, k)}
<1>1. 0 \in summed
  <2> DEFINE f == [m \in 0 .. 0 |-> 0]
  <2>1. f \in [0 .. 0 -> Nat] /\ Sums(f, 0)
    OBVIOUS
  <2> HIDE DEF f
  <2>2. 0 \in 0 .. n
    OBVIOUS
  <2> QED  BY <2>1, <2>2
<1>2. ASSUME NEW k \in 0 .. n - 1, k \in summed PROVE k + 1 \in summed
  <2>1. PICK f \in [0 .. k -> Nat] : Sums(f, k)
    BY <1>2
  <2> DEFINE g == [m \in 0 .. k + 1 |-> IF m = k + 1 THEN f[k] + s[k + 1] ELSE f[m]]
  <2>2. f[k] \in Nat /\ s[k + 1] \in Nat
    OBVIOUS
  <2>3. g \in [0 .. k + 1 -> Nat]
    BY <2>2
  <2>4. Sums(g, k + 1)
    <3>1. g[0] = 0
      BY <2>1
    <3>2. ASSUME NEW m \in 1 .. k + 1 PROVE g[m] = g[m - 1] + s[m]
      BY <2>1
    <3> QED  BY <3>1, <3>2
  <2> HIDE DEF g
  <2>5. k + 1 \in 0 .. n
    OBVIOUS
  <2> QED  BY <2>3, <2>4, <2>5
<1> HIDE DEF summed
<1>3. n \in summed
  <2>1. \A k \in 0 .. n : k \in summed
    BY <1>1, <1>2, UpToPosition
  <2> QED  BY <2>1
<1>4. PICK f \in [0 .. n -> Nat] : Sums(f, n)
  BY <1>3 DEF summed
<1>5. f = [m \in 0 .. n |-> IF m = 0 THEN 0 ELSE f[m - 1] + s[m]]
  BY <1>4
<1> QED  BY <1>5

(* What a block states is a size (handoffEnvelope's sizeBytes, or the      *)
(* bytes that the block carries).                                          *)
LEMMA StatedSize ==
  ASSUME NEW blocks, BlocksOf(blocks), NEW i \in DOMAIN blocks
  PROVE  Stated(blocks[i]) \in Nat
<1> DEFINE b == blocks[i]
<1>1. b.data \in Bytes \cup {None, Undecodable}
  BY DEF BlocksOf
<1> HIDE DEF b
<1>2. Size(b.data) \in Nat \/ b.data = Undecodable
  BY <1>1, MediaAssumption DEF Size
<1>3. Stated(b) \in Nat
  BY <1>2 DEF Stated, WellFormed
<1> QED  BY <1>3 DEF b

(* The total that the blocks state grows with each block by what it states.*)
LEMMA StatedTotals ==
  ASSUME NEW blocks, BlocksOf(blocks)
  PROVE  /\ TotalStated(blocks) \in [0 .. Len(blocks) -> Nat]
         /\ TotalStated(blocks)[0] = 0
         /\ \A i \in DOMAIN blocks :
              TotalStated(blocks)[i] = TotalStated(blocks)[i - 1] + Stated(blocks[i])
<1> DEFINE n == Len(blocks)
           s == [i \in 1 .. n |-> Stated(blocks[i])]
           Is(f) == f = [m \in 0 .. n |-> IF m = 0 THEN 0 ELSE f[m - 1] + Stated(blocks[m])]
<1>1. n \in Nat /\ DOMAIN blocks = 1 .. n
  BY DEF BlocksOf
<1>2. s \in [1 .. n -> Nat]
  BY <1>1, StatedSize
<1> HIDE DEF n
<1>3. PICK f \in [0 .. n -> Nat] :
        f = [m \in 0 .. n |-> IF m = 0 THEN 0 ELSE f[m - 1] + s[m]]
  <2> HIDE DEF s
  <2> QED  BY <1>1, <1>2, SumsExist
<1>4. Is(f)
  <2>1. ASSUME NEW m \in 0 .. n, m # 0 PROVE m \in 1 .. n
    BY <1>1, <2>1
  <2>2. \A m \in 0 .. n : m # 0 => s[m] = Stated(blocks[m])
    BY <2>1
  <2> HIDE DEF s
  <2> QED  BY <1>3, <2>2
<1> DEFINE t == TotalStated(blocks)
<1>5. Is(t)
  BY <1>4 DEF TotalStated, n
<1> HIDE DEF t
<1>6. t \in [0 .. n -> Nat]
  <2> DEFINE sized == {m \in 0 .. n : t[m] \in Nat}
  <2>1. 0 \in sized
    BY <1>1, <1>5
  <2>2. ASSUME NEW m \in 0 .. n - 1, m \in sized PROVE m + 1 \in sized
    <3>1. t[m + 1] = t[m] + Stated(blocks[m + 1])
      BY <1>1, <1>5
    <3>2. Stated(blocks[m + 1]) \in Nat
      BY <1>1, StatedSize
    <3> QED  BY <1>1, <2>2, <3>1, <3>2
  <2> HIDE DEF sized
  <2>3. \A m \in 0 .. n : m \in sized
    BY <1>1, <2>1, <2>2, UpToPosition
  <2>4. DOMAIN t = 0 .. n /\ t = [m \in DOMAIN t |-> t[m]]
    BY <1>5, Zenon
  <2> QED  BY <2>3, <2>4 DEF sized
<1>7. t[0] = 0 /\ \A i \in 1 .. n : t[i] = t[i - 1] + Stated(blocks[i])
  BY <1>1, <1>5
<1> QED  BY <1>1, <1>6, <1>7 DEF t, n

-----------------------------------------------------------------------------
(* ValidatePrompt's locals *)

(* A prompt has typed blocks and limits. *)
LEMMA PromptCall ==
  ASSUME NEW c \in Calls, c.kind = "prompt"
  PROVE  /\ BlocksOf(c.blocks)
         /\ Len(c.blocks) \in Nat /\ DOMAIN c.blocks = 1 .. Len(c.blocks)
         /\ c.options.limits \in Limits /\ c.options.native \in Nat
         /\ c.options.limits.prompt \in Nat
         /\ Cap(c) \in Nat
<1>1. BlocksOf(c.blocks) /\ c.options.limits \in Limits /\ c.options.native \in Nat
  BY CallsAssumption
<1>2. Len(c.blocks) \in Nat /\ DOMAIN c.blocks = 1 .. Len(c.blocks)
  BY <1>1 DEF BlocksOf
<1>3. Cap(c) \in Nat /\ c.options.limits.prompt \in Nat
  <2> DEFINE limits == c.options.limits
             native == c.options.native
  <2>1. limits \in Limits /\ native \in Nat
    BY <1>1
  <2> HIDE DEF limits, native
  <2>2. EffectiveInputPerImage(limits, native) \in Nat /\ limits.prompt \in Nat
    BY <2>1, MediaAssumption DEF EffectiveInputPerImage, Limits
  <2> QED  BY <2>2 DEF Cap, limits, native
<1> QED  BY <1>1, <1>2, <1>3

Counted(p, b, data) ==
  [p EXCEPT
     !.block = @ + 1,
     !.charged = @ + data.len,
     !.handoffs = IF HandoffForm(b) THEN @ + 1 ELSE @,
     !.index = IF TakesIndex(b) THEN p.index + 1 ELSE p.index,
     !.images = IF TakesIndex(b)
                THEN Append(@, [data |-> data, mime |-> b.mime,
                                block |-> p.block, index |-> p.index])
                ELSE @]

Skipped(p) == [p EXCEPT !.block = @ + 1]

(* A call without a block behind the loop holds nothing. *)
LEMMA NothingIsKept ==
  ASSUME NEW c \in Calls, c.kind = "prompt"
  PROVE  Kept(c, [block |-> 1, charged |-> 0, handoffs |-> 0, index |-> 0, images |-> <<>>])
<1> DEFINE p == [block |-> 1, charged |-> 0, handoffs |-> 0, index |-> 0, images |-> <<>>]
<1>1. Len(c.blocks) \in Nat /\ TotalStated(c.blocks)[0] = 0 /\ c.options.limits.prompt \in Nat
  BY PromptCall, StatedTotals
<1>2. Locals(c, p)
  <2>1. 1 \in 1 .. Len(c.blocks) + 1 /\ 0 \in 0 .. MaxHandoffs
    BY <1>1, MediaAssumption
  <2>2. <<>> \in Seq(Taken(c)) /\ Len(<<>>) = 0
    BY EmptySeq
  <2> QED  BY <2>1, <2>2 DEF Locals
<1>3. Charged(c, p)
  BY <1>1 DEF Charged
<1>4. PassedFit(c, p) /\ NoneIsLost(c, p)
  BY DEF PassedFit, NoneIsLost
<1>5. ImagesInOrder(c, p)
  BY DEF ImagesInOrder
<1> QED  BY <1>2, <1>3, <1>4, <1>5 DEF Kept

(* Text and links pass by: they state nothing and take no index.           *)
LEMMA SkippedIsKept ==
  ASSUME NEW c \in Calls, c.kind = "prompt", NEW p, Kept(c, p),
         p.block \in DOMAIN c.blocks, ~IsMedia(c.blocks[p.block])
  PROVE  Kept(c, Skipped(p))
<1> DEFINE b == c.blocks[p.block]
           q == Skipped(p)
           n == Len(c.blocks)
           t == TotalStated(c.blocks)
<1>1. /\ n \in Nat /\ DOMAIN c.blocks = 1 .. n /\ c.options.limits.prompt \in Nat
      /\ \A i \in 1 .. n : t[i] = t[i - 1] + Stated(c.blocks[i])
  BY PromptCall, StatedTotals
<1>2. ~TakesIndex(b) /\ ~NativeImage(b) /\ Stated(b) = 0
  <2>1. ~IsMedia(b)
    OBVIOUS
  <2> HIDE DEF b
  <2>2. ~TakesIndex(b)
    BY <2>1 DEF TakesIndex
  <2>3. ~NativeImage(b)
    BY <2>1 DEF IsMedia, NativeImage
  <2>4. Stated(b) = 0
    BY <2>1 DEF Stated, HandoffForm, IsMedia
  <2> QED  BY <2>2, <2>3, <2>4
<1>3. /\ p.block \in 1 .. n /\ p.charged \in Nat
      /\ p \in [block : 1 .. n + 1, charged : Nat, handoffs : 0 .. MaxHandoffs,
                index : Nat, images : Seq(Taken(c))]
  BY <1>1 DEF Kept, Locals
<1>4. /\ q.block = p.block + 1 /\ q.charged = p.charged /\ q.handoffs = p.handoffs
      /\ q.index = p.index /\ q.images = p.images
      /\ q \in [block : 1 .. n + 1, charged : Nat, handoffs : 0 .. MaxHandoffs,
                index : Nat, images : Seq(Taken(c))]
  <2>1. p.block + 1 \in 1 .. n + 1
    BY <1>1, <1>3
  <2> HIDE DEF n
  <2> QED  BY <1>3, <2>1 DEF Skipped
<1> HIDE DEF q, t, n
<1>5. Locals(c, q)
  BY <1>4 DEF Kept, Locals, n
<1>6. Charged(c, q)
  <2>1. t[p.block] = t[p.block - 1] + 0 /\ p.charged = t[p.block - 1]
    BY <1>1, <1>2, <1>3 DEF Kept, Charged, t
  <2>2. q.block - 1 = p.block
    BY <1>3, <1>4
  <2> QED  BY <1>3, <1>4, <2>1, <2>2 DEF Kept, Charged, t
<1>7. \A i \in 1 .. q.block - 1 : i \in 1 .. p.block - 1 \/ i = p.block
  BY <1>3, <1>4
<1>8. PassedFit(c, q)
  BY <1>2, <1>7 DEF Kept, PassedFit, Fits
<1>9. NoneIsLost(c, q)
  BY <1>2, <1>4, <1>7 DEF Kept, NoneIsLost
<1>10. ImagesInOrder(c, q)
  <2>1. \A k \in DOMAIN c.blocks : k < p.block => k < q.block
    BY <1>1, <1>3, <1>4
  <2>2. \A i \in DOMAIN p.images : p.images[i].block \in DOMAIN c.blocks
    <3>1. \A i \in DOMAIN p.images : p.images[i] \in Taken(c)
      BY <1>3, ElementOfSeq, LenProperties
    <3> QED  BY <3>1 DEF Taken
  <2> QED  BY <1>4, <2>1, <2>2 DEF Kept, ImagesInOrder
<1> QED  BY <1>5, <1>6, <1>8, <1>9, <1>10 DEF Kept, q

(* A block that passes its gates is charged as it stated and, when it      *)
(* takes an index, appended as it was declared (ValidatePrompt's loop).    *)
LEMMA CountedIsKept ==
  ASSUME NEW c \in Calls, c.kind = "prompt", NEW p, Kept(c, p),
         p.block \in DOMAIN c.blocks, NEW b, b = c.blocks[p.block],
         Fits(c, b), NEW data \in Data, data.len = Stated(b),
         c.options.limits.prompt > 0 => p.charged + data.len <= c.options.limits.prompt,
         HandoffForm(b) => p.handoffs < MaxHandoffs,
         TakesIndex(b) => IsDeclared(b, data)
  PROVE  Kept(c, Counted(p, b, data))
<1> DEFINE q == Counted(p, b, data)
           n == Len(c.blocks)
           t == TotalStated(c.blocks)
           image == [data |-> data, mime |-> b.mime, block |-> p.block, index |-> p.index]
<1>1. /\ n \in Nat /\ DOMAIN c.blocks = 1 .. n /\ c.options.limits.prompt \in Nat
      /\ \A i \in 1 .. n : t[i] = t[i - 1] + Stated(c.blocks[i])
  BY PromptCall, StatedTotals
<1>2. /\ p.block \in 1 .. n /\ p.charged \in Nat /\ data.len \in Nat
      /\ p.images \in Seq(Taken(c)) /\ p.index = Len(p.images) /\ p.index \in Nat
      /\ p.handoffs \in 0 .. MaxHandoffs /\ MaxHandoffs \in Nat
      /\ p \in [block : 1 .. n + 1, charged : Nat, handoffs : 0 .. MaxHandoffs,
                index : Nat, images : Seq(Taken(c))]
  BY <1>1, MediaAssumption DEF Kept, Locals, Data
<1> HIDE DEF t, n
<1>3. image \in Taken(c)
  BY <1>2 DEF Taken, n
<1> DEFINE images == IF TakesIndex(b) THEN Append(p.images, image) ELSE p.images
           index == IF TakesIndex(b) THEN p.index + 1 ELSE p.index
           handoffs == IF HandoffForm(b) THEN p.handoffs + 1 ELSE p.handoffs
<1>4. q = [p EXCEPT !.block = @ + 1, !.charged = @ + data.len, !.handoffs = handoffs,
                    !.index = index, !.images = images]
  BY <1>2 DEF Counted
<1>5. Append(p.images, image) \in Seq(Taken(c)) /\ Len(Append(p.images, image)) = p.index + 1
  BY <1>2, <1>3, AppendProperties
<1>6. images \in Seq(Taken(c)) /\ Len(images) = index /\ index \in Nat
  BY <1>2, <1>5
<1>7. handoffs \in 0 .. MaxHandoffs
  BY <1>2
<1>8. /\ \A i \in 1 .. p.index : images[i] = p.images[i]
      /\ TakesIndex(b) => images[p.index + 1] = image
      /\ DOMAIN images = 1 .. index /\ DOMAIN p.images = 1 .. p.index
  BY <1>2, <1>3, <1>5, <1>6, AppendProperties, LenProperties
<1> HIDE DEF q, images, image, handoffs
<1>9. /\ q.block = p.block + 1 /\ q.charged = p.charged + data.len
      /\ q.index = index /\ q.images = images
      /\ q \in [block : 1 .. n + 1, charged : Nat, handoffs : 0 .. MaxHandoffs,
                index : Nat, images : Seq(Taken(c))]
  <2>1. p.block + 1 \in 1 .. n + 1 /\ p.charged + data.len \in Nat
    BY <1>1, <1>2
  <2> HIDE DEF index
  <2> QED  BY <1>2, <1>4, <1>6, <1>7, <2>1
<1>10. Locals(c, q)
  BY <1>6, <1>9 DEF Locals, n
<1>11. Charged(c, q)
  <2>1. t[p.block] = p.charged + data.len
    BY <1>1, <1>2 DEF Kept, Charged, t
  <2>2. q.block - 1 = p.block
    BY <1>2, <1>9
  <2> QED  BY <1>9, <2>1, <2>2 DEF Charged, t
<1>12. \A i \in 1 .. q.block - 1 : i \in 1 .. p.block - 1 \/ i = p.block
  BY <1>2, <1>9
<1>13. PassedFit(c, q)
  BY <1>12 DEF Kept, PassedFit
<1>14. NoneIsLost(c, q)
  <2> SUFFICES ASSUME NEW j \in 1 .. q.block - 1, TakesIndex(c.blocks[j])
               PROVE  \E i \in DOMAIN images : images[i].block = j
    BY <1>9 DEF NoneIsLost
  <2>1. CASE j \in 1 .. p.block - 1
    <3>1. PICK i \in DOMAIN p.images : p.images[i].block = j
      BY <2>1 DEF Kept, NoneIsLost
    <3>2. i \in DOMAIN images /\ images[i] = p.images[i]
      BY <1>2, <1>8, <3>1
    <3> QED  BY <3>1, <3>2
  <2>2. CASE j = p.block
    <3>1. p.index + 1 \in DOMAIN images /\ images[p.index + 1] = image
      BY <1>2, <1>8, <2>2
    <3> QED  BY <2>2, <3>1 DEF image
  <2> QED  BY <1>12, <2>1, <2>2
<1>15. ImagesInOrder(c, q)
  <2> SUFFICES ASSUME NEW i \in DOMAIN images
               PROVE  /\ images[i].block < q.block /\ TakesIndex(c.blocks[images[i].block])
                      /\ images[i].index = i - 1
                      /\ i > 1 => images[i - 1].block < images[i].block
                      /\ IsDeclared(c.blocks[images[i].block], images[i].data)
    BY <1>9 DEF ImagesInOrder
  <2>1. \A k \in DOMAIN p.images : p.images[k].block \in 1 .. n
    <3>1. \A k \in DOMAIN p.images : p.images[k] \in Taken(c)
      BY <1>2, ElementOfSeq, LenProperties
    <3> QED  BY <1>1, <3>1 DEF Taken
  <2>2. CASE i \in DOMAIN p.images
    <3>1. i \in Nat /\ i > 1 => i - 1 \in 1 .. p.index
      BY <1>2, <1>8, <2>2
    <3>2. images[i] = p.images[i] /\ (i > 1 => images[i - 1] = p.images[i - 1])
      BY <1>8, <2>2, <3>1
    <3>3. p.images[i].block < p.block /\ p.images[i].block \in 1 .. n
      BY <2>1, <2>2 DEF Kept, ImagesInOrder
    <3>4. p.images[i].block < q.block
      <4>1. q.block = p.block + 1
        BY <1>9
      <4>2. p.block \in Int /\ p.images[i].block \in Int
        BY <1>1, <1>2, <3>3
      <4> QED  BY <3>3, <4>1, <4>2
    <3> QED  BY <2>2, <3>2, <3>4 DEF Kept, ImagesInOrder
  <2>3. CASE i \notin DOMAIN p.images
    <3>1. i = p.index + 1 /\ TakesIndex(b) /\ images[i] = image
      BY <1>2, <1>8, <2>3
    <3>2. /\ images[i].block = p.block /\ images[i].index = i - 1 /\ images[i].data = data
          /\ p.block < q.block
      BY <1>2, <1>9, <3>1 DEF image
    <3>3. i > 1 => images[i - 1].block < images[i].block
      <4> SUFFICES ASSUME i > 1 PROVE images[i - 1].block < images[i].block
        OBVIOUS
      <4>1. i - 1 \in DOMAIN p.images /\ images[i - 1] = p.images[i - 1]
        BY <1>2, <1>8, <3>1
      <4> QED  BY <3>2, <4>1 DEF Kept, ImagesInOrder
    <3> QED  BY <3>1, <3>2, <3>3
  <2> QED  BY <2>2, <2>3
<1> QED  BY <1>10, <1>11, <1>13, <1>14, <1>15 DEF Kept, q

-----------------------------------------------------------------------------
(* ValidatePrompt's gates *)

(* The sniffed raster of data that passed is a still image of the declared *)
(* format; no defect of a raster is its size (checkRaster).                *)
LEMMA RasterDeclared ==
  ASSUME NEW data \in Bytes, NEW mime
  PROVE  /\ RasterDefect(data, mime) # "too_large"
         /\ RasterDefect(data, mime) = None =>
              data.format = mime /\ mime \in Formats /\ data.defect = None
<1>1. \A verdict \in Verdicts : verdict # None
  BY NamesAssumption
<1>2. data.defect \in {"animated", "unsized", None}
  BY MediaAssumption
<1> QED  BY <1>1, <1>2, NamesAssumption DEF RasterDefect, Verdicts

(* A limit that is exceeded was exceeded by what the request stated, and   *)
(* what exceeds none fits (perImage and the prompt's total).               *)
LEMMA SizeGate ==
  ASSUME NEW b, NEW len \in Nat, call \in Calls, call.kind = "prompt",
         Kept(call, progress), progress.block \in DOMAIN call.blocks,
         b = call.blocks[progress.block], IsMedia(b), len = Stated(b)
  PROVE  /\ SizeDefect(b, len) = None =>
              /\ TakesIndex(b) => Stated(b) <= Cap(call)
              /\ call.options.limits.prompt > 0 =>
                   progress.charged + len <= call.options.limits.prompt
         /\ SizeDefect(b, len) # None =>
              SizeDefect(b, len) = "too_large" /\ IsTooLarge(call, progress)
<1> DEFINE bound == call.options.limits.prompt
           charged == progress.charged
           t == TotalStated(call.blocks)
<1>1. /\ Cap(call) \in Nat /\ bound \in Nat /\ MaxImageBytes = Cap(call)
      /\ options.limits.prompt = bound
  BY PromptCall DEF MaxImageBytes, Cap, options
<1>2. charged \in Nat /\ t[progress.block] = charged + len
  <2>1. t[progress.block] = t[progress.block - 1] + Stated(b)
    BY PromptCall, StatedTotals
  <2> QED  BY <2>1 DEF Kept, Charged, Locals
<1> HIDE DEF bound, charged, t
<1>3. TakesIndex(b) <=> b.kind # "textResource"
  BY DEF TakesIndex
<1>4. "too_large" # None
  BY NamesAssumption DEF Verdicts
<1> DEFINE over == \/ TakesIndex(b) /\ len > Cap(call)
                   \/ bound > 0 /\ charged + len > bound
<1>5. SizeDefect(b, len) = IF over THEN "too_large" ELSE None
  BY <1>1, <1>3, Zenon DEF SizeDefect, charged
<1>6. over => IsTooLarge(call, progress)
  BY <1>2, Zenon DEF IsTooLarge, bound, t
<1>7. ~over => /\ TakesIndex(b) => Stated(b) <= Cap(call)
               /\ bound > 0 => charged + len <= bound
  BY <1>1, <1>2
<1> HIDE DEF over
<1> QED  BY <1>4, <1>5, <1>6, <1>7 DEF bound, charged

(* Data that a block carries is charged in full. *)
LEMMA CarriedIsStated ==
  ASSUME NEW c \in Calls, c.kind = "prompt", NEW i \in DOMAIN c.blocks,
         NEW b, b = c.blocks[i], IsMedia(b), ~HandoffForm(b), EmbeddedDefect(b) = None
  PROVE  /\ b.data \in Bytes \cup {None} /\ Size(b.data) = Stated(b)
         /\ [of |-> b.data, len |-> Size(b.data)] \in Data
         /\ IsDeclared(b, [of |-> b.data, len |-> Size(b.data)])
         /\ NativeImage(b) => b.mime \in Formats
<1>1. b.data \in Bytes \cup {None, Undecodable} /\ b.kind \in Kinds
      /\ (b.kind = "textResource" => b.data \in Bytes)
  BY PromptCall DEF BlocksOf
<1>2. b.kind \in {"image", "imageBlob", "blob", "textResource"}
  BY <1>1 DEF IsMedia, Kinds
<1>3. "invalid_base64" # None /\ "missing_data" # None /\ "invalid_media_type" # None
  BY NamesAssumption DEF Verdicts
<1>4. b.data # Undecodable
  BY <1>1, <1>2, <1>3, NamesAssumption DEF EmbeddedDefect
<1>5. b.data \in Bytes \cup {None} /\ Size(b.data) = Stated(b)
  BY <1>1, <1>4 DEF Stated
<1>6. Size(b.data) \in Nat
  BY <1>5, MediaAssumption DEF Size
<1>7. [of |-> b.data, len |-> Size(b.data)] \in Data
  BY <1>5, <1>6 DEF Data
<1>8. NativeImage(b) => /\ b.data \in Bytes /\ b.mime \in Formats
                        /\ b.data.format = b.mime /\ b.data.defect = None
  <2> SUFFICES ASSUME NativeImage(b)
               PROVE  b.data \in Bytes /\ b.data.format = b.mime /\ b.mime \in Formats
                      /\ b.data.defect = None
    OBVIOUS
  <2>1. b.data # None /\ RasterDefect(b.data, b.mime) = None
    BY <1>3 DEF NativeImage, EmbeddedDefect
  <2> QED  BY <1>5, <2>1, RasterDeclared
<1>9. IsDeclared(b, [of |-> b.data, len |-> Size(b.data)])
  BY <1>8 DEF IsDeclared
<1> QED  BY <1>5, <1>7, <1>8, <1>9

(* A block without a defect is counted, or its file is awaited; one that   *)
(* is too large broke a bound by what it states (ValidatePrompt's loop,    *)
(* up to the opening of a handoff).                                        *)
LEMMA BlockGate ==
  ASSUME NEW b, call \in Calls, call.kind = "prompt",
         Kept(call, progress), progress.block \in DOMAIN call.blocks,
         b = call.blocks[progress.block], IsMedia(b)
  PROVE  /\ Defect(b) = "too_large" => IsTooLarge(call, progress)
         /\ Defect(b) = None /\ HandoffForm(b) => Awaited(call, progress)
         /\ Defect(b) = None /\ ~HandoffForm(b) =>
              Kept(call, Counted(progress, b, [of |-> b.data, len |-> Size(b.data)]))
<1>1. \A verdict \in Verdicts : verdict # None
  BY NamesAssumption
<1>2. /\ "unsupported" # None /\ "too_large" # None /\ "invalid_handoff" # None
      /\ "invalid_media_type" # None
  BY <1>1 DEF Verdicts
<1>3. progress.handoffs \in 0 .. MaxHandoffs /\ MaxHandoffs \in Nat
  BY MediaAssumption DEF Kept, Locals
<1>4. Cap(call) \in Nat /\ MaxImageBytes = Cap(call)
  BY PromptCall DEF MaxImageBytes, Cap, options
<1>5. CASE b.kind = "blob" /\ options.blobs = "refuse"
  <2>1. Defect(b) = "unsupported"
    BY <1>5 DEF Defect
  <2> QED  BY <1>2, <2>1
<1>6. CASE ~(b.kind = "blob" /\ options.blobs = "refuse") /\ TooManyHandoffs(b)
  <2>1. Defect(b) = "too_large"
    BY <1>6 DEF Defect
  <2>2. IsTooLarge(call, progress)
    BY <1>3, <1>6 DEF IsTooLarge, TooManyHandoffs
  <2> QED  BY <1>2, <2>1, <2>2
<1>7. CASE ~TooManyHandoffs(b) /\ HandoffForm(b)
  <2>1. Defect(b) = HandoffDefect(b)
    BY <1>7 DEF Defect, HandoffForm
  <2>2. HandoffDefect(b) = "too_large" => IsTooLarge(call, progress)
    <3> SUFFICES ASSUME HandoffDefect(b) = "too_large" PROVE IsTooLarge(call, progress)
      OBVIOUS
    <3>1. WellFormed(b.envelope) /\ b.envelope.sizeBytes > MaxImageBytes
      BY <1>2 DEF HandoffDefect
    <3>2. Stated(b) = b.envelope.sizeBytes /\ TakesIndex(b)
      BY <1>7, <3>1 DEF Stated, TakesIndex, HandoffForm
    <3> QED  BY <1>4, <3>1, <3>2 DEF IsTooLarge
  <2>3. HandoffDefect(b) = None => Awaited(call, progress)
    <3> SUFFICES ASSUME HandoffDefect(b) = None PROVE Awaited(call, progress)
      OBVIOUS
    <3>1. /\ options.root # None /\ WellFormed(b.envelope) /\ NamesLocalPath(b)
          /\ b.mime \in Formats /\ ~(b.envelope.sizeBytes > MaxImageBytes)
      BY <1>2 DEF HandoffDefect
    <3>2. progress.handoffs < MaxHandoffs
      BY <1>3, <1>7, <3>1 DEF TooManyHandoffs
    <3>3. b.envelope.sizeBytes \in Nat
      BY <3>1 DEF WellFormed
    <3>4. b.envelope.sizeBytes <= Cap(call)
      BY <1>4, <3>1, <3>3
    <3> QED  BY <1>7, <3>1, <3>2, <3>4 DEF Awaited
  <2> QED  BY <1>7, <2>1, <2>2, <2>3
<1>8. CASE /\ ~(b.kind = "blob" /\ options.blobs = "refuse")
           /\ ~TooManyHandoffs(b) /\ ~HandoffForm(b)
  <2>1. CASE EmbeddedDefect(b) # None
    <3>1. Defect(b) = EmbeddedDefect(b)
      BY <1>8, <2>1 DEF Defect
    <3>2. EmbeddedDefect(b) # "too_large"
      <4>1. b.data \in Bytes \cup {None, Undecodable}
        BY PromptCall DEF BlocksOf
      <4>2. b.data \in Bytes => RasterDefect(b.data, b.mime) # "too_large"
        BY RasterDeclared
      <4> QED  BY <1>2, <2>1, <4>1, <4>2 DEF EmbeddedDefect
    <3> QED  BY <1>8, <2>1, <3>1, <3>2
  <2>2. CASE EmbeddedDefect(b) = None
    <3> DEFINE data == [of |-> b.data, len |-> Size(b.data)]
    <3>1. Defect(b) = SizeDefect(b, Size(b.data))
      BY <1>8, <2>2 DEF Defect
    <3>2. data \in Data /\ data.len = Size(b.data) /\ data.len \in Nat /\ data.len = Stated(b)
          /\ IsDeclared(b, data) /\ (NativeImage(b) => b.mime \in Formats)
      BY <1>8, <2>2, CarriedIsStated DEF Data
    <3> HIDE DEF data
    <3>3. SizeDefect(b, data.len) # None =>
            SizeDefect(b, data.len) = "too_large" /\ IsTooLarge(call, progress)
      BY <3>2, SizeGate
    <3>4. SizeDefect(b, data.len) = None =>
            /\ TakesIndex(b) => Stated(b) <= Cap(call)
            /\ call.options.limits.prompt > 0 =>
                 progress.charged + data.len <= call.options.limits.prompt
      BY <3>2, SizeGate
    <3>5. SizeDefect(b, data.len) = None => Kept(call, Counted(progress, b, data))
      BY <1>8, <3>2, <3>4, CountedIsKept DEF Fits
    <3> QED  BY <1>2, <1>8, <3>1, <3>2, <3>3, <3>5 DEF data
  <2> QED  BY <2>1, <2>2
<1> QED  BY <1>5, <1>6, <1>7, <1>8

(* What was read of a handoff is counted when it matches its envelope and  *)
(* every gate lets it pass; a bound that it breaks, it broke as stated     *)
(* (readHandoff, and what follows it in the loop).                         *)
LEMMA ReadGate ==
  ASSUME NEW b, call \in Calls, call.kind = "prompt",
         Kept(call, progress), Awaited(call, progress),
         b = call.blocks[progress.block],
         NEW data \in [of : Bytes, len : Nat]
  PROVE  /\ ReadHandoffDefect(b, data) = "too_large" => IsTooLarge(call, progress)
         /\ ReadHandoffDefect(b, data) = None => Kept(call, Counted(progress, b, data))
<1>1. /\ progress.block \in DOMAIN call.blocks /\ HandoffForm(b) /\ WellFormed(b.envelope)
      /\ b.mime \in Formats /\ b.envelope.sizeBytes <= Cap(call)
      /\ progress.handoffs < MaxHandoffs
  BY DEF Awaited
<1>2. IsMedia(b) /\ TakesIndex(b) /\ Stated(b) = b.envelope.sizeBytes
  BY <1>1 DEF HandoffForm, IsMedia, TakesIndex, Stated
<1>3. data.of \in Bytes /\ data.len \in Nat /\ data \in Data
  BY DEF Data
<1>4. "handoff_digest_mismatch" # None
  BY NamesAssumption DEF Verdicts
<1>5. RasterDefect(data.of, b.mime) # "too_large"
  BY <1>3, RasterDeclared
<1>6. CASE ~HandoffBytesMatch(data, b.envelope)
  BY <1>4, <1>6 DEF ReadHandoffDefect
<1>7. CASE HandoffBytesMatch(data, b.envelope) /\ RasterDefect(data.of, b.mime) # None
  BY <1>5, <1>7 DEF ReadHandoffDefect
<1>8. CASE HandoffBytesMatch(data, b.envelope) /\ RasterDefect(data.of, b.mime) = None
  <2>1. ReadHandoffDefect(b, data) = SizeDefect(b, data.len)
    BY <1>8 DEF ReadHandoffDefect
  <2>2. data.len = Stated(b) /\ data.len = data.of.size /\ data.of.id = b.envelope.digest
    BY <1>2, <1>8 DEF HandoffBytesMatch
  <2>3. SizeDefect(b, data.len) # None => IsTooLarge(call, progress)
    BY <1>1, <1>2, <1>3, <2>2, SizeGate
  <2>4. SizeDefect(b, data.len) = None =>
          /\ Stated(b) <= Cap(call)
          /\ call.options.limits.prompt > 0 =>
               progress.charged + data.len <= call.options.limits.prompt
    BY <1>1, <1>2, <1>3, <2>2, SizeGate
  <2>5. IsDeclared(b, data)
    <3>1. data.of.format = b.mime /\ data.of.defect = None
      BY <1>3, <1>8, RasterDeclared
    <3>2. data.len = Size(data.of)
      BY <1>3, <2>2, NamesAssumption DEF Size
    <3> QED  BY <1>1, <2>2, <3>1, <3>2 DEF IsDeclared
  <2>6. SizeDefect(b, data.len) = None => Kept(call, Counted(progress, b, data))
    BY <1>1, <1>2, <1>3, <2>2, <2>4, <2>5, CountedIsKept DEF Fits
  <2>7. "too_large" # None
    BY NamesAssumption DEF Verdicts
  <2> QED  BY <2>1, <2>3, <2>6, <2>7
<1> QED  BY <1>6, <1>7, <1>8

-----------------------------------------------------------------------------
(* The steps *)

(* A verdict is none of the names for nothing. *)
LEMMA VerdictsAreNamed == \A verdict \in Verdicts : verdict # None
BY NamesAssumption

(* What refuses a block is a refusal. *)
LEMMA DefectIsRefusal ==
  ASSUME NEW b, b.data \in Bytes \cup {None, Undecodable}
  PROVE  Defect(b) \notin {"admitted", "emitted"}
<1>1. None \notin {"admitted", "emitted"}
  BY NamesAssumption DEF Verdicts
<1>2. \A data \in Bytes : RasterDefect(data, b.mime) \notin {"admitted", "emitted"}
  BY <1>1 DEF RasterDefect
<1>3. HandoffDefect(b) \notin {"admitted", "emitted"}
  BY <1>1 DEF HandoffDefect
<1>4. EmbeddedDefect(b) \notin {"admitted", "emitted"}
  BY <1>1, <1>2 DEF EmbeddedDefect
<1>5. SizeDefect(b, Size(b.data)) \notin {"admitted", "emitted"}
  BY <1>1 DEF SizeDefect
<1> QED  BY <1>3, <1>4, <1>5 DEF Defect

(* The invariant reads the call and the state that an answer concludes.    *)
LEMMA InitMedia == Init => MediaInv
<1> SUFFICES ASSUME Init PROVE MediaInv
  OBVIOUS
<1>1. call \in Calls /\ answer = None /\ FilesTyped
  BY CallsAssumption DEF Init, FilesTyped
<1>2. VerdictOf(answer) # "admitted" /\ VerdictOf(answer) # "emitted"
      /\ VerdictOf(answer) # "too_large"
  BY <1>1, VerdictsAreNamed DEF VerdictOf, Verdicts
<1>3. ASSUME call.kind = "prompt" PROVE AtPrompt /\ PromptInv(call, progress, answer)
  <2>1. at = "block"
    BY <1>3 DEF Init
  <2>2. Kept(call, progress)
    BY <1>1, <1>3, NothingIsKept DEF Init
  <2> QED  BY <1>2, <2>1, <2>2 DEF AtPrompt, PromptInv
<1>4. ASSUME call.kind = "file" PROVE AtFile /\ FileInv(call, standing, answer)
  <2>1. at = "resolve"
    BY <1>4 DEF Init
  <2> QED  BY <1>2, <2>1 DEF AtFile, FileInv
<1>5. ASSUME call.kind = "inline" PROVE AtInline /\ InlineInv(call, answer)
  <2>1. at = "decode"
    BY <1>5 DEF Init
  <2> QED  BY <1>2, <2>1 DEF AtInline, InlineInv
<1> QED  BY <1>1, <1>3, <1>4, <1>5 DEF MediaInv

LEMMA ChangesMedia ==
  MediaInv /\ (NameChanges \/ FileIsWritten \/ ContextEnds \/ UNCHANGED vars) => MediaInv'
<1> SUFFICES ASSUME MediaInv, NameChanges \/ FileIsWritten \/ ContextEnds \/ UNCHANGED vars
             PROVE  MediaInv'
  OBVIOUS
<1>1. /\ call' = call /\ standing' = standing /\ at' = at /\ progress' = progress
      /\ file' = file /\ answer' = answer
  BY DEF NameChanges, FileIsWritten, ContextEnds, vars, files
<1>2. FilesTyped'
  <2>1. FilesTyped
    BY DEF MediaInv
  <2>2. CASE NameChanges
    <3>1. PICK p \in Path, entry \in Node \cup {None} \cup Link :
            disk' = [disk EXCEPT ![p] = entry]
      BY <2>2 DEF NameChanges
    <3>2. content' = content
      BY <2>2 DEF NameChanges
    <3> QED  BY <1>1, <2>1, <3>1, <3>2 DEF FilesTyped
  <2>3. CASE FileIsWritten
    <3>1. PICK n \in Node \ Irregular, b \in Bytes :
            content' = [content EXCEPT ![n] = b]
      BY <2>3 DEF FileIsWritten
    <3>2. disk' = disk
      BY <2>3 DEF FileIsWritten
    <3> QED  BY <1>1, <2>1, <3>1, <3>2 DEF FilesTyped
  <2>4. CASE ContextEnds \/ UNCHANGED vars
    BY <1>1, <2>1, <2>4 DEF ContextEnds, vars, files, FilesTyped
  <2> QED  BY <2>2, <2>3, <2>4
<1>3. AtPrompt' = AtPrompt /\ AtFile' = AtFile /\ AtInline' = AtInline
  BY <1>1 DEF AtPrompt, AtFile, AtInline
<1> QED  BY <1>1, <1>2, <1>3 DEF MediaInv

(* A refusal, by any code but those whose meaning is a claim.              *)
LEMMA RefusedPrompt ==
  ASSUME MediaInv, call.kind = "prompt", UNCHANGED <<call, files, progress>>,
         at' = "done",
         VerdictOf(answer') \notin {"admitted", "emitted"},
         VerdictOf(answer') = "too_large" => IsTooLarge(call, progress)
  PROVE  MediaInv'
<1>1. /\ call' = call /\ progress' = progress
      /\ standing' = standing /\ disk' = disk /\ content' = content
  BY DEF files
<1>2. FilesTyped'
  BY <1>1 DEF MediaInv, FilesTyped
<1>3. AtPrompt'
  BY DEF AtPrompt
<1>4. PromptInv(call, progress, answer')
  BY DEF PromptInv, MediaInv
<1> QED  BY <1>1, <1>2, <1>3, <1>4 DEF MediaInv

(* A block is passed, and the next one is looked at. *)
LEMMA PassedPrompt ==
  ASSUME MediaInv, call.kind = "prompt", at # "done", UNCHANGED <<call, files, answer>>,
         at' = "block", Kept(call, progress)'
  PROVE  MediaInv'
<1>1. /\ call' = call /\ answer' = answer /\ answer = None
      /\ standing' = standing /\ disk' = disk /\ content' = content
  BY DEF files, MediaInv
<1>2. FilesTyped'
  BY <1>1 DEF MediaInv, FilesTyped
<1>3. AtPrompt'
  BY DEF AtPrompt
<1>4. VerdictOf(answer') \notin {"admitted", "emitted", "too_large"}
  BY <1>1, VerdictsAreNamed DEF VerdictOf, Verdicts
<1>5. PromptInv(call', progress', answer')
  BY <1>4 DEF PromptInv
<1> QED  BY <1>1, <1>2, <1>3, <1>5 DEF MediaInv

(* A handoff is opened or read next. *)
LEMMA AwaitedPrompt ==
  ASSUME MediaInv, call.kind = "prompt", at # "done",
         UNCHANGED <<call, files, progress, answer>>,
         at' \in {"open", "read"}, Awaited(call, progress),
         at' = "read" => file' \in Descriptor
  PROVE  MediaInv'
<1>1. /\ call' = call /\ answer' = answer /\ progress' = progress /\ answer = None
      /\ standing' = standing /\ disk' = disk /\ content' = content
  BY DEF files, MediaInv
<1>2. FilesTyped'
  BY <1>1 DEF MediaInv, FilesTyped
<1>3. AtPrompt'
  BY <1>1 DEF AtPrompt
<1> QED  BY <1>1, <1>2, <1>3 DEF MediaInv

LEMMA ContextStopsItMedia == MediaInv /\ ContextStopsIt => MediaInv'
<1> SUFFICES ASSUME MediaInv, ContextStopsIt PROVE MediaInv'
  OBVIOUS
<1>1. /\ UNCHANGED <<call, files, progress>> /\ at' = "done"
      /\ answer' = [verdict |-> "aborted"]
  BY DEF ContextStopsIt, Answers
<1>2. call.kind = "prompt"
  <2>1. call.kind \in {"prompt", "file", "inline"}
    BY CallsAssumption DEF MediaInv
  <2> QED  BY <2>1 DEF ContextStopsIt, AtBlock, MediaInv, AtFile, AtInline
<1>3. VerdictOf(answer') \notin {"admitted", "emitted", "too_large"}
  BY <1>1, VerdictsAreNamed DEF VerdictOf, Verdicts
<1> QED  BY <1>1, <1>2, <1>3, RefusedPrompt

(* Only ValidatePrompt looks at blocks. *)
LEMMA BlocksArePrompts ==
  ASSUME MediaInv, at = "block"
  PROVE  /\ call.kind = "prompt" /\ call \in Calls /\ Kept(call, progress)
         /\ DOMAIN call.blocks = 1 .. Len(call.blocks) /\ Len(call.blocks) \in Nat
         /\ progress.block \in 1 .. Len(call.blocks) + 1
<1>1. call.kind \in {"prompt", "file", "inline"} /\ call \in Calls
  BY CallsAssumption DEF MediaInv
<1>2. call.kind = "prompt" /\ Kept(call, progress)
  BY <1>1 DEF MediaInv, AtFile, AtInline, PromptInv
<1>3. DOMAIN call.blocks = 1 .. Len(call.blocks) /\ Len(call.blocks) \in Nat
  BY <1>1, <1>2, PromptCall
<1> QED  BY <1>1, <1>2, <1>3 DEF Kept, Locals

LEMMA SkipsBlockMedia == MediaInv /\ SkipsBlock => MediaInv'
<1> SUFFICES ASSUME MediaInv, SkipsBlock PROVE MediaInv'
  OBVIOUS
<1>1. /\ UNCHANGED <<call, files, answer>> /\ at = "block" /\ at' = "block"
      /\ progress.block <= Len(call.blocks) /\ ~IsMedia(call.blocks[progress.block])
      /\ progress' = Skipped(progress)
  BY DEF SkipsBlock, AtBlock, Block, Skipped
<1>2. progress.block \in DOMAIN call.blocks
  BY <1>1, BlocksArePrompts
<1>3. Kept(call, Skipped(progress))
  BY <1>1, <1>2, BlocksArePrompts, SkippedIsKept
<1>4. Kept(call, progress)'
  BY <1>1, <1>3
<1> QED  BY <1>1, <1>4, BlocksArePrompts, PassedPrompt

LEMMA ChecksBlockMedia == MediaInv /\ ChecksBlock => MediaInv'
<1> SUFFICES ASSUME MediaInv, ChecksBlock PROVE MediaInv'
  OBVIOUS
<1>1. /\ UNCHANGED <<call, files>> /\ at = "block"
      /\ progress.block <= Len(call.blocks) /\ IsMedia(Block)
      /\ Block = call.blocks[progress.block]
  BY DEF ChecksBlock, AtBlock, Block
<1>2. progress.block \in DOMAIN call.blocks
  BY <1>1, BlocksArePrompts
<1>3. call.kind = "prompt" /\ call \in Calls /\ Kept(call, progress)
  BY <1>1, BlocksArePrompts
<1>4. /\ Defect(Block) = "too_large" => IsTooLarge(call, progress)
      /\ Defect(Block) = None /\ HandoffForm(Block) => Awaited(call, progress)
      /\ Defect(Block) = None /\ ~HandoffForm(Block) =>
           Kept(call, Counted(progress, Block, [of |-> Block.data, len |-> Size(Block.data)]))
  BY <1>1, <1>2, <1>3, BlockGate
<1>5. CASE Defect(Block) # None /\ Refuses(Block, Defect(Block))
  <2>1. UNCHANGED progress /\ at' = "done" /\ VerdictOf(answer') \in {Defect(Block), None}
    BY <1>5 DEF Refuses, Answers, VerdictOf
  <2>2. Defect(Block) \notin {"admitted", "emitted"}
    <3>1. Block.data \in Bytes \cup {None, Undecodable}
      BY <1>1, <1>2, <1>3, PromptCall DEF BlocksOf
    <3> QED  BY <3>1, DefectIsRefusal
  <2>3. None \notin {"admitted", "emitted", "too_large"}
    BY VerdictsAreNamed DEF Verdicts
  <2> QED  BY <1>1, <1>3, <1>4, <2>1, <2>2, <2>3, RefusedPrompt
<1>6. CASE Defect(Block) = None /\ HandoffForm(Block)
  <2>1. at' = "open" /\ UNCHANGED <<progress, file, answer>>
    BY <1>6 DEF ChecksBlock
  <2> QED  BY <1>1, <1>3, <1>4, <1>6, <2>1, AwaitedPrompt
<1>7. CASE Defect(Block) = None /\ ~HandoffForm(Block)
  <2> DEFINE data == [of |-> Block.data, len |-> Size(Block.data)]
  <2>1. Passes(Block, data)
    BY <1>7 DEF ChecksBlock
  <2>2. at' = "block" /\ UNCHANGED answer /\ progress' = Counted(progress, Block, data)
    BY <2>1 DEF Passes, Counted, NextIndex
  <2>3. Kept(call', progress')
    BY <1>1, <1>4, <1>7, <2>2
  <2> QED  BY <1>1, <1>3, <2>2, <2>3, PassedPrompt
<1> QED  BY <1>5, <1>6, <1>7 DEF ChecksBlock

LEMMA EndsPromptMedia == MediaInv /\ EndsPrompt => MediaInv'
<1> SUFFICES ASSUME MediaInv, EndsPrompt PROVE MediaInv'
  OBVIOUS
<1>1. /\ UNCHANGED <<call, files, progress>> /\ at = "block" /\ at' = "done"
      /\ progress.block > Len(call.blocks)
      /\ \/ answer' = [verdict |-> "unsupported", index |-> -1]
         \/ answer' = [verdict |-> "admitted", images |-> progress.images]
  BY DEF EndsPrompt, Answers
<1>2. /\ call.kind = "prompt" /\ call \in Calls /\ Kept(call, progress)
      /\ progress.block = Len(call.blocks) + 1
  BY <1>1, BlocksArePrompts
<1>3. CASE answer' = [verdict |-> "unsupported", index |-> -1]
  <2>1. VerdictOf(answer') \notin {"admitted", "emitted", "too_large"}
    BY <1>3, VerdictsAreNamed DEF VerdictOf, Verdicts
  <2> QED  BY <1>1, <1>2, <2>1, RefusedPrompt
<1>4. CASE answer' = [verdict |-> "admitted", images |-> progress.images]
  <2>1. VerdictOf(answer') \notin {"emitted", "too_large"} /\ answer'.images = progress.images
    BY <1>4, VerdictsAreNamed DEF VerdictOf, Verdicts
  <2>2. /\ call' = call /\ progress' = progress
        /\ standing' = standing /\ disk' = disk /\ content' = content
    BY <1>1 DEF files
  <2>3. FilesTyped'
    BY <2>2 DEF MediaInv, FilesTyped
  <2>4. AtPrompt'
    BY <1>1 DEF AtPrompt
  <2>5. PromptInv(call', progress', answer')
    BY <1>2, <2>1, <2>2 DEF PromptInv
  <2> QED  BY <1>1, <1>2, <2>2, <2>3, <2>4, <2>5 DEF MediaInv
<1> QED  BY <1>1, <1>3, <1>4

-----------------------------------------------------------------------------
(* Opening and reading *)

(* A link leads to a path, and what is opened is a descriptor or a refusal.*)
LEMMA OpenedFile ==
  ASSUME FilesTyped, NEW r, NEW p \in Path
  PROVE  LET opened == Opened(r, p)
         IN  \/ opened \in Descriptor /\ r \in standing /\ opened.place \in Holds[r]
             \/ opened \notin Descriptor /\ opened.refusal \in {"path_not_allowed", "missing_file"}
<1> DEFINE q == Followed(p)
           opened == Opened(r, p)
<1>1. disk[p] \in Node \cup {None} \cup Link
  BY DEF FilesTyped
<1>2. q \in Path
  BY <1>1 DEF Followed, Link
<1>3. disk[q] \in Node \cup {None} \cup Link
  BY <1>2 DEF FilesTyped
<1> HIDE DEF q
<1>4. \A code : [refusal |-> code] \notin Descriptor
  <2> SUFFICES ASSUME NEW code, [refusal |-> code] \in Descriptor PROVE FALSE
    OBVIOUS
  <2>1. DOMAIN [refusal |-> code] = {"place", "node", "seen"}
    BY DEF Descriptor
  <2> QED  BY <2>1
<1>5. CASE ~(r \in standing /\ p \in Holds[r] /\ q \in Holds[r]) \/ disk[q] \in Link
  <2>1. opened = [refusal |-> "path_not_allowed"]
    BY <1>5, Zenon DEF Opened, q
  <2> QED  BY <1>4, <2>1
<1>6. CASE r \in standing /\ q \in Holds[r] /\ disk[q] \notin Link /\ disk[q] = None
  <2>1. \/ opened = [refusal |-> "path_not_allowed"]
        \/ opened = [refusal |-> "missing_file"]
    BY <1>6, Zenon DEF Opened, q
  <2> QED  BY <1>4, <2>1
<1>7. CASE /\ r \in standing /\ p \in Holds[r] /\ q \in Holds[r]
           /\ disk[q] \notin Link /\ disk[q] # None
  <2>1. opened = [place |-> q, node |-> disk[q], seen |-> content[disk[q]]]
    BY <1>7, Zenon DEF Opened, q
  <2>2. disk[q] \in Node /\ content[disk[q]] \in Bytes
    BY <1>3, <1>7 DEF FilesTyped
  <2>3. opened \in Descriptor /\ opened.place = q
    BY <1>2, <2>1, <2>2 DEF Descriptor
  <2> QED  BY <1>7, <2>3
<1> QED  BY <1>5, <1>6, <1>7 DEF opened

(* What is read is some bytes, or their head up to the bound. *)
LEMMA ReadsData ==
  ASSUME FilesTyped, file \in Descriptor, NEW bound \in Nat, NEW data \in Reads(bound)
  PROVE  /\ data \in [of : Bytes, len : Nat]
         /\ data.len < bound => data.len = data.of.size
<1>1. content[file.node] \in Bytes
  BY DEF FilesTyped, Descriptor
<1>2. PICK b \in Bytes :
        data = [of |-> b, len |-> IF b.size < bound THEN b.size ELSE bound]
  BY <1>1, MediaAssumption DEF Reads
<1>3. b.size \in Nat
  BY MediaAssumption
<1> QED  BY <1>2, <1>3

LEMMA OpensHandoffMedia == MediaInv /\ OpensHandoff => MediaInv'
<1> SUFFICES ASSUME MediaInv, OpensHandoff PROVE MediaInv'
  OBVIOUS
<1> DEFINE opened == Opened(options.root, Block.uri)
<1>1. /\ UNCHANGED <<call, files>> /\ at = "open" /\ call.kind = "prompt" /\ call \in Calls
      /\ Awaited(call, progress) /\ FilesTyped
  BY DEF OpensHandoff, MediaInv, AtPrompt
<1>2. Block.uri \in Path
  BY <1>1 DEF Awaited, NamesLocalPath, Block
<1>3. opened \in Descriptor \/ opened.refusal \in {"path_not_allowed", "missing_file"}
  BY <1>1, <1>2, OpenedFile
<1>4. \/ at' = "read" /\ file' = opened /\ UNCHANGED <<progress, answer>>
         /\ opened \in Descriptor
      \/ Refuses(Block, "path_not_allowed")
      \/ opened \notin Descriptor /\ Refuses(Block, opened.refusal)
  BY DEF OpensHandoff
<1> HIDE DEF opened
<1>5. CASE at' = "read" /\ file' = opened /\ UNCHANGED <<progress, answer>>
           /\ opened \in Descriptor
  BY <1>1, <1>5, AwaitedPrompt
<1>6. ASSUME NEW code \in {"path_not_allowed", "missing_file"}, Refuses(Block, code)
      PROVE  MediaInv'
  <2>1. UNCHANGED progress /\ at' = "done" /\ VerdictOf(answer') \in {code, None}
    BY <1>6 DEF Refuses, Answers, VerdictOf
  <2>2. None \notin {"admitted", "emitted", "too_large"}
    BY VerdictsAreNamed DEF Verdicts
  <2> QED  BY <1>1, <2>1, <2>2, RefusedPrompt
<1>7. CASE Refuses(Block, "path_not_allowed")
  BY <1>6, <1>7
<1>8. CASE opened \notin Descriptor /\ Refuses(Block, opened.refusal)
  <2>1. CASE opened.refusal = "path_not_allowed"
    BY <1>7, <1>8, <2>1
  <2>2. CASE opened.refusal = "missing_file"
    <3>1. Refuses(Block, "missing_file")
      BY <1>8, <2>2
    <3> QED  BY <1>6, <3>1
  <2> QED  BY <1>3, <1>8, <2>1, <2>2
<1> QED  BY <1>4, <1>5, <1>7, <1>8

(* What refuses a read handoff is a refusal. *)
LEMMA ReadDefectIsRefusal ==
  ASSUME NEW b, NEW data
  PROVE  ReadHandoffDefect(b, data) \notin {"admitted", "emitted"}
<1>1. None \notin {"admitted", "emitted"}
  BY NamesAssumption DEF Verdicts
<1>2. RasterDefect(data.of, b.mime) \notin {"admitted", "emitted"}
  BY <1>1 DEF RasterDefect
<1>3. SizeDefect(b, data.len) \notin {"admitted", "emitted"}
  BY <1>1 DEF SizeDefect
<1> QED  BY <1>2, <1>3 DEF ReadHandoffDefect

LEMMA ReadsHandoffMedia == MediaInv /\ ReadsHandoff => MediaInv'
<1> SUFFICES ASSUME MediaInv, ReadsHandoff PROVE MediaInv'
  OBVIOUS
<1>1. /\ UNCHANGED <<call, files>> /\ at = "read" /\ call.kind = "prompt" /\ call \in Calls
      /\ Awaited(call, progress) /\ FilesTyped /\ file \in Descriptor /\ Kept(call, progress)
  BY DEF ReadsHandoff, MediaInv, AtPrompt, PromptInv
<1>2. Block = call.blocks[progress.block] /\ Block.envelope.sizeBytes \in Nat
  BY <1>1 DEF Block, Awaited, WellFormed
<1>3. None \notin {"admitted", "emitted", "too_large"}
  BY VerdictsAreNamed DEF Verdicts
<1>4. CASE Refuses(Block, "missing_file")
  <2>1. UNCHANGED progress /\ at' = "done" /\ VerdictOf(answer') \in {"missing_file", None}
    BY <1>4 DEF Refuses, Answers, VerdictOf
  <2> QED  BY <1>1, <1>3, <2>1, RefusedPrompt
<1>5. ASSUME NEW data \in Reads(Block.envelope.sizeBytes + 1),
             IF ReadHandoffDefect(Block, data) # None
             THEN Refuses(Block, ReadHandoffDefect(Block, data)) ELSE Passes(Block, data)
      PROVE  MediaInv'
  <2>1. data \in [of : Bytes, len : Nat]
    <3>1. Block.envelope.sizeBytes + 1 \in Nat
      BY <1>2
    <3> QED  BY <1>1, <3>1, ReadsData
  <2>2. /\ ReadHandoffDefect(Block, data) = "too_large" => IsTooLarge(call, progress)
        /\ ReadHandoffDefect(Block, data) = None => Kept(call, Counted(progress, Block, data))
    BY <1>1, <1>2, <2>1, ReadGate
  <2>3. CASE ReadHandoffDefect(Block, data) # None
    <3>1. UNCHANGED progress /\ at' = "done"
          /\ VerdictOf(answer') \in {ReadHandoffDefect(Block, data), None}
      BY <1>5, <2>3 DEF Refuses, Answers, VerdictOf
    <3>2. ReadHandoffDefect(Block, data) \notin {"admitted", "emitted"}
      BY ReadDefectIsRefusal
    <3> QED  BY <1>1, <1>3, <2>2, <3>1, <3>2, RefusedPrompt
  <2>4. CASE ReadHandoffDefect(Block, data) = None
    <3>1. Passes(Block, data)
      BY <1>5, <2>4
    <3>2. at' = "block" /\ UNCHANGED answer /\ progress' = Counted(progress, Block, data)
      BY <3>1 DEF Passes, Counted, NextIndex
    <3>3. Kept(call', progress')
      BY <1>1, <2>2, <2>4, <3>2
    <3> QED  BY <1>1, <3>2, <3>3, PassedPrompt
  <2> QED  BY <2>3, <2>4
<1> QED  BY <1>4, <1>5 DEF ReadsHandoff

-----------------------------------------------------------------------------
(* Artifacts *)

(* An artifact's call has a limit, a path and roots. *)
LEMMA FileCall ==
  ASSUME MediaInv, call.kind = "file"
  PROVE  /\ call \in Calls /\ FilesTyped /\ AtFile /\ FileInv(call, standing, answer)
         /\ call.path \in Path /\ DOMAIN call.roots \subseteq Nat
         /\ Limit \in Nat /\ Limit = ClampOutput(call.limits.output)
<1>1. call.path \in Path /\ call.limits \in Limits /\ DOMAIN call.roots \subseteq Nat
  BY CallsAssumption DEF MediaInv
<1>2. Limit \in Nat
  <2>1. call.limits.output \in Nat
    BY <1>1 DEF Limits
  <2> QED  BY <2>1, MediaAssumption DEF Limit, ClampOutput
<1> QED  BY <1>1, <1>2 DEF MediaInv, Limit

(* A refusal of ReadFile. *)
LEMMA RefusedFile ==
  ASSUME MediaInv, call.kind = "file", UNCHANGED <<call, files>>, at' = "done",
         VerdictOf(answer') \notin {"admitted", "emitted"}
  PROVE  MediaInv'
<1>1. call' = call /\ standing' = standing /\ disk' = disk /\ content' = content
  BY DEF files
<1>2. FilesTyped'
  BY <1>1 DEF MediaInv, FilesTyped
<1>3. AtFile'
  BY DEF AtFile
<1>4. FileInv(call', standing', answer')
  BY DEF FileInv
<1> QED  BY <1>1, <1>2, <1>3, <1>4 DEF MediaInv

(* ReadFile goes on. *)
LEMMA ProceedingFile ==
  ASSUME MediaInv, call.kind = "file", UNCHANGED <<call, files, answer>>, at # "done", AtFile'
  PROVE  MediaInv'
<1>1. /\ call' = call /\ standing' = standing /\ disk' = disk /\ content' = content
      /\ answer' = answer /\ answer = None
  BY DEF files, MediaInv
<1>2. FilesTyped'
  BY <1>1 DEF MediaInv, FilesTyped
<1> QED  BY <1>1, <1>2 DEF MediaInv

(* Only ReadFile resolves a path or inspects a file. *)
LEMMA ResolvingIsFile ==
  ASSUME MediaInv, at \in {"resolve", "inspect"}
  PROVE  call.kind = "file"
<1>1. call.kind \in {"prompt", "file", "inline"}
  BY CallsAssumption DEF MediaInv
<1> QED  BY <1>1 DEF MediaInv, AtPrompt, AtInline

LEMMA ResolvesPathMedia == MediaInv /\ ResolvesPath => MediaInv'
<1> SUFFICES ASSUME MediaInv, ResolvesPath PROVE MediaInv'
  OBVIOUS
<1> DEFINE resolved == Resolved(call.path)
<1>1. UNCHANGED <<call, files>> /\ at = "resolve" /\ call.kind = "file"
  BY ResolvingIsFile DEF ResolvesPath
<1>2. None \notin {"admitted", "emitted"}
  BY VerdictsAreNamed DEF Verdicts
<1>3. FilesTyped /\ call.path \in Path /\ DOMAIN call.roots \subseteq Nat
  BY <1>1, FileCall
<1>4. ASSUME NEW code \in {"path_not_allowed", "missing_file"}, Answers([verdict |-> code])
      PROVE  MediaInv'
  <2>1. at' = "done" /\ VerdictOf(answer') \notin {"admitted", "emitted"}
    BY <1>2, <1>4 DEF Answers, VerdictOf
  <2> QED  BY <1>1, <2>1, RefusedFile
<1>5. CASE /\ resolved \notin {"unsafe", "missing"} /\ Containing(Placed(call.path)) # {}
           /\ at' = "open" /\ UNCHANGED <<file, answer>>
           /\ progress' = [root |-> ContainingRoot(resolved), path |-> resolved]
  <2>1. resolved \in Path
    <3>1. Followed(call.path) \in Path
      BY <1>3 DEF FilesTyped, Followed, Link
    <3> QED  BY <1>5, <3>1 DEF Resolved
  <2>2. Containing(resolved) # {} /\ Containing(resolved) \subseteq DOMAIN call.roots
    BY <1>5 DEF Placed, Containing
  <2>3. \E i \in DOMAIN call.roots : ContainingRoot(resolved) = call.roots[i]
    <3>1. \E i \in Containing(resolved) : \A j \in Containing(resolved) : i <= j
      BY <1>3, <2>2, LeastPosition
    <3> QED  BY <2>2, <3>1 DEF ContainingRoot
  <2> HIDE DEF resolved
  <2>4. progress'.path \in Path
        /\ \E i \in DOMAIN call.roots : progress'.root = call.roots[i]
    BY <1>5, <2>1, <2>3
  <2>5. AtFile'
    BY <1>1, <1>5, <2>4 DEF AtFile
  <2> QED  BY <1>1, <1>5, <2>5, ProceedingFile
<1>6. \/ Answers([verdict |-> "path_not_allowed"])
      \/ Answers([verdict |-> "missing_file"])
      \/ /\ resolved \notin {"unsafe", "missing"} /\ Containing(Placed(call.path)) # {}
         /\ at' = "open" /\ UNCHANGED <<file, answer>>
         /\ progress' = [root |-> ContainingRoot(resolved), path |-> resolved]
  BY DEF ResolvesPath
<1> QED  BY <1>4, <1>5, <1>6

LEMMA OpensArtifactMedia == MediaInv /\ OpensArtifact => MediaInv'
<1> SUFFICES ASSUME MediaInv, OpensArtifact PROVE MediaInv'
  OBVIOUS
<1> DEFINE opened == Opened(progress.root, progress.path)
<1>1. UNCHANGED <<call, files>> /\ at = "open" /\ call.kind = "file"
  BY DEF OpensArtifact
<1>2. FilesTyped /\ progress.path \in Path
      /\ \E i \in DOMAIN call.roots : progress.root = call.roots[i]
  BY <1>1, FileCall DEF AtFile
<1>3. \/ /\ opened \in Descriptor
         /\ progress.root \in standing /\ opened.place \in Holds[progress.root]
      \/ /\ opened \notin Descriptor
         /\ opened.refusal \in {"path_not_allowed", "missing_file"}
  BY <1>2, OpenedFile
<1>4. \/ opened \in Descriptor /\ at' = "inspect" /\ file' = opened /\ UNCHANGED answer
      \/ opened \notin Descriptor /\ Answers([verdict |-> opened.refusal])
  BY DEF OpensArtifact
<1> HIDE DEF opened
<1>5. CASE opened \in Descriptor /\ at' = "inspect" /\ file' = opened /\ UNCHANGED answer
  <2>1. InARoot(call, opened.place, standing)
    BY <1>2, <1>3, <1>5 DEF InARoot
  <2>2. InARoot(call', file'.place, standing') /\ file' \in Descriptor
    BY <1>1, <1>5, <2>1 DEF files
  <2>3. AtFile'
    BY <1>5, <2>2 DEF AtFile
  <2> QED  BY <1>1, <1>5, <2>3, ProceedingFile
<1>6. CASE opened \notin Descriptor /\ Answers([verdict |-> opened.refusal])
  <2>1. at' = "done" /\ VerdictOf(answer') \in {opened.refusal, None}
    BY <1>6 DEF Answers, VerdictOf
  <2>2. None \notin {"admitted", "emitted"}
    BY VerdictsAreNamed DEF Verdicts
  <2> QED  BY <1>1, <1>3, <1>6, <2>1, <2>2, RefusedFile
<1> QED  BY <1>4, <1>5, <1>6

LEMMA InspectsArtifactMedia == MediaInv /\ InspectsArtifact => MediaInv'
<1> SUFFICES ASSUME MediaInv, InspectsArtifact PROVE MediaInv'
  OBVIOUS
<1>1. UNCHANGED <<call, files, progress>> /\ at = "inspect" /\ call.kind = "file"
  BY ResolvingIsFile DEF InspectsArtifact
<1>2. ASSUME NEW code \in {"path_not_allowed", "too_large"}, Answers([verdict |-> code])
      PROVE  MediaInv'
  <2>1. None \notin {"admitted", "emitted"}
    BY VerdictsAreNamed DEF Verdicts
  <2>2. at' = "done" /\ VerdictOf(answer') \notin {"admitted", "emitted"}
    BY <1>2, <2>1 DEF Answers, VerdictOf
  <2> QED  BY <1>1, <2>2, RefusedFile
<1>3. CASE at' = "read" /\ UNCHANGED <<file, answer>>
  <2>1. file \in Descriptor /\ InARoot(call, file.place, standing)
    BY <1>1, FileCall DEF AtFile
  <2>2. file' \in Descriptor /\ InARoot(call', file'.place, standing')
    BY <1>1, <1>3, <2>1 DEF files
  <2>3. AtFile'
    BY <1>3, <2>2 DEF AtFile
  <2> QED  BY <1>1, <1>3, <2>3, ProceedingFile
<1>4. \/ Answers([verdict |-> "path_not_allowed"])
      \/ Answers([verdict |-> "too_large"])
      \/ at' = "read" /\ UNCHANGED <<file, answer>>
  BY DEF InspectsArtifact
<1> QED  BY <1>2, <1>3, <1>4

(* What is emitted is whole: one byte more than the limit was asked for.   *)
LEMMA EmittedIsWhole ==
  ASSUME NEW data, data.len \in Nat, NEW limit \in Nat, limit = Limit,
         OutputVerdict(data) = "emitted", data.len <= limit => data.len = data.of.size
  PROVE  IsWhole(data, limit)
<1>1. ~(data.len > limit) /\ SniffedMIME(data.of) # None
  BY DEF OutputVerdict
<1> QED  BY <1>1 DEF IsWhole

LEMMA OutputIsNotAdmitted ==
  ASSUME NEW data
  PROVE  OutputVerdict(data) \in {"too_large", "not_raster", "emitted"}
BY DEF OutputVerdict

LEMMA ReadsArtifactMedia == MediaInv /\ ReadsArtifact => MediaInv'
<1> SUFFICES ASSUME MediaInv, ReadsArtifact PROVE MediaInv'
  OBVIOUS
<1>1. UNCHANGED <<call, files, progress>> /\ at = "read" /\ call.kind = "file"
  BY DEF ReadsArtifact
<1>2. None \notin {"admitted", "emitted"}
  BY VerdictsAreNamed DEF Verdicts
<1>3. CASE Answers([verdict |-> "missing_file"])
  <2>1. at' = "done" /\ VerdictOf(answer') \notin {"admitted", "emitted"}
    BY <1>2, <1>3 DEF Answers, VerdictOf
  <2> QED  BY <1>1, <2>1, RefusedFile
<1>4. ASSUME NEW data \in Reads(OutputBound),
             Answers([verdict |-> OutputVerdict(data), data |-> data, place |-> file.place])
      PROVE  MediaInv'
  <2>1. /\ FilesTyped /\ file \in Descriptor /\ InARoot(call, file.place, standing)
        /\ Limit \in Nat /\ Limit = ClampOutput(call.limits.output)
    BY <1>1, FileCall DEF AtFile
  <2>2. OutputBound \in Nat /\ OutputBound = Limit + 1
    BY <2>1 DEF OutputBound
  <2>3. data.len \in Nat /\ (data.len < OutputBound => data.len = data.of.size)
    BY <2>1, <2>2, ReadsData
  <2>4. data.len <= Limit => data.len = data.of.size
    BY <2>1, <2>2, <2>3
  <2>5. /\ at' = "done"
        /\ answer' = [verdict |-> OutputVerdict(data), data |-> data, place |-> file.place]
    BY <1>4 DEF Answers
  <2>6. /\ VerdictOf(answer') \in {OutputVerdict(data), None}
        /\ answer'.data = data /\ answer'.place = file.place
    BY <2>5 DEF VerdictOf
  <2>7. OutputVerdict(data) # "admitted"
    BY OutputIsNotAdmitted
  <2>8. CASE OutputVerdict(data) = "emitted"
    <3>1. IsWhole(data, Limit)
      BY <2>1, <2>3, <2>4, <2>8, EmittedIsWhole
    <3>2. FileInv(call, standing, answer')
      BY <1>2, <2>1, <2>6, <2>7, <3>1 DEF FileInv
    <3>3. call' = call /\ standing' = standing /\ disk' = disk /\ content' = content
      BY <1>1 DEF files
    <3>4. FilesTyped'
      BY <2>1, <3>3 DEF FilesTyped
    <3>5. AtFile'
      BY <2>5 DEF AtFile
    <3> QED  BY <1>1, <2>5, <3>2, <3>3, <3>4, <3>5 DEF MediaInv
  <2>9. CASE OutputVerdict(data) # "emitted"
    BY <1>1, <1>2, <2>5, <2>6, <2>7, <2>9, RefusedFile
  <2> QED  BY <2>8, <2>9
<1> QED  BY <1>3, <1>4 DEF ReadsArtifact

LEMMA DecodesInlineMedia == MediaInv /\ DecodesInline => MediaInv'
<1> SUFFICES ASSUME MediaInv, DecodesInline PROVE MediaInv'
  OBVIOUS
<1>1. /\ call' = call /\ standing' = standing /\ disk' = disk /\ content' = content
      /\ at = "decode" /\ at' = "done"
      /\ answer' = [verdict |-> InlineVerdict(call.data, call.mime), data |-> call.data]
  BY DEF DecodesInline, Answers, files
<1>2. call.kind = "inline" /\ call \in Calls
  <2>1. call.kind \in {"prompt", "file", "inline"} /\ call \in Calls
    BY CallsAssumption DEF MediaInv
  <2> QED  BY <1>1, <2>1 DEF MediaInv, AtPrompt, AtFile
<1>3. call.data \in Bytes \cup {Undecodable} /\ call.limits \in Limits
  BY <1>2, CallsAssumption
<1>4. Limit \in Nat /\ Limit = ClampOutput(call.limits.output)
  <2>1. call.limits.output \in Nat
    BY <1>3 DEF Limits
  <2> QED  BY <2>1, MediaAssumption DEF Limit, ClampOutput
<1>5. FilesTyped'
  BY <1>1 DEF FilesTyped, MediaInv
<1>6. None \notin {"admitted", "emitted"}
  BY VerdictsAreNamed DEF Verdicts
<1> DEFINE verdict == InlineVerdict(call.data, call.mime)
<1>7. verdict # "admitted"
  BY OutputIsNotAdmitted DEF InlineVerdict
<1>8. verdict = "emitted" => IsWhole(Whole(call.data), Limit)
  <2> SUFFICES ASSUME verdict = "emitted" PROVE IsWhole(Whole(call.data), Limit)
    OBVIOUS
  <2>1. call.data # Undecodable /\ OutputVerdict(Whole(call.data)) = "emitted"
    BY DEF InlineVerdict
  <2>2. call.data \in Bytes /\ call.data.size \in Nat
    BY <1>3, <2>1, MediaAssumption
  <2>3. /\ Whole(call.data).len \in Nat
        /\ Whole(call.data).len = Whole(call.data).of.size
    BY <2>2 DEF Whole
  <2> QED  BY <1>4, <2>1, <2>3, EmittedIsWhole
<1> HIDE DEF verdict
<1>9. VerdictOf(answer') \in {verdict, None} /\ answer'.data = call.data
  BY <1>1 DEF VerdictOf, verdict
<1>10. InlineInv(call, answer')
  BY <1>4, <1>6, <1>7, <1>8, <1>9 DEF InlineInv
<1>11. AtInline'
  BY <1>1 DEF AtInline
<1> QED  BY <1>1, <1>2, <1>5, <1>10, <1>11 DEF MediaInv

-----------------------------------------------------------------------------
(* Theorems *)

(* The locals of ValidatePrompt and the descriptor that ReadFile holds are *)
(* as the invariant says in every state.                                   *)
THEOREM MediaInvariant == Spec => []MediaInv
<1>1. MediaInv /\ [Next]_vars => MediaInv'
  <2> SUFFICES ASSUME MediaInv, [Next]_vars PROVE MediaInv'
    OBVIOUS
  <2>1. CASE NameChanges \/ FileIsWritten \/ ContextEnds \/ UNCHANGED vars
    BY <2>1, ChangesMedia
  <2>2. CASE ContextStopsIt
    BY <2>2, ContextStopsItMedia
  <2>3. CASE SkipsBlock
    BY <2>3, SkipsBlockMedia
  <2>4. CASE ChecksBlock
    BY <2>4, ChecksBlockMedia
  <2>5. CASE OpensHandoff
    BY <2>5, OpensHandoffMedia
  <2>6. CASE ReadsHandoff
    BY <2>6, ReadsHandoffMedia
  <2>7. CASE EndsPrompt
    BY <2>7, EndsPromptMedia
  <2>8. CASE ResolvesPath
    BY <2>8, ResolvesPathMedia
  <2>9. CASE OpensArtifact
    BY <2>9, OpensArtifactMedia
  <2>10. CASE InspectsArtifact
    BY <2>10, InspectsArtifactMedia
  <2>11. CASE ReadsArtifact
    BY <2>11, ReadsArtifactMedia
  <2>12. CASE DecodesInline
    BY <2>12, DecodesInlineMedia
  <2> QED
    BY <2>1, <2>2, <2>3, <2>4, <2>5, <2>6, <2>7, <2>8, <2>9, <2>10, <2>11, <2>12 DEF Next
<1> QED  BY <1>1, InitMedia, PTL DEF Spec

(* The advertised envelope is the one that the gates apply: what is        *)
(* admitted keeps to it, what is too large broke it (ValidatePrompt,       *)
(* MediaEnvelope), for every prompt, limit and native limit.               *)
THEOREM EnvelopeKept == Spec => []EnvelopeIsExact
<1>1. MediaInv => EnvelopeIsExact
  <2> SUFFICES ASSUME MediaInv, call.kind = "prompt" PROVE EnvelopeIsExact
    BY DEF EnvelopeIsExact
  <2> DEFINE envelope == MediaEnvelope(options)
             t == TotalStated(call.blocks)
  <2>1. /\ call \in Calls /\ PromptInv(call, progress, answer)
        /\ DOMAIN call.blocks = 1 .. Len(call.blocks) /\ Len(call.blocks) \in Nat
        /\ Cap(call) \in Nat /\ call.options.limits.prompt \in Nat
        /\ \A i \in 0 .. Len(call.blocks) : t[i] \in Nat
    <3>1. t \in [0 .. Len(call.blocks) -> Nat]
      BY PromptCall, StatedTotals DEF MediaInv
    <3> QED  BY <3>1, PromptCall DEF MediaInv
  <2>2. /\ envelope.maxBytes = Cap(call)
        /\ envelope.maxPromptBytes = call.options.limits.prompt
        /\ envelope.imageFormats = Formats
    BY DEF MediaEnvelope, Cap, options
  <2> HIDE DEF envelope
  <2>3. Verdict = VerdictOf(answer) /\ \A n : StatedUpTo(n) = t[n]
    BY DEF Verdict, VerdictOf, StatedUpTo
  <2>4. /\ Locals(call, progress) /\ Charged(call, progress) /\ PassedFit(call, progress)
        /\ progress.handoffs \in 0 .. MaxHandoffs
    BY <2>1 DEF PromptInv, Kept, Locals
  <2>5. progress.handoffs <= MaxHandoffs
    BY <2>4, MediaAssumption
  <2>6. ASSUME Verdict = "admitted"
        PROVE  /\ ~(envelope.maxPromptBytes > 0
                    /\ StatedUpTo(Len(call.blocks)) > envelope.maxPromptBytes)
               /\ \A i \in DOMAIN call.blocks :
                    /\ ~(TakesIndex(call.blocks[i])
                         /\ Stated(call.blocks[i]) > envelope.maxBytes)
                    /\ NativeImage(call.blocks[i]) =>
                         call.blocks[i].mime \in envelope.imageFormats
    <3>1. progress.block = Len(call.blocks) + 1
      BY <2>1, <2>3, <2>6 DEF PromptInv
    <3>2. progress.block - 1 = Len(call.blocks)
      BY <2>1, <3>1
    <3>3. /\ progress.charged = t[Len(call.blocks)]
          /\ call.options.limits.prompt > 0 => progress.charged <= call.options.limits.prompt
      BY <2>4, <3>2 DEF Charged
    <3>4. ~(envelope.maxPromptBytes > 0
            /\ StatedUpTo(Len(call.blocks)) > envelope.maxPromptBytes)
      <4>1. t[Len(call.blocks)] \in Nat
        BY <2>1
      <4> HIDE DEF t
      <4> QED  BY <2>1, <2>2, <2>3, <3>3, <4>1
    <3>5. ASSUME NEW i \in DOMAIN call.blocks
          PROVE  /\ ~(TakesIndex(call.blocks[i])
                      /\ Stated(call.blocks[i]) > envelope.maxBytes)
                 /\ NativeImage(call.blocks[i]) =>
                      call.blocks[i].mime \in envelope.imageFormats
      <4>1. Fits(call, call.blocks[i])
        BY <2>1, <2>4, <3>2 DEF PassedFit
      <4>2. Stated(call.blocks[i]) \in Nat
        BY <2>1, PromptCall, StatedSize DEF MediaInv
      <4> QED  BY <2>1, <2>2, <4>1, <4>2 DEF Fits
    <3> QED  BY <3>4, <3>5
  <2>7. ASSUME Verdict = "too_large"
        PROVE  \/ /\ envelope.maxPromptBytes > 0
                  /\ StatedUpTo(progress.block) > envelope.maxPromptBytes
               \/ TakesIndex(Block) /\ Stated(Block) > envelope.maxBytes
               \/ progress.handoffs = MaxHandoffs /\ HandoffForm(Block)
    BY <2>1, <2>2, <2>3, <2>7 DEF PromptInv, IsTooLarge, Block
  <2> QED  BY <2>5, <2>6, <2>7 DEF EnvelopeIsExact, envelope
<1> QED  BY <1>1, MediaInvariant, PTL

(* Whatever is done to the host's files, an admitted prompt holds every    *)
(* image and blob of the request as it was sent or declared, in its order  *)
(* (decodeMedia, readHandoff, handoffBytesMatch).                          *)
THEOREM AdmittedAreDeclared == Spec => []AdmittedAsDeclared
<1>1. MediaInv => AdmittedAsDeclared
  <2> SUFFICES ASSUME MediaInv, Verdict = "admitted" PROVE AdmittedAsDeclared
    BY DEF AdmittedAsDeclared
  <2>1. VerdictOf(answer) = "admitted"
    BY DEF Verdict, VerdictOf
  <2>2. call.kind = "prompt" /\ call \in Calls /\ PromptInv(call, progress, answer)
    <3>1. call.kind \in {"prompt", "file", "inline"}
      BY CallsAssumption DEF MediaInv
    <3> QED  BY <2>1, <3>1 DEF MediaInv, FileInv, InlineInv
  <2>3. /\ answer.images = progress.images
        /\ progress.block = Len(call.blocks) + 1
        /\ ImagesInOrder(call, progress) /\ NoneIsLost(call, progress)
        /\ progress.images \in Seq(Taken(call))
    BY <2>1, <2>2 DEF PromptInv, Kept, Locals
  <2>4. DOMAIN call.blocks = 1 .. progress.block - 1
    BY <2>2, <2>3, PromptCall
  <2> DEFINE images == progress.images
  <2>5. \A i \in DOMAIN images : images[i].block \in DOMAIN call.blocks
    <3>1. \A i \in DOMAIN images : images[i] \in Taken(call)
      BY <2>3, ElementOfSeq, LenProperties
    <3> QED  BY <3>1 DEF Taken
  <2>6. {images[i].block : i \in DOMAIN images}
          = {j \in DOMAIN call.blocks : TakesIndex(call.blocks[j])}
    <3>1. \A i \in DOMAIN images : TakesIndex(call.blocks[images[i].block])
      BY <2>3 DEF ImagesInOrder
    <3>2. \A j \in DOMAIN call.blocks :
            TakesIndex(call.blocks[j]) => \E i \in DOMAIN images : images[i].block = j
      BY <2>3, <2>4 DEF NoneIsLost
    <3> HIDE DEF images
    <3> QED  BY <2>5, <3>1, <3>2
  <2>7. ASSUME NEW i \in DOMAIN images
        PROVE  LET b == call.blocks[images[i].block]
                   data == images[i].data
               IN  /\ images[i].index = i - 1
                   /\ i > 1 => images[i - 1].block < images[i].block
                   /\ data.len = Size(data.of)
                   /\ IF HandoffForm(b) THEN data.of.id = b.envelope.digest
                                       ELSE data.of = b.data
                   /\ NativeImage(b) => data.of.format = b.mime /\ data.of.defect = None
    BY <2>3 DEF ImagesInOrder, IsDeclared
  <2> HIDE DEF images
  <2>8. answer.images = images
    BY <2>3 DEF images
  <2> QED  BY <2>6, <2>7, <2>8 DEF AdmittedAsDeclared
<1> QED  BY <1>1, MediaInvariant, PTL

(* What is emitted is a whole raster within the limit, from inside a root, *)
(* however the file and its path change (ReadFile, DecodeOutput).          *)
THEOREM EmittedArtifactIsWhole == Spec => []ArtifactIsWhole
<1>1. MediaInv => ArtifactIsWhole
  <2> SUFFICES ASSUME MediaInv, Verdict = "emitted" PROVE ArtifactIsWhole
    BY DEF ArtifactIsWhole
  <2>1. VerdictOf(answer) = "emitted"
    BY DEF Verdict, VerdictOf
  <2>2. call.kind \in {"prompt", "file", "inline"} /\ Limit = ClampOutput(call.limits.output)
    BY CallsAssumption DEF MediaInv, Limit
  <2>3. call.kind # "prompt"
    BY <2>1 DEF MediaInv, PromptInv
  <2>4. CASE call.kind = "file"
    <3>1. IsWhole(answer.data, Limit) /\ InARoot(call, answer.place, standing)
      BY <2>1, <2>2, <2>4 DEF MediaInv, FileInv
    <3> QED  BY <2>4, <3>1 DEF ArtifactIsWhole, IsWhole, InARoot, Inside
  <2>5. CASE call.kind = "inline"
    <3>1. IsWhole(Whole(answer.data), Limit)
      BY <2>1, <2>2, <2>5 DEF MediaInv, InlineInv
    <3> QED  BY <2>5, <3>1 DEF ArtifactIsWhole, IsWhole
  <2> QED  BY <2>2, <2>3, <2>4, <2>5
<1> QED  BY <1>1, MediaInvariant, PTL

=============================================================================
