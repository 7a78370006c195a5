--------------------------- MODULE DownloadProofs ---------------------------
(***************************************************************************)
(* Proofs about the download manager, for files of any length and any      *)
(* number of calls.                                                        *)
(***************************************************************************)
EXTENDS DownloadMgr, SequenceTheorems, TLAPS

(* What leaves the stream's buffer is a part of the file, and all of it when  *)
(* no download is going on.                                                   *)
Kinds ==
    /\ version \in 0 .. MaxVersion
    /\ file # NoFile => file \in Seq(Blocks)
    /\ kept \in 0 .. Size
    /\ pc # "body" => kept = Size
    /\ good => file # NoFile
    /\ coming \in Seq(Blocks)

(* s holds the blocks of the remote file from position n + 1 on. *)
Continues(n, s) == \A k \in 1 .. Len(s) : s[k] = <<version, n + k>>

(* Without trouble the file is a beginning of the remote file, and what is    *)
(* coming is all the rest.                                                    *)
InStep ==
    trouble = {} =>
      /\ file # NoFile => Len(file) <= Length /\ Continues(0, file)
      /\ pc = "body" => /\ good /\ file # NoFile
                        /\ Len(file) + Len(coming) = Length
                        /\ Continues(Len(file), coming)
      /\ pc = "idle" /\ result = "true" => file # NoFile /\ Len(file) = Length

BarInv ==
    pc = "body" =>
      /\ bar \in [size : Nat, min : Nat, progress : Nat, unprinted : Nat,
                  fresh : BOOLEAN, full : BOOLEAN]
      /\ bar.progress + bar.unprinted + bar.min + Len(coming) = bar.size
      /\ bar.full <=> bar.min = 0 /\ coming = <<>> /\ bar.size > 0

IInv == Kinds /\ InStep /\ BarInv
-----------------------------------------------------------------------------
(* A sequence that is cut in two. *)
LEMMA CutInTwo ==
    ASSUME NEW s \in Seq(Blocks), NEW n \in 0 .. Len(s)
    PROVE  /\ SubSeq(s, 1, n) \in Seq(Blocks)
           /\ Len(SubSeq(s, 1, n)) = n
           /\ \A k \in 1 .. n : SubSeq(s, 1, n)[k] = s[k]
           /\ SubSeq(s, n + 1, Len(s)) \in Seq(Blocks)
           /\ Len(SubSeq(s, n + 1, Len(s))) = Len(s) - n
           /\ \A k \in 1 .. Len(s) - n : SubSeq(s, n + 1, Len(s))[k] = s[n + k]
OBVIOUS

LEMMA Joined ==
    ASSUME NEW f \in Seq(Blocks), NEW s \in Seq(Blocks)
    PROVE  /\ f \o s \in Seq(Blocks)
           /\ Len(f \o s) = Len(f) + Len(s)
           /\ \A k \in 1 .. Len(f) : (f \o s)[k] = f[k]
           /\ \A k \in Len(f) + 1 .. Len(f) + Len(s) : (f \o s)[k] = s[k - Len(f)]
OBVIOUS

(* Writing the first n blocks of what continues a file keeps them in step.    *)
LEMMA WritingKeepsStep ==
    ASSUME NEW f \in Seq(Blocks), NEW s \in Seq(Blocks), NEW n \in 0 .. Len(s),
           Continues(0, f), Continues(Len(f), s)
    PROVE  LET g == f \o SubSeq(s, 1, n)
               rest == SubSeq(s, n + 1, Len(s))
           IN  /\ g \in Seq(Blocks) /\ rest \in Seq(Blocks)
               /\ Len(g) = Len(f) + n /\ Len(rest) = Len(s) - n
               /\ Continues(0, g) /\ Continues(Len(g), rest)
<1> DEFINE first == SubSeq(s, 1, n)
           rest == SubSeq(s, n + 1, Len(s))
           g == f \o first
<1>1. /\ first \in Seq(Blocks) /\ Len(first) = n
      /\ \A k \in 1 .. n : first[k] = s[k]
      /\ rest \in Seq(Blocks) /\ Len(rest) = Len(s) - n
      /\ \A k \in 1 .. Len(s) - n : rest[k] = s[n + k]
  BY CutInTwo
<1> HIDE DEF first, rest
<1>2. /\ g \in Seq(Blocks) /\ Len(g) = Len(f) + n
      /\ \A k \in 1 .. Len(f) : g[k] = f[k]
      /\ \A k \in Len(f) + 1 .. Len(f) + n : g[k] = first[k - Len(f)]
  BY <1>1, Joined
<1> HIDE DEF g
<1>3. Len(f) \in Nat /\ Len(s) \in Nat /\ n \in Nat
  OBVIOUS
<1>4. Continues(0, g)
  <2> SUFFICES ASSUME NEW k \in 1 .. Len(f) + n
               PROVE  g[k] = <<version, k>>
    BY <1>2, <1>3 DEF Continues
  <2>1. CASE k \in 1 .. Len(f)
    BY <2>1, <1>2, <1>3 DEF Continues
  <2>2. CASE k \in Len(f) + 1 .. Len(f) + n
    <3>1. k - Len(f) \in 1 .. n /\ k - Len(f) \in 1 .. Len(s) /\ Len(f) + (k - Len(f)) = k
      BY <2>2, <1>3
    <3>2. g[k] = s[k - Len(f)]
      BY <2>2, <3>1, <1>1, <1>2
    <3> QED
      BY <3>1, <3>2 DEF Continues
  <2> QED
    BY <2>1, <2>2, <1>3
<1>5. Continues(Len(g), rest)
  <2> SUFFICES ASSUME NEW k \in 1 .. Len(s) - n
               PROVE  rest[k] = <<version, Len(f) + n + k>>
    BY <1>1, <1>2, <1>3 DEF Continues
  <2>1. n + k \in 1 .. Len(s) /\ Len(f) + (n + k) = Len(f) + n + k
    BY <1>3
  <2> QED
    BY <2>1, <1>1 DEF Continues
<1> QED
  BY <1>1, <1>2, <1>4, <1>5 DEF first, rest, g

LEMMA RemoteIsInStep ==
    ASSUME version \in 0 .. MaxVersion
    PROVE  /\ Remote \in Seq(Blocks) /\ Len(Remote) = Length /\ Continues(0, Remote)
           /\ \A n \in 0 .. Length :
                 Rest(n) \in Seq(Blocks) /\ Len(Rest(n)) = Length - n /\ Continues(n, Rest(n))
<1>1. Length \in Nat \ {0}
  BY DownloadAssumption
<1>2. Remote \in Seq(Blocks) /\ Len(Remote) = Length
  BY <1>1 DEF Remote, Blocks
<1>3. \A k \in 1 .. Length : Remote[k] = <<version, k>>
  BY <1>1 DEF Remote
<1> HIDE DEF Remote
<1>4. ASSUME NEW n \in 0 .. Length
      PROVE  Rest(n) \in Seq(Blocks) /\ Len(Rest(n)) = Length - n /\ Continues(n, Rest(n))
  <2>1. /\ Rest(n) \in Seq(Blocks) /\ Len(Rest(n)) = Length - n
        /\ \A k \in 1 .. Length - n : Rest(n)[k] = Remote[n + k]
    BY <1>2, CutInTwo DEF Rest
  <2>2. \A k \in 1 .. Length - n : n + k \in 1 .. Length
    BY <1>1
  <2> QED
    BY <2>1, <2>2, <1>3 DEF Continues
<1>5. Continues(0, Remote)
  <2>1. \A k \in 1 .. Length : 0 + k = k
    BY <1>1
  <2> QED
    BY <1>2, <1>3, <2>1 DEF Continues
<1> QED
  BY <1>2, <1>4, <1>5

LEMMA SizeIs ==
    ASSUME Kinds
    PROVE  /\ Size \in Nat
           /\ file # NoFile => file \in Seq(Blocks) /\ Size = Len(file)
           /\ file = NoFile => Size = 0
BY DEF Kinds, Size

LEMMA InitHolds == Init => IInv
<1> SUFFICES ASSUME Init
             PROVE  IInv
  OBVIOUS
<1>1. Kinds
  BY DownloadAssumption DEF Init, Kinds, Size
<1> QED
  BY <1>1 DEF Init, IInv, InStep, BarInv

(* A body that continues what is left of the file is written in step with it, *)
(* from the blocks that came with the header on, and the bar is new.          *)
LEMMA WriteDataToFileKeepsIInv ==
    ASSUME IInv, NEW body \in Seq(Blocks), NEW size \in {0, Size}, NEW problems,
           WriteDataToFile(body, size, problems), version' = version,
           trouble \union problems = {}
             => size + Len(body) = Length /\ Continues(size, body)
    PROVE  IInv'
<1> USE DEF IInv
<1> DEFINE base == OpenedFor(size)
<1>1. /\ base \in Seq(Blocks) /\ Len(base) = size
      /\ trouble = {} => Continues(0, base)
  <2>1. CASE size = 0
    BY <2>1 DEF OpenedFor, Continues
  <2>2. CASE size # 0
    <3>1. size > 0 /\ file # NoFile /\ file \in Seq(Blocks) /\ Len(file) = size
      BY <2>2, SizeIs
    <3> QED
      BY <3>1 DEF OpenedFor, InStep
  <2> QED
    BY <2>1, <2>2
<1> HIDE DEF base
<1>2. PICK n \in 0 .. Len(body) :
        /\ pc' = "body"
        /\ coming' = SubSeq(body, n + 1, Len(body))
        /\ bar' = NewBar(Len(coming') + size, size)
        /\ \/ /\ file' = base \o SubSeq(body, 1, n)
              /\ kept' \in Len(base) .. Len(file')
              /\ good' = TRUE
              /\ trouble' = trouble \union problems
           \/ /\ good' = FALSE
              /\ trouble' = trouble \union problems \union {"disk"}
              /\ \/ UNCHANGED <<file, kept>>
                 \/ file' = base /\ kept' = Len(file')
  BY DEF WriteDataToFile, base
<1>3. coming' \in Seq(Blocks) /\ Len(coming') = Len(body) - n
  BY <1>2, CutInTwo
<1>4. BarInv'
  <2>1. Len(coming') \in Nat /\ size \in Nat /\ (Len(coming') = 0 <=> coming' = <<>>)
    BY <1>3, SizeIs
  <2> QED
    BY <1>2, <2>1 DEF BarInv, NewBar
<1>5. CASE good'
  <2>1. /\ file' = base \o SubSeq(body, 1, n)
        /\ kept' \in Len(base) .. Len(file')
        /\ trouble' = trouble \union problems
    BY <1>2, <1>5
  <2>2. /\ SubSeq(body, 1, n) \in Seq(Blocks) /\ Len(SubSeq(body, 1, n)) = n
        /\ file' \in Seq(Blocks) /\ Len(file') = size + n /\ file' # NoFile
    <3>1. SubSeq(body, 1, n) \in Seq(Blocks) /\ Len(SubSeq(body, 1, n)) = n
      BY CutInTwo
    <3>2. file' \in Seq(Blocks) /\ Len(file') = Len(base) + n
      <4> DEFINE part == SubSeq(body, 1, n)
      <4>1. file' = base \o part /\ base \in Seq(Blocks)
            /\ part \in Seq(Blocks) /\ Len(part) = n
        BY <3>1, <2>1, <1>1
      <4> HIDE DEF part
      <4>2. base \o part \in Seq(Blocks) /\ Len(base \o part) = Len(base) + Len(part)
        BY <4>1, Joined
      <4> QED
        BY <4>1, <4>2
    <3> QED
      BY <3>1, <3>2, <1>1, DownloadAssumption
  <2>3. Kinds'
    <3>1. size \in Nat /\ n \in Nat
      BY <1>1
    <3>2. kept' \in 0 .. Len(file') /\ Size' = Len(file')
      BY <3>1, <2>1, <2>2, <1>1 DEF Size
    <3> QED
      BY <1>2, <1>3, <2>2, <3>2 DEF Kinds
  <2>4. ASSUME trouble' = {}
        PROVE  /\ Continues(0, file') /\ Continues(Len(file'), coming')
               /\ Len(file') + Len(coming') = Length
    <3>1. trouble = {} /\ trouble \union problems = {}
      BY <2>1, <2>4
    <3>2. /\ size + Len(body) = Length /\ Continues(size, body) /\ Continues(0, base)
      BY <3>1, <1>1
    <3>3. Continues(0, file') /\ Continues(Len(file'), coming')
      BY <3>2, <1>1, <1>2, <2>1, WritingKeepsStep
    <3>4. size + n + (Len(body) - n) = size + Len(body)
      BY <1>1, <2>2
    <3> QED
      BY <3>2, <3>3, <3>4, <2>2, <1>3
  <2>5. InStep'
    <3>1. Len(file') \in Nat /\ Len(coming') \in Nat
      BY <2>2, <1>3
    <3>2. pc' = "body" /\ good' /\ file' # NoFile
      BY <1>2, <1>5, <2>2
    <3>3. ASSUME trouble' = {}
          PROVE  /\ Len(file') <= Length /\ Len(file') + Len(coming') = Length
                 /\ Continues(0, file)' /\ Continues(Len(file), coming)'
      <4>1. Continues(0, file)' /\ Continues(Len(file), coming)'
        BY <2>4, <3>3 DEF Continues
      <4> QED
        BY <4>1, <2>4, <3>1, <3>3
    <3> QED
      BY <3>2, <3>3 DEF InStep
  <2> QED
    BY <1>4, <2>3, <2>5
<1>6. CASE ~good'
  <2>1. trouble' # {}
    BY <1>2, <1>6
  <2>2. Kinds'
    <3>1. CASE UNCHANGED <<file, kept>>
      BY <1>2, <1>3, <1>6, <3>1 DEF Kinds, Size
    <3>2. CASE file' = base /\ kept' = Len(file')
      <4>1. file' \in Seq(Blocks) /\ file' # NoFile /\ Size' = kept' /\ kept' \in Nat
        BY <1>1, <3>2, DownloadAssumption DEF Size
      <4> QED
        BY <1>2, <1>3, <1>6, <4>1 DEF Kinds
    <3> QED
      BY <1>2, <1>6, <3>1, <3>2
  <2> QED
    BY <2>1, <2>2, <1>4 DEF InStep
<1> QED
  BY <1>5, <1>6

(* A step that neither writes nor begins to do so.                            *)
LEMMA QuietStepKeepsIInv ==
    ASSUME IInv, UNCHANGED <<version, disk>>,
           pc # "body", pc' # "body", coming' \in Seq(Blocks),
           trouble \subseteq trouble',
           trouble' = {} /\ pc' = "idle" /\ result' = "true"
             => file # NoFile /\ Len(file) = Length
    PROVE  IInv'
<1>1. trouble' = {} => trouble = {}
  OBVIOUS
<1>2. Kinds'
  BY DEF IInv, Kinds, Size, disk
<1>3. InStep'
  BY <1>1 DEF IInv, InStep, Continues, disk
<1> QED
  BY <1>2, <1>3 DEF IInv, BarInv

LEMMA NothingIsASequence == <<>> \in Seq(Blocks)
OBVIOUS

LEMMA PageIsASequence == <<Page>> \in Seq(Blocks)
<1>1. Page \in Blocks
  BY DEF Blocks
<1> QED
  BY <1>1

LEMMA DownloadFileKeepsIInv ==
    ASSUME IInv, DownloadFile \/ Reconnect
    PROVE  IInv'
<1>1. /\ UNCHANGED <<version, disk, trouble>>
      /\ pc # "body"
      /\ \/ pc' \in {"connected", "ranged"} /\ coming' = coming
         \/ pc' = "idle" /\ result' = "false" /\ coming' = <<>>
  BY DEF DownloadFile, Reconnect, Connect, Returns
<1>2. coming' \in Seq(Blocks)
  BY <1>1, NothingIsASequence DEF IInv, Kinds
<1> QED
  BY <1>1, <1>2, QuietStepKeepsIInv

LEMMA NoResponseKeepsIInv ==
    ASSUME IInv, NoResponse, pc # "body", version' = version
    PROVE  IInv'
BY NothingIsASequence, QuietStepKeepsIInv DEF NoResponse, Returns

LEMMA FirstResponseKeepsIInv ==
    ASSUME IInv, FirstResponse
    PROVE  IInv'
<1>1. ASSUME NEW body \in Seq(Blocks), NEW hasRanges, NEW problems,
             HandleFirst(body, hasRanges, problems), pc = "connected",
             UNCHANGED <<version, ranges, calls>>,
             problems = {} => body = Remote
      PROVE  IInv'
  <2>1. Remote \in Seq(Blocks) /\ Len(Remote) = Length /\ Continues(0, Remote)
    BY RemoteIsInStep DEF IInv, Kinds
  <2>2. CASE WriteDataToFile(body, 0, problems)
    <3>1. trouble \union problems = {} => 0 + Len(body) = Length /\ Continues(0, body)
      BY <1>1, <2>1, DownloadAssumption
    <3> QED
      BY <1>1, <2>2, <3>1, WriteDataToFileKeepsIInv
  <2>3. CASE /\ Returns("true") /\ file # NoFile /\ IsActual(Len(body))
             /\ UNCHANGED disk /\ trouble' = trouble \union problems
    <3>1. file \in Seq(Blocks) /\ Size = Len(file)
      BY <2>3, SizeIs DEF IInv
    <3>2. trouble' = {} => trouble = {} /\ Len(file) = Length
      BY <1>1, <2>1, <2>3, <3>1 DEF IsActual
    <3> QED
      BY <1>1, <2>3, <3>2, NothingIsASequence, QuietStepKeepsIInv DEF Returns
  <2>4. CASE /\ \/ Returns("thrown")
                \/ pc' = "reconnect" /\ UNCHANGED <<coming, result>>
             /\ UNCHANGED disk /\ trouble' = trouble \union problems
    <3>1. coming' \in Seq(Blocks)
      BY <2>4, NothingIsASequence DEF Returns, IInv, Kinds
    <3> QED
      BY <1>1, <2>4, <3>1, QuietStepKeepsIInv DEF Returns
  <2> QED
    BY <1>1, <2>2, <2>3, <2>4 DEF HandleFirst
<1>2. CASE NoResponse
  BY <1>2, NoResponseKeepsIInv DEF FirstResponse
<1>3. CASE HandleFirst(Remote, ranges # "absent", {})
  <2>1. Remote \in Seq(Blocks)
    BY RemoteIsInStep DEF IInv, Kinds
  <2> QED
    BY <1>1, <1>3, <2>1 DEF FirstResponse
<1>4. ASSUME NEW hasRanges \in {FALSE, ranges # "absent"},
             HandleFirst(<<Page>>, hasRanges, {"error page"})
      PROVE  IInv'
  <2>1. <<Page>> \in Seq(Blocks) /\ {"error page"} # {}
    BY PageIsASequence
  <2> QED
    BY <1>1, <1>4, <2>1 DEF FirstResponse
<1> QED
  BY <1>2, <1>3, <1>4 DEF FirstResponse

LEMMA RangeResponseKeepsIInv ==
    ASSUME IInv, RangeResponse
    PROVE  IInv'
<1>1. Size \in {0, Size} /\ version' = version
  BY DEF RangeResponse
<1>2. CASE RangeStart(Size) < Length /\ WriteDataToFile(Rest(RangeStart(Size)), Size, {})
  <2>1. Size \in 0 .. Length
    BY <1>2, SizeIs, DownloadAssumption DEF IInv, RangeStart
  <2>2. /\ Rest(Size) \in Seq(Blocks) /\ Len(Rest(Size)) = Length - Size
        /\ Continues(Size, Rest(Size))
    BY <2>1, RemoteIsInStep DEF IInv, Kinds
  <2>3. Size + Len(Rest(Size)) = Length
    BY <2>1, <2>2, DownloadAssumption
  <2> QED
    BY <1>1, <1>2, <2>2, <2>3, WriteDataToFileKeepsIInv DEF RangeStart
<1>3. CASE WriteDataToFile(<<Page>>, Size, {"error page"})
  <2>1. <<Page>> \in Seq(Blocks) /\ trouble \union {"error page"} # {}
    BY PageIsASequence
  <2> QED
    BY <1>1, <1>3, <2>1, WriteDataToFileKeepsIInv
<1>4. CASE WriteDataToFile(Remote, Size, {"range ignored"})
  <2>1. Remote \in Seq(Blocks) /\ trouble \union {"range ignored"} # {}
    BY RemoteIsInStep DEF IInv, Kinds
  <2> QED
    BY <1>1, <1>4, <2>1, WriteDataToFileKeepsIInv
<1>5. CASE NoResponse
  BY <1>5, NoResponseKeepsIInv DEF RangeResponse
<1> QED
  BY <1>2, <1>3, <1>4, <1>5 DEF RangeResponse

LEMMA DrawnIsABar ==
    ASSUME NEW N, NEW B, NEW p \in N, NEW u \in N, NEW fr \in B, NEW fu \in B,
           NEW r \in [size : N, min : N, progress : N, unprinted : N, fresh : B, full : B]
    PROVE  [r EXCEPT !.progress = p, !.unprinted = u, !.fresh = fr, !.full = fu]
             \in [size : N, min : N, progress : N, unprinted : N, fresh : B, full : B]
<1>1. [r EXCEPT !.progress = p, !.unprinted = u]
        \in [size : N, min : N, progress : N, unprinted : N, fresh : B, full : B]
  OBVIOUS
<1> QED
  OBVIOUS

(* What an update adds is drawn or collected, and only the last block fills a *)
(* bar that began with nothing.                                               *)
LEMMA UpdateCounts ==
    ASSUME BarInv, pc = "body", NEW n \in 1 .. Len(coming), NEW due \in BOOLEAN,
           coming \in Seq(Blocks), coming' \in Seq(Blocks),
           Len(coming') = Len(coming) - n, bar' = Update(bar, n, due)
    PROVE  BarInv'
<1>1. /\ Len(coming) \in Nat /\ Len(coming') \in Nat /\ n \in Nat /\ n > 0
      /\ Len(coming) > 0 /\ Len(coming') = Len(coming) - n
      /\ coming' = <<>> <=> Len(coming') = 0
      /\ coming # <<>>
  OBVIOUS
<1>2. /\ bar \in [size : Nat, min : Nat, progress : Nat, unprinted : Nat,
                  fresh : BOOLEAN, full : BOOLEAN]
      /\ bar.progress + bar.unprinted + bar.min + Len(coming) = bar.size
      /\ ~bar.full
  BY <1>1 DEF BarInv
<1> DEFINE counted == SaveUnprintProgress(bar, n)
<1>3. counted = [bar EXCEPT !.unprinted = bar.unprinted + n]
  BY <1>1 DEF SaveUnprintProgress
<1>4. /\ counted \in [size : Nat, min : Nat, progress : Nat, unprinted : Nat,
                      fresh : BOOLEAN, full : BOOLEAN]
      /\ counted.size = bar.size /\ counted.min = bar.min
      /\ counted.progress = bar.progress
      /\ counted.unprinted = bar.unprinted + n /\ ~counted.full
  <2>1. bar.unprinted + n \in Nat
    BY <1>1, <1>2
  <2>2. counted \in [size : Nat, min : Nat, progress : Nat, unprinted : Nat,
                     fresh : BOOLEAN, full : BOOLEAN]
    BY <1>2, <1>3, <2>1
  <2>3. /\ counted.size = bar.size /\ counted.min = bar.min
        /\ counted.progress = bar.progress
        /\ counted.unprinted = bar.unprinted + n
    BY <1>2, <1>3
  <2>4. counted.full = bar.full
    BY <1>2, <1>3
  <2> QED
    BY <1>2, <2>2, <2>3, <2>4
<1> HIDE DEF counted
<1>5. counted.progress + counted.unprinted + counted.min + Len(coming') = counted.size
  <2>1. bar.progress \in Nat /\ bar.unprinted \in Nat /\ bar.min \in Nat /\ bar.size \in Nat
    BY <1>2
  <2>2. /\ counted.size = bar.size /\ counted.min = bar.min
        /\ counted.progress = bar.progress /\ counted.unprinted = bar.unprinted + n
    BY <1>4
  <2>3. /\ Len(coming) \in Nat /\ n \in Nat /\ Len(coming') = Len(coming) - n
        /\ bar.progress + bar.unprinted + bar.min + Len(coming) = bar.size
    BY <1>1, <1>2
  <2> QED
    BY <2>1, <2>2, <2>3
<1>6. ReachesEnd(counted) <=> counted.min = 0 /\ Len(coming') = 0
  <2>1. /\ counted.progress \in Nat /\ counted.unprinted \in Nat
        /\ counted.min \in Nat /\ counted.size \in Nat
    BY <1>4
  <2>2. Len(coming') \in Nat
    BY <1>1
  <2> QED
    BY <2>1, <2>2, <1>5 DEF ReachesEnd
<1>7. counted.size > 0
  BY <1>1, <1>2, <1>4
<1>8. CASE bar' = Drawn(counted)
  <2>1. /\ bar' \in [size : Nat, min : Nat, progress : Nat, unprinted : Nat,
                     fresh : BOOLEAN, full : BOOLEAN]
        /\ bar'.size = counted.size /\ bar'.min = counted.min
        /\ bar'.progress = counted.progress + counted.unprinted
        /\ bar'.unprinted = 0
        /\ bar'.full <=> counted.progress + counted.unprinted >= counted.size
    <3> DEFINE now == counted.progress + counted.unprinted
               full == now >= counted.size
               fresh == counted.fresh /\ ReachesEnd(counted)
    <3>1. now \in Nat /\ full \in BOOLEAN
      BY <1>4
    <3>2. fresh \in BOOLEAN
      BY <1>4 DEF ReachesEnd
    <3>3. bar' = [counted EXCEPT !.progress = now, !.unprinted = 0,
                                 !.fresh = fresh, !.full = full]
      BY <1>8 DEF Drawn
    <3> HIDE DEF now, full, fresh
    <3>4. bar' \in [size : Nat, min : Nat, progress : Nat, unprinted : Nat,
                    fresh : BOOLEAN, full : BOOLEAN]
      <4>1. 0 \in Nat
        OBVIOUS
      <4>2. [counted EXCEPT !.progress = now, !.unprinted = 0, !.fresh = fresh, !.full = full]
              \in [size : Nat, min : Nat, progress : Nat, unprinted : Nat,
                   fresh : BOOLEAN, full : BOOLEAN]
        BY <1>4, <3>1, <3>2, <4>1, DrawnIsABar, Zenon
      <4> QED
        BY <3>3, <4>2
    <3>5. /\ bar'.size = counted.size /\ bar'.min = counted.min
          /\ bar'.progress = now /\ bar'.unprinted = 0
      BY <1>4, <3>3
    <3>6. bar'.full = full
      BY <1>4, <3>3
    <3> QED
      BY <3>4, <3>5, <3>6 DEF now, full
  <2>2. bar'.full <=> bar'.min = 0 /\ coming' = <<>> /\ bar'.size > 0
    BY <1>1, <1>6, <1>7, <2>1 DEF ReachesEnd
  <2>3. bar'.progress + bar'.unprinted + bar'.min + Len(coming') = bar'.size
    BY <1>1, <1>4, <1>5, <2>1
  <2> QED
    BY <2>1, <2>2, <2>3 DEF BarInv
<1>9. CASE bar' = counted /\ ~ReachesEnd(counted)
  BY <1>1, <1>4, <1>5, <1>6, <1>9 DEF BarInv
<1> QED
  BY <1>2, <1>8, <1>9 DEF Update, counted, CanPrintProgress

LEMMA ReadBodyKeepsIInv ==
    ASSUME IInv, ReadBody
    PROVE  IInv'
<1> USE DEF IInv
<1>1. pc = "body" /\ pc' = "body" /\ version' = version /\ coming \in Seq(Blocks)
  BY DEF ReadBody, Kinds
<1>2. PICK n \in 1 .. Len(coming) :
         /\ coming' = SubSeq(coming, n + 1, Len(coming))
         /\ \E due \in BOOLEAN : bar' = Update(bar, n, due)
         /\ \/ /\ good
               /\ file' = file \o SubSeq(coming, 1, n)
               /\ kept' \in kept .. Len(file')
               /\ UNCHANGED <<good, trouble>>
            \/ /\ good' = FALSE
               /\ trouble' = trouble \union {"disk"}
               /\ UNCHANGED <<file, kept>>
  BY DEF ReadBody
<1>3. /\ n \in 0 .. Len(coming)
      /\ coming' \in Seq(Blocks) /\ Len(coming') = Len(coming) - n
      /\ SubSeq(coming, 1, n) \in Seq(Blocks) /\ Len(SubSeq(coming, 1, n)) = n
  BY <1>1, <1>2, CutInTwo
<1>4. BarInv'
  BY <1>1, <1>2, <1>3, UpdateCounts
<1>5. CASE good' = FALSE /\ trouble' # {} /\ UNCHANGED <<file, kept>>
  BY <1>1, <1>3, <1>4, <1>5 DEF Kinds, Size, InStep
<1>6. CASE /\ good /\ good' = good /\ trouble' = trouble
           /\ file' = file \o SubSeq(coming, 1, n)
           /\ kept' \in kept .. Len(file')
  <2>1. file # NoFile /\ file \in Seq(Blocks) /\ Size = Len(file)
    BY <1>6, SizeIs DEF Kinds
  <2>2. file' \in Seq(Blocks) /\ Len(file') = Len(file) + n /\ file' # NoFile
    BY <1>3, <1>6, <2>1, Joined, DownloadAssumption
  <2>3. Kinds'
    <3>1. kept \in 0 .. Len(file)
      BY <2>1 DEF Kinds
    <3>2. Size' = Len(file') /\ Len(file) \in Nat /\ Len(file') \in Nat
      BY <2>1, <2>2 DEF Size
    <3>3. kept' \in 0 .. Len(file')
      BY <1>6, <3>1, <3>2
    <3> QED
      BY <1>1, <1>3, <1>6, <2>2, <3>2, <3>3 DEF Kinds
  <2>4. ASSUME trouble' = {}
        PROVE  /\ Len(file') <= Length /\ Len(file') + Len(coming') = Length
               /\ Continues(0, file)' /\ Continues(Len(file), coming)'
    <3>1. /\ Len(file) + Len(coming) = Length
          /\ Continues(0, file) /\ Continues(Len(file), coming)
      BY <1>1, <1>6, <2>1, <2>4 DEF InStep
    <3>2. Continues(0, file') /\ Continues(Len(file'), coming')
      BY <1>1, <1>2, <1>3, <1>6, <2>1, <3>1, WritingKeepsStep
    <3>3. Continues(0, file)' /\ Continues(Len(file), coming)'
      BY <1>1, <3>2 DEF Continues
    <3>4. Len(file) \in Nat /\ Len(coming) \in Nat /\ n \in 0 .. Len(coming)
      BY <1>1, <1>3, <2>1
    <3>5. Len(file') + Len(coming') = Length /\ Len(file') <= Length
      BY <1>3, <2>2, <3>1, <3>4
    <3> QED
      BY <3>3, <3>5
  <2>5. InStep'
    BY <1>1, <1>6, <2>2, <2>4 DEF InStep
  <2> QED
    BY <1>4, <2>3, <2>5
<1> QED
  <2>1. \/ good' = FALSE /\ trouble' # {} /\ UNCHANGED <<file, kept>>
        \/ /\ good /\ good' = good /\ trouble' = trouble
           /\ file' = file \o SubSeq(coming, 1, n)
           /\ kept' \in kept .. Len(file')
    BY <1>2
  <2> QED
    BY <2>1, <1>5, <1>6

(* At the end of the body everything has left the stream's buffer, and an end *)
(* that is reported as good has nothing coming after it, unless it is early.  *)
LEMMA EndOfBodyKeepsIInv ==
    ASSUME IInv, EndOfBody
    PROVE  IInv'
<1> USE DEF IInv
<1>1. PICK cleanly \in BOOLEAN :
         /\ result' = ReportOf(cleanly)
         /\ \/ /\ kept' = Size
               /\ trouble' = trouble \union Early(cleanly)
               /\ UNCHANGED file
            \/ /\ kept < Size
               /\ \E n \in kept .. Size - 1 : file' = SubSeq(file, 1, n)
               /\ kept' = Len(file')
               /\ trouble' = trouble \union Early(cleanly) \union {"disk"}
  BY DEF EndOfBody, Returns
<1>2. /\ pc = "body" /\ pc' = "idle" /\ coming' = <<>>
      /\ UNCHANGED <<version, good>>
  BY DEF EndOfBody, Returns
<1>3. Kinds'
  <2>1. CASE kept' = Size /\ UNCHANGED file
    <3>1. Size' = Size /\ Size \in Nat
      BY <2>1, SizeIs DEF Size
    <3> QED
      BY <1>2, <2>1, <3>1, NothingIsASequence DEF Kinds
  <2>2. CASE /\ kept < Size /\ kept' = Len(file')
             /\ \E n \in kept .. Size - 1 : file' = SubSeq(file, 1, n)
    <3>1. PICK n \in kept .. Size - 1 : file' = SubSeq(file, 1, n)
      BY <2>2
    <3>2. file # NoFile /\ file \in Seq(Blocks) /\ n \in 0 .. Len(file)
      BY <2>2, SizeIs DEF Kinds
    <3>3. file' \in Seq(Blocks) /\ Len(file') = n /\ file' # NoFile
      BY <3>1, <3>2, CutInTwo, DownloadAssumption
    <3>4. Size' = kept' /\ kept' \in 0 .. Size'
      BY <2>2, <3>2, <3>3 DEF Size
    <3> QED
      BY <1>2, <3>3, <3>4, NothingIsASequence DEF Kinds
  <2> QED
    BY <1>1, <2>1, <2>2
<1>4. InStep'
  <2> SUFFICES ASSUME trouble' = {}
               PROVE  /\ file # NoFile => Len(file) <= Length /\ Continues(0, file)'
                      /\ result' = "true" => file # NoFile /\ Len(file) = Length
    <3>1. trouble' = {} => UNCHANGED file
      BY <1>1
    <3> QED
      BY <1>2, <3>1 DEF InStep
  <2>1. trouble = {} /\ Early(cleanly) = {} /\ UNCHANGED file
    BY <1>1
  <2>2. file # NoFile => Len(file) <= Length /\ Continues(0, file)'
    BY <1>2, <2>1 DEF InStep, Continues
  <2>3. ASSUME result' = "true"
        PROVE  file # NoFile /\ Len(file) = Length
    <3>1. coming = <<>>
      BY <1>1, <2>1, <2>3 DEF ReportOf, Early
    <3>2. file # NoFile /\ file \in Seq(Blocks) /\ Len(file) + Len(coming) = Length
      BY <1>2, <2>1 DEF InStep, Kinds
    <3> QED
      BY <3>1, <3>2
  <2> QED
    BY <2>2, <2>3
<1> QED
  BY <1>2, <1>3, <1>4 DEF BarInv

(* A crash leaves a beginning of the file. *)
LEMMA CrashKeepsIInv ==
    ASSUME IInv, Crash
    PROVE  IInv'
<1> USE DEF IInv
<1>1. /\ pc' = "idle" /\ coming' = <<>> /\ result' = "none"
      /\ UNCHANGED <<version, kept, good, trouble>>
  BY DEF Crash
<1>2. CASE file' = file
  <2>1. Size' = Size /\ Continues(0, file)' = Continues(0, file)
    BY <1>1, <1>2 DEF Size, Continues
  <2>2. Kinds'
    <3>1. kept' = Size'
      <4>1. Size \in Nat /\ kept \in 0 .. Size /\ (Size > kept => SubSeq(file, 1, kept) = file)
        BY <1>2, SizeIs DEF Crash, Kinds
      <4>2. ASSUME Size > kept
            PROVE  FALSE
        <5>1. file \in Seq(Blocks) /\ Size = Len(file) /\ kept \in 0 .. Len(file)
          BY <4>1, <4>2, SizeIs
        <5>2. Len(SubSeq(file, 1, kept)) = kept
          BY <5>1, CutInTwo
        <5> QED
          BY <4>1, <4>2, <5>1, <5>2
      <4> QED
        BY <1>1, <2>1, <4>1, <4>2
    <3>2. kept' \in 0 .. Size'
      BY <2>1, <3>1, SizeIs
    <3> QED
      BY <1>1, <1>2, <3>1, <3>2, NothingIsASequence DEF Kinds
  <2> QED
    BY <1>1, <1>2, <2>1, <2>2 DEF InStep, BarInv
<1>3. CASE file' # file
  <2>1. file' = SubSeq(file, 1, kept) /\ Size > kept
    BY <1>3 DEF Crash
  <2>2. file # NoFile /\ file \in Seq(Blocks) /\ Size = Len(file) /\ kept \in 0 .. Len(file)
    BY <2>1, SizeIs DEF Kinds
  <2>3. /\ file' \in Seq(Blocks) /\ Len(file') = kept /\ file' # NoFile
        /\ \A k \in 1 .. kept : file'[k] = file[k]
    BY <2>1, <2>2, CutInTwo, DownloadAssumption
  <2>4. Kinds'
    <3>1. Size' = kept' /\ kept' \in 0 .. Size'
      BY <1>1, <2>2, <2>3 DEF Size
    <3> QED
      BY <1>1, <2>3, <3>1, NothingIsASequence DEF Kinds
  <2>5. ASSUME trouble' = {}
        PROVE  Len(file') <= Length /\ Continues(0, file)'
    <3>1. Len(file) <= Length /\ Continues(0, file)
      BY <1>1, <2>2, <2>5 DEF InStep
    <3>2. \A k \in 1 .. kept : k \in 1 .. Len(file)
      BY <2>2
    <3> QED
      BY <1>1, <2>2, <2>3, <3>1, <3>2, DownloadAssumption DEF Continues
  <2> QED
    BY <1>1, <2>4, <2>5 DEF InStep, BarInv
<1> QED
  BY <1>2, <1>3

LEMMA ReplacedKeepsIInv ==
    ASSUME IInv, Replaced
    PROVE  IInv'
<1> USE DEF IInv
<1>1. /\ version' = version + 1 /\ version < MaxVersion
      /\ UNCHANGED <<file, kept, good, pc, coming, bar, result>>
      /\ trouble' = IF Size > 0 \/ pc # "idle" THEN trouble \union {"replaced"} ELSE trouble
  BY DEF Replaced, disk, answer
<1>2. Kinds' /\ BarInv'
  <2>1. version' \in 0 .. MaxVersion
    BY <1>1, DownloadAssumption DEF Kinds
  <2> QED
    BY <1>1, <2>1 DEF Kinds, Size, BarInv
<1>3. InStep'
  <2> SUFFICES ASSUME trouble' = {}
               PROVE  InStep'
    BY DEF InStep
  <2>1. Size = 0 /\ pc = "idle" /\ trouble = {}
    <3>1. Size \in Nat
      BY SizeIs
    <3>2. ~(Size > 0) /\ pc = "idle" /\ trouble = {}
      BY <1>1
    <3> QED
      BY <3>1, <3>2
  <2>2. CASE file = NoFile
    BY <1>1, <2>1, <2>2 DEF InStep
  <2>3. CASE file # NoFile
    <3>1. Len(file) = 0 /\ Len(file) <= Length /\ Len(file) # Length
      BY <2>1, <2>3, SizeIs, DownloadAssumption
    <3>2. Continues(0, file)'
      BY <1>1, <3>1 DEF Continues
    <3> QED
      BY <1>1, <2>1, <2>3, <3>1, <3>2 DEF InStep
  <2> QED
    BY <2>2, <2>3
<1> QED
  BY <1>2, <1>3

LEMMA StepKeepsIInv == IInv /\ [Next]_vars => IInv'
<1> SUFFICES ASSUME IInv, [Next]_vars
             PROVE  IInv'
  OBVIOUS
<1>1. CASE UNCHANGED vars
  <2>1. UNCHANGED <<version, file, kept, good, pc, coming, bar, result, trouble>>
    BY <1>1 DEF vars, disk, answer
  <2> QED
    BY <2>1 DEF IInv, Kinds, InStep, Continues, BarInv, Size
<1> QED
  BY <1>1, DownloadFileKeepsIInv, FirstResponseKeepsIInv, RangeResponseKeepsIInv,
     ReadBodyKeepsIInv, EndOfBodyKeepsIInv, CrashKeepsIInv, ReplacedKeepsIInv DEF Next

LEMMA Invariance == Spec => []IInv
<1>1. Init => IInv
  BY InitHolds
<1>2. IInv /\ [Next]_vars => IInv'
  BY StepKeepsIInv
<1> QED
  BY <1>1, <1>2, PTL DEF Spec
-----------------------------------------------------------------------------
(* Without trouble the local file is a beginning of the remote one, for a     *)
(* file of any length, any number of calls, and a crash or a connection that  *)
(* breaks off wherever it may (DownloadMgr.cpp:178-181, 144, 294).            *)
THEOREM LocalFileIsABeginning == Spec => []LocalIsPrefix
<1>1. ASSUME IInv
      PROVE  LocalIsPrefix
  <2> SUFFICES ASSUME trouble = {}, file # NoFile
               PROVE  IsPrefix(file, Remote)
    BY DEF LocalIsPrefix
  <2>1. /\ file \in Seq(Blocks) /\ Len(file) <= Length
        /\ \A k \in 1 .. Len(file) : file[k] = <<version, k>>
    BY <1>1 DEF IInv, Kinds, InStep, Continues
  <2>2. Remote \in Seq(Blocks) /\ Len(Remote) = Length
        /\ \A k \in 1 .. Length : Remote[k] = <<version, k>>
    BY <1>1, RemoteIsInStep, DownloadAssumption DEF IInv, Kinds, Remote
  <2>3. Len(file) \in Nat /\ Length \in Nat
    BY <2>1, DownloadAssumption
  <2>4. \A k \in 1 .. Len(file) : file[k] = Remote[k]
    BY <2>1, <2>2, <2>3
  <2> QED
    BY <2>1, <2>2, <2>3, <2>4 DEF IsPrefix
<1> QED
  BY <1>1, Invariance, PTL

(* A call that returns true without trouble has the whole file, however many  *)
(* calls, crashes and broken connections it took to get it                    *)
(* (DownloadMgr.cpp:215-221, 273-277).                                        *)
THEOREM SuccessMeansTheWholeFile == Spec => []SuccessIsComplete
<1>1. ASSUME IInv
      PROVE  SuccessIsComplete
  <2> SUFFICES ASSUME trouble = {}, pc = "idle", result = "true"
               PROVE  file = Remote
    BY DEF SuccessIsComplete
  <2>1. /\ file \in Seq(Blocks) /\ Len(file) = Length
        /\ \A k \in 1 .. Length : file[k] = <<version, k>>
    BY <1>1 DEF IInv, Kinds, InStep, Continues
  <2>2. Remote \in Seq(Blocks) /\ Len(Remote) = Length
        /\ \A k \in 1 .. Length : Remote[k] = <<version, k>>
    BY <1>1, RemoteIsInStep, DownloadAssumption DEF IInv, Kinds, Remote
  <2>3. \A k \in 1 .. Length : file[k] = Remote[k]
    BY <2>1, <2>2
  <2> QED
    BY <2>1, <2>2, <2>3, SeqEqual
<1> QED
  BY <1>1, Invariance, PTL

(* The bar has drawn or collected exactly what was read, whenever the updates *)
(* come, and only the last block of a download from the start fills it        *)
(* (ProgressBar.cpp:40-41, 97-114, 151-161; DownloadMgr.cpp:197, 207).        *)
THEOREM BarIsRight == Spec => []BarCountsWhatCame
<1>1. ASSUME IInv
      PROVE  BarCountsWhatCame
  <2>1. coming \in Seq(Blocks) /\ Len(coming) \in Nat
    BY <1>1 DEF IInv, Kinds
  <2> QED
    BY <1>1, <2>1 DEF IInv, BarInv, BarCountsWhatCame
<1> QED
  BY <1>1, Invariance, PTL

(* Where the server can continue, no call and no crash takes away a block     *)
(* that an earlier call has fetched, whatever the server, the network and the *)
(* disk do (DownloadMgr.cpp:178, 289).                                        *)
THEOREM NothingFetchedIsLost == Spec => ResumeLosesNothing
<1>1. ASSUME IInv, [Next]_vars, ranges = "bytes", file # NoFile, pc # "body"
      PROVE  IsPrefix(file, file')
  <2>1. file \in Seq(Blocks) /\ Size = Len(file) /\ kept = Size
    BY <1>1, SizeIs DEF IInv, Kinds
  <2>2. ASSUME file' = file
        PROVE  IsPrefix(file, file')
    <3>1. Len(file) \in Nat /\ Len(file) <= Len(file')
      BY <2>1, <2>2
    <3>2. \A k \in 1 .. Len(file) : file[k] = file'[k]
      BY <2>2
    <3> QED
      BY <2>1, <2>2, <3>1, <3>2 DEF IsPrefix
  <2>3. ASSUME RangeResponse
        PROVE  IsPrefix(file, file')
    <3>1. ASSUME NEW body \in Seq(Blocks), NEW problems,
                 WriteDataToFile(body, Size, problems)
          PROVE  IsPrefix(file, file')
      <4>1. OpenedFor(Size) = file
        <5>1. CASE Size > 0
          BY <5>1 DEF OpenedFor
        <5>2. CASE ~(Size > 0)
          BY <2>1, <5>2 DEF OpenedFor
        <5> QED
          BY <5>1, <5>2
      <4>2. CASE file' = file
        BY <2>2, <4>2
      <4>3. ASSUME NEW n \in 0 .. Len(body), file' = file \o SubSeq(body, 1, n)
            PROVE  IsPrefix(file, file')
        <5>1. SubSeq(body, 1, n) \in Seq(Blocks)
          BY CutInTwo
        <5>2. /\ Len(file') = Len(file) + Len(SubSeq(body, 1, n))
              /\ \A k \in 1 .. Len(file) : file'[k] = file[k]
          BY <2>1, <4>3, <5>1, Joined
        <5>3. Len(file) <= Len(file') /\ file' \in Seq(Blocks)
          BY <2>1, <4>3, <5>1, <5>2
        <5> QED
          BY <2>1, <5>2, <5>3 DEF IsPrefix
      <4> QED
        BY <3>1, <4>1, <4>2, <4>3 DEF WriteDataToFile
    <3>2. /\ Remote \in Seq(Blocks) /\ <<Page>> \in Seq(Blocks)
          /\ RangeStart(Size) < Length => Rest(RangeStart(Size)) \in Seq(Blocks)
      <4>1. RangeStart(Size) < Length => Size \in 0 .. Length
        BY <2>1, DownloadAssumption DEF RangeStart
      <4> QED
        BY <1>1, <4>1, RemoteIsInStep, PageIsASequence DEF IInv, Kinds, RangeStart
    <3>3. CASE NoResponse
      BY <2>2, <3>3 DEF NoResponse, disk
    <3> QED
      BY <2>3, <3>1, <3>2, <3>3 DEF RangeResponse
  <2>4. ASSUME FirstResponse
        PROVE  file' = file
    BY <1>1, <2>4 DEF FirstResponse, HandleFirst, NoResponse, disk
  <2>5. ASSUME Crash
        PROVE  file' = file
    BY <2>1, <2>5 DEF Crash
  <2>6. ASSUME DownloadFile \/ Reconnect \/ Replaced \/ UNCHANGED vars
        PROVE  file' = file
    BY <2>6 DEF DownloadFile, Reconnect, Replaced, vars, disk
  <2>7. ~ReadBody /\ ~EndOfBody
    BY <1>1 DEF ReadBody, EndOfBody
  <2> QED
    BY <1>1, <2>2, <2>3, <2>4, <2>5, <2>6, <2>7 DEF Next
<1> QED
  BY <1>1, Invariance, PTL DEF Spec, ResumeLosesNothing
=============================================================================
