-------------------------- MODULE LineFetchProofs --------------------------
(***************************************************************************)
(* Proofs about LineFetch, for every size of row, line and piece, every    *)
(* set of lines and pieces, and any pace of the controller.                *)
(***************************************************************************)
EXTENDS LineFetch, TLAPS

-----------------------------------------------------------------------------
(* The types that the arguments below need.                                 *)
LineTypeOK ==
    /\ fill_sel \in {0, 1} /\ show_sel = 1 - fill_sel
    /\ geom \in Lines /\ seg \in Lines
    /\ fst \in {"idle", "seg1", "seg2"} /\ seg1_words \in Nat
    /\ bsel \in {"display", "rows"}
    /\ srt \in {"IDLE", "SRT_BURST", "SRT_BURST_WAIT", "SRT_BURST_GAP"}
    /\ vb_cmd \in Burst /\ sb_cmd \in Burst
    /\ port \in [busy : BOOLEAN, cmd : Burst, k : Nat]
    /\ b_idx \in Nat /\ b_data \in Int
    /\ lbuf \in [{0, 1} -> [0 .. LineWords - 1 -> Int]]
    /\ rowbuf \in [0 .. MaxPiece - 1 -> Int]

(* A grant belongs to a master that keeps asking, ...                       *)
GrantAsked == bbusy => b_req

(* ... one burst is served under it, the one asked for, and it is over when *)
(* that burst is.                                                           *)
OneBurst ==
    /\ port.busy => bbusy /\ b_accepted /\ ~b_done /\ port.cmd = b_cmd /\ port.k <= port.cmd.len
    /\ b_done => bbusy /\ b_accepted
    /\ bbusy /\ b_accepted => port.busy \/ b_done

(* A word on the port is the last one the burst has got to.                 *)
WordInOrder ==
    b_wr => /\ port.busy /\ ~port.cmd.we /\ port.k > 0
            /\ b_idx = port.k - 1 /\ b_data = port.cmd.addr + b_idx

(* What the two masters ask for while they ask.                             *)
DisplayAsks ==
    /\ fst = "idle" => ~vb_req
    /\ fst = "seg1" /\ vb_req => vb_cmd = Seg1 /\ seg1_words = seg1_len
    /\ fst = "seg2" => need_second /\ seg1_words = seg1_len
    /\ fst = "seg2" /\ vb_req => vb_cmd = Seg2
RowsAsks ==
    /\ sb_req <=> srt = "SRT_BURST_WAIT"
    /\ sb_req => sb_cmd \in Pieces

(* The words of a burst that have left the port for a buffer.               *)
Landed == IF b_done THEN b_cmd.len
          ELSE IF ~port.busy THEN 0
          ELSE IF b_wr THEN port.k - 1 ELSE port.k

(* The row engine's buffer holds what has landed of its piece.              *)
PieceSoFar ==
    bbusy /\ bsel = "rows" /\ ~sb_cmd.we =>
        \A k \in 0 .. Landed - 1 : rowbuf[k] = sb_cmd.addr + k

(* The first n words of a line are in a buffer.                             *)
Word(line, k) == (line.row * RowWords) + ((line.start + k) % RowWords)
Holds(buf, line, n) == \A k \in 0 .. LineWords - 1 : k < n => buf[k] = Word(line, k)

(* The words of the line being fetched that have landed.                    *)
Fetched == (IF fst = "seg2" THEN seg1_words ELSE 0)
             + (IF bbusy /\ bsel = "display" THEN Landed ELSE 0)

(* A fetch that the next line has not overtaken fills the buffer of the     *)
(* line that was set up for it, and leaves it whole.                        *)
FilledSoFar ==
    ~fetch_pending =>
        /\ fetch_busy => seg = geom /\ Holds(lbuf[fill_sel], geom, Fetched)
        /\ ~fetch_busy /\ next_visible => Holds(lbuf[fill_sel], geom, LineWords)

(* A display that a piece went before is next.                              *)
DisplayNext == /\ passed \in 0 .. 1
               /\ passed = 1 => ~(bbusy /\ bsel = "rows")

LineInv ==
    /\ LineTypeOK /\ GrantAsked /\ OneBurst /\ WordInOrder /\ DisplayAsks /\ RowsAsks
    /\ PieceSoFar /\ FilledSoFar /\ ShownLineTrue /\ DisplayNext

-----------------------------------------------------------------------------
(* Segments.                                                                *)

LEMMA SegmentFacts ==
  ASSUME seg \in Lines
  PROVE  /\ ToRowEnd \in 1 .. RowWords /\ seg1_len \in 1 .. LineWords
         /\ need_second => seg1_len = ToRowEnd /\ LineWords - ToRowEnd \in 1 .. LineWords
         /\ ~need_second => seg1_len = LineWords
         /\ seg.row * RowWords \in Nat /\ seg.start \in Nat
         /\ RowWords \in Nat \ {0} /\ LineWords \in 1 .. RowWords
<1>1. /\ seg.row \in Nat /\ seg.start \in 0 .. RowWords - 1
      /\ RowWords \in Nat \ {0} /\ LineWords \in 1 .. RowWords
  BY LineAssumption
<1>2. seg.row * RowWords \in Nat
  BY <1>1
<1> QED
  BY <1>1, <1>2 DEF ToRowEnd, seg1_len, need_second

LEMMA SegmentBursts ==
  ASSUME seg \in Lines
  PROVE  /\ Seg1 \in Burst /\ Seg1.len = seg1_len /\ ~Seg1.we
         /\ Seg1.addr = (seg.row * RowWords) + seg.start
         /\ need_second => Seg2 \in Burst
         /\ Seg2.len = LineWords - ToRowEnd /\ ~Seg2.we
         /\ Seg2.addr = seg.row * RowWords
<1> DEFINE base == seg.row * RowWords
<1>1. base \in Nat /\ base + seg.start \in Nat
  BY SegmentFacts
<1>2. /\ seg1_len \in Nat \ {0}
      /\ need_second => LineWords - ToRowEnd \in Nat \ {0}
  BY SegmentFacts
<1> QED
  BY <1>1, <1>2 DEF Seg1, Seg2, Burst

(* The k-th word of a burst is the word of the line that its place in the   *)
(* buffer stands for.                                                       *)
LEMMA FirstWords ==
  ASSUME seg \in Lines, NEW k \in Nat, k < seg1_len
  PROVE  Seg1.addr + k = Word(seg, k)
<1> DEFINE base == seg.row * RowWords
<1>1. base \in Nat /\ seg.start \in Nat /\ seg.start + k \in 0 .. RowWords - 1
      /\ RowWords \in Nat \ {0}
  BY SegmentFacts DEF ToRowEnd, seg1_len, need_second
<1>2. (seg.start + k) % RowWords = seg.start + k
  BY <1>1
<1>3. Seg1.addr = base + seg.start
  BY SegmentBursts
<1>4. Word(seg, k) = base + (seg.start + k)
  BY <1>2 DEF Word
<1> HIDE DEF base
<1> QED
  BY <1>1, <1>3, <1>4

LEMMA WrappedWords ==
  ASSUME seg \in Lines, need_second, NEW k \in Nat, k < LineWords - ToRowEnd
  PROVE  Seg2.addr + k = Word(seg, seg1_len + k)
<1> DEFINE base == seg.row * RowWords
<1>1. /\ base \in Nat /\ seg.start \in Nat /\ k \in 0 .. RowWords - 1
      /\ seg1_len = RowWords - seg.start /\ RowWords \in Nat \ {0}
  BY SegmentFacts DEF ToRowEnd
<1>2. seg.start + (seg1_len + k) = RowWords + k
  BY <1>1
<1>3. (RowWords + k) % RowWords = k
  BY <1>1
<1>4. Seg2.addr = base
  BY SegmentBursts
<1>5. Word(seg, seg1_len + k) = base + k
  BY <1>2, <1>3 DEF Word
<1> QED
  BY <1>4, <1>5

-----------------------------------------------------------------------------
(* The port, the arbiter and its two masters in one step: the grant ends,   *)
(* lasts, or there is none.                                                 *)

LEMMA NextSplit ==
  ASSUME Next
  PROVE  Sdram /\ Arbiter /\ History /\ Rows /\ Video
BY DEF Next

LEMMA DisplayKeeps ==
  ASSUME LineTypeOK, DisplayAsks, Next, vb_req, ~vb_done
  PROVE  /\ vb_req' /\ fst # "idle" /\ fst' = fst /\ seg' = seg
         /\ vb_cmd' = vb_cmd /\ seg1_words' = seg1_words
<1>1. FetchIdle \/ FetchBegins \/ FirstSegment \/ SecondSegment
  BY NextSplit DEF Video
<1>2. fst # "idle"
  BY DEF DisplayAsks
<1>3. FirstSegment \/ SecondSegment
  BY <1>1, <1>2 DEF FetchIdle, FetchBegins
<1> QED
  BY <1>2, <1>3 DEF FirstSegment, SecondSegment, DisplayAsks

LEMMA RowsKeep ==
  ASSUME RowsAsks, Next, sb_req, ~sb_done
  PROVE  sb_req' /\ srt = "SRT_BURST_WAIT" /\ srt' = srt /\ sb_cmd' = sb_cmd
BY NextSplit DEF RowsAsks, Rows, RowsIdle, RowsAsk, RowsWait, RowsGap

LEMMA GrantEnds ==
  ASSUME LineTypeOK, GrantAsked, OneBurst, WordInOrder, Next, b_done
  PROVE  /\ ~bbusy' /\ port' = port /\ ~port.busy /\ ~b_wr /\ ~b_wr' /\ ~b_done'
         /\ bsel = "display" => vb_done
         /\ bsel = "rows" => sb_done
<1>1. bbusy /\ ~port.busy /\ ~b_wr
  BY DEF OneBurst, WordInOrder
<1>2. Pauses
  BY <1>1, NextSplit DEF Sdram, Accept, AcceptBurst, NextWord, Finishes
<1> QED
  BY <1>1, <1>2, NextSplit DEF Arbiter, Pauses, Silent, NoWrite, vb_done, sb_done

LEMMA NoGrant ==
  ASSUME LineTypeOK, OneBurst, WordInOrder, Next, ~bbusy
  PROVE  /\ port' = port /\ ~port.busy /\ ~b_wr /\ ~b_wr' /\ ~b_done /\ ~b_done' /\ ~b_accepted'
         /\ ~vb_done /\ ~sb_done
         /\ bbusy' => IF vb_req THEN bsel' = "display" ELSE sb_req /\ bsel' = "rows"
<1>1. ~port.busy /\ ~b_wr /\ ~b_done /\ ~b_req
  BY DEF OneBurst, WordInOrder, b_req
<1>2. Pauses /\ ~b_accepted'
  BY <1>1, NextSplit DEF Sdram, Accept, AcceptBurst, NextWord, Finishes
<1>3. bbusy' => IF vb_req THEN bsel' = "display" ELSE sb_req /\ bsel' = "rows"
  <2>1. \/ vb_req /\ bsel' = "display"
        \/ ~vb_req /\ sb_req /\ bsel' = "rows"
        \/ bbusy' = bbusy
    BY NextSplit DEF Arbiter, arbiter
  <2> QED
    BY <2>1
<1> QED
  BY <1>1, <1>2, <1>3 DEF Pauses, Silent, NoWrite, vb_done, sb_done

LEMMA GrantLasts ==
  ASSUME LineTypeOK, GrantAsked, DisplayAsks, RowsAsks, Next, bbusy, ~b_done
  PROVE  /\ bbusy' /\ bsel' = bsel /\ b_req /\ b_req' /\ b_cmd' = b_cmd
         /\ ~vb_done /\ ~sb_done
<1>1. bbusy' /\ bsel' = bsel /\ b_req /\ ~vb_done /\ ~sb_done
  BY NextSplit DEF Arbiter, GrantAsked, vb_done, sb_done
<1>2. CASE bsel = "display"
  BY <1>1, <1>2, DisplayKeeps DEF b_req, b_cmd
<1>3. CASE bsel = "rows"
  BY <1>1, <1>3, RowsKeep DEF b_req, b_cmd
<1> QED
  BY <1>2, <1>3 DEF LineTypeOK

(* What the controller does with a grant that lasts.                        *)
LEMMA PortMoves ==
  ASSUME LineTypeOK, GrantAsked, OneBurst, DisplayAsks, RowsAsks, Next, bbusy, ~b_done
  PROVE  /\ b_accepted'
         /\ \/ /\ ~port.busy /\ port' = [busy |-> TRUE, cmd |-> b_cmd, k |-> 0]
               /\ ~b_wr' /\ ~b_done'
            \/ port.busy /\ port' = port /\ ~b_wr' /\ ~b_done'
            \/ NextWord
            \/ Finishes
<1>1. b_req
  BY GrantLasts
<1>2. CASE port.busy
  BY <1>1, <1>2, NextSplit DEF OneBurst, Sdram, Accept, AcceptBurst, Pauses, Silent, NoWrite
<1>3. CASE ~port.busy
  <2>1. AcceptBurst
    BY <1>1, <1>3 DEF OneBurst, AcceptBurst
  <2> QED
    BY <1>1, <1>3, <2>1, NextSplit
       DEF Sdram, Accept, Pauses, NextWord, Finishes, Silent, NoWrite
<1> QED
  BY <1>2, <1>3

-----------------------------------------------------------------------------
(* The protocol of the port is kept.                                        *)

LEMMA PortTypes ==
  ASSUME LineTypeOK, Next
  PROVE  /\ port' \in [busy : BOOLEAN, cmd : Burst, k : Nat]
         /\ b_idx' \in Nat /\ b_data' \in Int
<1> USE DEF LineTypeOK
<1>1. b_cmd \in Burst
  BY DEF b_cmd
<1>2. NoBurst \in Burst
  BY DEF NoBurst, Burst
<1>3. b_idx' \in Nat /\ b_data' \in Int
  <2>1. port.k \in Nat /\ port.cmd.addr + port.k \in Int
    BY DEF Burst
  <2>2. NoWrite \/ (b_idx' = port.k /\ b_data' = port.cmd.addr + port.k)
    BY NextSplit DEF Sdram, Accept, Pauses, NextWord, Finishes, Silent
  <2> QED
    BY <2>1, <2>2 DEF NoWrite, NoWord
<1>4. port' \in [busy : BOOLEAN, cmd : Burst, k : Nat]
  <2>1. CASE Accept
    BY <1>1, <2>1 DEF Accept
  <2>2. CASE Pauses
    BY <2>2 DEF Pauses
  <2>3. CASE NextWord
    BY <2>3 DEF NextWord
  <2>4. CASE Finishes
    BY <1>2, <2>4 DEF Finishes, IdlePort
  <2> QED
    BY <2>1, <2>2, <2>3, <2>4, NextSplit DEF Sdram
<1> QED
  BY <1>3, <1>4

LEMMA BufferStep ==
  ASSUME LineTypeOK, Next
  PROVE  /\ lbuf' \in [{0, 1} -> [0 .. LineWords - 1 -> Int]]
         /\ rowbuf' \in [0 .. MaxPiece - 1 -> Int]
         /\ lbuf'[show_sel] = lbuf[show_sel]
         /\ ~(b_wr /\ bsel = "display") => lbuf' = lbuf
         /\ b_wr /\ bsel = "display" =>
               \A k \in 0 .. LineWords - 1 :
                   lbuf'[fill_sel][k] = IF k = widx THEN b_data ELSE lbuf[fill_sel][k]
<1> USE DEF LineTypeOK
<1>1. FillLine /\ FillRow
  BY NextSplit DEF Video, Rows
<1>2. rowbuf' \in [0 .. MaxPiece - 1 -> Int]
  <2>1. [k \in 0 .. MaxPiece - 1 |-> NoWord] \in [0 .. MaxPiece - 1 -> Int]
    BY DEF NoWord
  <2>2. DOMAIN rowbuf = 0 .. MaxPiece - 1
    OBVIOUS
  <2>3. [rowbuf EXCEPT ![b_idx] = b_data] \in [0 .. MaxPiece - 1 -> Int]
    OBVIOUS
  <2>4. \/ rowbuf' = [k \in 0 .. MaxPiece - 1 |-> NoWord]
        \/ rowbuf' = [rowbuf EXCEPT ![b_idx] = b_data]
        \/ rowbuf' = rowbuf
    BY <1>1, <2>2 DEF FillRow
  <2> QED
    BY <2>1, <2>3, <2>4
<1>3. ~(b_wr /\ bsel = "display") => lbuf' = lbuf
  BY <1>1 DEF FillLine
<1>4. CASE b_wr /\ bsel = "display"
  <2> DEFINE line == [k \in 0 .. LineWords - 1 |->
                         IF k = widx THEN b_data ELSE lbuf[fill_sel][k]]
  <2>1. DOMAIN lbuf[fill_sel] = 0 .. LineWords - 1 /\ lbuf[fill_sel] \in [0 .. LineWords - 1 -> Int]
    OBVIOUS
  <2>2. lbuf' = [lbuf EXCEPT ![fill_sel] = line]
    BY <1>1, <1>4, <2>1 DEF FillLine
  <2>3. line \in [0 .. LineWords - 1 -> Int]
    BY <2>1
  <2>4. \A k \in 0 .. LineWords - 1 : line[k] = IF k = widx THEN b_data ELSE lbuf[fill_sel][k]
    OBVIOUS
  <2> HIDE DEF line
  <2>5. lbuf' \in [{0, 1} -> [0 .. LineWords - 1 -> Int]] /\ lbuf'[fill_sel] = line
        /\ lbuf'[show_sel] = lbuf[show_sel]
    BY <2>2, <2>3
  <2> QED
    BY <1>2, <1>4, <2>4, <2>5
<1> QED
  BY <1>2, <1>3, <1>4

LEMMA TypesKept ==
  ASSUME LineTypeOK, DisplayAsks, Next
  PROVE  LineTypeOK'
<1> USE DEF LineTypeOK
<1>1. fill_sel' \in {0, 1} /\ show_sel' = 1 - fill_sel' /\ geom' \in Lines
  <2>1. CASE LineStart
    BY <2>1 DEF LineStart
  <2>2. CASE SameLine
    BY <2>2 DEF SameLine
  <2> QED
    BY <2>1, <2>2, NextSplit DEF Video
<1>2. seg1_len \in Nat /\ Seg1 \in Burst /\ (fst = "seg2" => Seg2 \in Burst)
  BY SegmentFacts, SegmentBursts DEF DisplayAsks
<1>3. /\ seg' \in Lines /\ fst' \in {"idle", "seg1", "seg2"}
      /\ seg1_words' \in Nat /\ vb_cmd' \in Burst
  BY <1>2, NextSplit DEF Video, FetchIdle, FetchBegins, FirstSegment, SecondSegment
<1>4. bsel' \in {"display", "rows"}
  BY NextSplit DEF Arbiter, arbiter
<1>5. Pieces \subseteq Burst
  <2>1. 1 .. MaxPiece \subseteq Nat \ {0}
    BY LineAssumption
  <2> QED
    BY <2>1, LineAssumption DEF Burst
<1>6. srt' \in {"IDLE", "SRT_BURST", "SRT_BURST_WAIT", "SRT_BURST_GAP"} /\ sb_cmd' \in Burst
  BY <1>5, NextSplit DEF Rows, RowsIdle, RowsAsk, RowsWait, RowsGap
<1> QED
  BY <1>1, <1>3, <1>4, <1>6, PortTypes, BufferStep

LEMMA AskedKept ==
  ASSUME LineTypeOK, GrantAsked, OneBurst, WordInOrder, DisplayAsks, RowsAsks, Next
  PROVE  GrantAsked'
<1>1. CASE bbusy /\ b_done
  BY <1>1, GrantEnds DEF GrantAsked
<1>2. CASE bbusy /\ ~b_done
  BY <1>2, GrantLasts DEF GrantAsked
<1>3. CASE ~bbusy
  <2>1. vb_req => vb_req'
    BY <1>3, NoGrant, DisplayKeeps
  <2>2. sb_req => sb_req'
    BY <1>3, NoGrant, RowsKeep
  <2> QED
    BY <1>3, <2>1, <2>2, NoGrant DEF GrantAsked, b_req
<1> QED
  BY <1>1, <1>2, <1>3

LEMMA OneBurstKept ==
  ASSUME LineTypeOK, GrantAsked, OneBurst, WordInOrder, DisplayAsks, RowsAsks, Next
  PROVE  OneBurst'
<1>1. CASE bbusy /\ b_done
  BY <1>1, GrantEnds DEF OneBurst
<1>2. CASE bbusy /\ ~b_done
  <2>1. bbusy' /\ b_accepted' /\ b_cmd' = b_cmd
    BY <1>2, GrantLasts, PortMoves
  <2>2. port.k \in Nat /\ port.cmd.len \in Nat /\ b_cmd.len \in Nat
    BY DEF LineTypeOK, Burst, b_cmd
  <2>3. CASE ~port.busy /\ port' = [busy |-> TRUE, cmd |-> b_cmd, k |-> 0] /\ ~b_done'
    BY <2>1, <2>2, <2>3 DEF OneBurst
  <2>4. CASE port.busy /\ port' = port /\ ~b_done'
    BY <2>1, <2>4 DEF OneBurst
  <2>5. CASE NextWord
    <3>1. /\ port'.busy /\ port'.cmd = port.cmd /\ port'.k = port.k + 1 /\ ~b_done'
          /\ port.busy /\ port.k < port.cmd.len
      BY <2>5 DEF NextWord, LineTypeOK
    <3> QED
      BY <2>1, <2>2, <3>1 DEF OneBurst
  <2>6. CASE Finishes
    BY <2>1, <2>6 DEF OneBurst, Finishes, IdlePort
  <2> QED
    BY <1>2, <2>3, <2>4, <2>5, <2>6, PortMoves
<1>3. CASE ~bbusy
  BY <1>3, NoGrant DEF OneBurst
<1> QED
  BY <1>1, <1>2, <1>3

LEMMA WordKept ==
  ASSUME LineTypeOK, GrantAsked, OneBurst, WordInOrder, DisplayAsks, RowsAsks, Next
  PROVE  WordInOrder'
<1>1. CASE ~bbusy \/ b_done \/ ~NextWord
  <2>1. ~b_wr'
    BY <1>1, GrantEnds, NoGrant, PortMoves DEF Finishes, NoWrite
  <2> QED
    BY <2>1 DEF WordInOrder
<1>2. CASE NextWord
  <2>1. /\ port'.busy /\ port'.cmd = port.cmd /\ port'.k = port.k + 1 /\ port.k \in Nat
        /\ port.cmd.addr \in Nat
    BY <1>2 DEF NextWord, LineTypeOK, Burst
  <2>2. ~b_wr' \/ (~port.cmd.we /\ b_idx' = port.k /\ b_data' = port.cmd.addr + port.k)
    BY <1>2 DEF NextWord, NoWrite
  <2>3. port'.k > 0 /\ port.k = port'.k - 1
    BY <2>1
  <2> QED
    BY <2>1, <2>2, <2>3 DEF WordInOrder
<1> QED
  BY <1>1, <1>2

LEMMA DisplayAsksKept ==
  ASSUME LineTypeOK, GrantAsked, OneBurst, WordInOrder, DisplayAsks, Next
  PROVE  DisplayAsks'
<1>1. CASE FetchIdle \/ FetchBegins
  BY <1>1 DEF FetchIdle, FetchBegins, DisplayAsks
<1>2. CASE FirstSegment
  <2>1. seg' = seg /\ vb_cmd' = Seg1 /\ seg1_words' = seg1_len /\ (vb_req' <=> ~vb_done)
        /\ fst' = IF ~vb_done THEN "seg1" ELSE IF need_second THEN "seg2" ELSE "idle"
    BY <1>2 DEF FirstSegment
  <2>2. Seg1' = Seg1 /\ seg1_len' = seg1_len /\ need_second' = need_second
    BY <2>1 DEF Seg1, seg1_len, need_second, ToRowEnd
  <2> QED
    BY <2>1, <2>2 DEF DisplayAsks
<1>3. CASE SecondSegment
  <2>1. /\ seg' = seg /\ vb_cmd' = Seg2 /\ seg1_words' = seg1_words /\ fst = "seg2"
        /\ fst' = (IF vb_done THEN "idle" ELSE "seg2") /\ (vb_req' <=> ~vb_done)
    BY <1>3 DEF SecondSegment
  <2>2. Seg2' = Seg2 /\ seg1_len' = seg1_len /\ need_second' = need_second
    BY <2>1 DEF Seg2, seg1_len, need_second, ToRowEnd
  <2> QED
    BY <2>1, <2>2 DEF DisplayAsks
<1> QED
  BY <1>1, <1>2, <1>3, NextSplit DEF Video

LEMMA RowsAsksKept ==
  ASSUME RowsAsks, Next
  PROVE  RowsAsks'
<1>1. RowsIdle \/ RowsAsk \/ RowsWait \/ RowsGap
  BY NextSplit DEF Rows
<1>2. CASE RowsIdle \/ RowsGap
  BY <1>2 DEF RowsAsks, RowsIdle, RowsGap
<1>3. CASE RowsAsk
  BY <1>3 DEF RowsAsks, RowsAsk
<1>4. CASE RowsWait
  BY <1>4 DEF RowsAsks, RowsWait
<1> QED
  BY <1>1, <1>2, <1>3, <1>4

-----------------------------------------------------------------------------
(* Words on their way.                                                      *)

(* While a grant to read lasts, a word on the port is the next to land, and *)
(* it lands.                                                                *)
LEMMA LandedStep ==
  ASSUME LineTypeOK, GrantAsked, OneBurst, WordInOrder, DisplayAsks, RowsAsks, Next,
         bbusy, ~b_done, ~b_cmd.we
  PROVE  /\ Landed' = IF b_wr THEN Landed + 1 ELSE Landed
         /\ b_wr => b_idx = Landed /\ b_data = b_cmd.addr + Landed /\ Landed < b_cmd.len
<1>1. b_cmd' = b_cmd
  BY GrantLasts
<1>2. /\ port.k \in Nat /\ port.cmd.len \in Nat
      /\ port.busy => port.cmd = b_cmd /\ port.k <= port.cmd.len
      /\ b_wr => port.busy /\ port.k > 0 /\ b_idx = port.k - 1 /\ b_data = port.cmd.addr + b_idx
  BY DEF LineTypeOK, Burst, OneBurst, WordInOrder
<1>3. b_wr => b_idx = Landed /\ b_data = b_cmd.addr + Landed /\ Landed < b_cmd.len
  BY <1>2 DEF Landed
<1>4. CASE ~port.busy /\ port' = [busy |-> TRUE, cmd |-> b_cmd, k |-> 0] /\ ~b_wr' /\ ~b_done'
  BY <1>2, <1>4 DEF Landed
<1>5. CASE port.busy /\ port' = port /\ ~b_wr' /\ ~b_done'
  BY <1>2, <1>5 DEF Landed
<1>6. CASE NextWord
  <2>1. /\ port.busy /\ port'.busy /\ port'.k = port.k + 1 /\ ~b_done'
    BY <1>6 DEF NextWord, LineTypeOK
  <2>2. b_wr'
    BY <1>2, <1>6, <2>1 DEF NextWord
  <2> QED
    BY <1>2, <1>3, <2>1, <2>2 DEF Landed
<1>7. CASE Finishes
  <2>1. port.busy /\ port.k = port.cmd.len /\ b_done'
    BY <1>7 DEF Finishes
  <2> QED
    BY <1>1, <1>2, <1>3, <2>1 DEF Landed
<1> QED
  BY <1>3, <1>4, <1>5, <1>6, <1>7, PortMoves

LEMMA NothingLanded ==
  ASSUME LineTypeOK, GrantAsked, OneBurst, WordInOrder, Next, ~bbusy
  PROVE  Landed' = 0
BY NoGrant DEF Landed

LEMMA PieceKept ==
  ASSUME LineTypeOK, GrantAsked, OneBurst, WordInOrder, DisplayAsks, RowsAsks, PieceSoFar, Next
  PROVE  PieceSoFar'
<1> SUFFICES ASSUME bbusy', bsel' = "rows", ~sb_cmd'.we, NEW k \in 0 .. Landed' - 1
             PROVE  rowbuf'[k] = sb_cmd'.addr + k
  BY DEF PieceSoFar
<1>1. CASE bbusy /\ b_done
  BY <1>1, GrantEnds
<1>2. CASE ~bbusy
  BY <1>2, NothingLanded
<1>3. CASE bbusy /\ ~b_done
  <2>1. bsel = "rows" /\ b_req /\ ~sb_done
    BY <1>3, GrantLasts
  <2>2. sb_req /\ b_cmd = sb_cmd
    BY <2>1 DEF b_req, b_cmd
  <2>3. srt = "SRT_BURST_WAIT" /\ sb_cmd' = sb_cmd /\ ~sb_cmd.we
    BY <2>1, <2>2, RowsKeep
  <2>4. rowbuf' = IF b_wr THEN [rowbuf EXCEPT ![b_idx] = b_data] ELSE rowbuf
    BY <2>1, <2>3, NextSplit DEF Rows, FillRow
  <2>5. sb_cmd.len \in 1 .. MaxPiece /\ sb_cmd.addr \in Nat /\ MaxPiece \in Nat
    BY <2>2, LineAssumption DEF RowsAsks
  <2>6. \A j \in 0 .. Landed - 1 : rowbuf[j] = sb_cmd.addr + j
    BY <1>3, <2>1, <2>3 DEF PieceSoFar
  <2>7. /\ Landed' = IF b_wr THEN Landed + 1 ELSE Landed
        /\ b_wr => b_idx = Landed /\ b_data = sb_cmd.addr + Landed /\ Landed < sb_cmd.len
    BY <1>3, <2>2, <2>3, LandedStep
  <2>8. Landed \in Int
    BY <2>2, <2>5 DEF Landed, LineTypeOK
  <2>9. CASE b_wr
    <3>1. b_idx \in Nat /\ b_idx = Landed /\ b_idx \in 0 .. MaxPiece - 1
      BY <2>5, <2>7, <2>8, <2>9 DEF LineTypeOK
    <3>2. DOMAIN rowbuf = 0 .. MaxPiece - 1
      BY DEF LineTypeOK
    <3>3. CASE k = b_idx
      BY <2>3, <2>4, <2>7, <2>9, <3>1, <3>2, <3>3
    <3>4. CASE k # b_idx
      <4>1. k \in 0 .. Landed - 1
        BY <2>7, <2>8, <2>9, <3>1, <3>4
      <4>2. rowbuf'[k] = rowbuf[k]
        BY <2>4, <2>5, <2>7, <2>8, <2>9, <3>2, <3>4, <4>1
      <4> QED
        BY <2>3, <2>6, <4>1, <4>2
    <3> QED
      BY <3>3, <3>4
  <2>10. CASE ~b_wr
    BY <2>3, <2>4, <2>6, <2>7, <2>10
  <2> QED
    BY <2>9, <2>10
<1> QED
  BY <1>1, <1>2, <1>3

(* A word for the display lands where the line has got to, and is the word  *)
(* of the line that belongs there.                                          *)
LEMMA NextFetched ==
  ASSUME LineTypeOK, GrantAsked, OneBurst, WordInOrder, DisplayAsks, RowsAsks, Next,
         bbusy, ~b_done, bsel = "display"
  PROVE  /\ Fetched' = IF b_wr THEN Fetched + 1 ELSE Fetched
         /\ b_wr => widx = Fetched /\ b_data = Word(seg, Fetched)
<1>1. vb_req /\ b_cmd = vb_cmd /\ bbusy' /\ bsel' = bsel /\ ~vb_done
  BY GrantLasts DEF b_req, b_cmd
<1>2. fst # "idle" /\ fst' = fst /\ seg1_words' = seg1_words
  BY <1>1, DisplayKeeps
<1>3. /\ seg \in Lines /\ Landed \in Int /\ seg1_words \in Nat
      /\ b_idx \in Nat
  BY DEF LineTypeOK, Landed, Burst, b_cmd
<1>4. CASE fst = "seg1"
  <2>1. b_cmd = Seg1
    BY <1>1, <1>4 DEF DisplayAsks
  <2>2. ~b_cmd.we /\ b_cmd.len = seg1_len
    BY <1>3, <2>1, SegmentBursts
  <2>3. Fetched = Landed /\ Fetched' = Landed'
    BY <1>1, <1>2, <1>3, <1>4, <2>2, LandedStep DEF Fetched
  <2>4. /\ Landed' = IF b_wr THEN Landed + 1 ELSE Landed
        /\ b_wr => b_idx = Landed /\ b_data = Seg1.addr + Landed /\ Landed < seg1_len
    BY <2>1, <2>2, LandedStep
  <2>5. ASSUME b_wr PROVE b_data = Word(seg, Landed)
    BY <1>3, <2>4, <2>5, FirstWords
  <2> QED
    BY <1>4, <2>3, <2>4, <2>5 DEF widx
<1>5. CASE fst = "seg2"
  <2>1. b_cmd = Seg2 /\ need_second /\ seg1_words = seg1_len
    BY <1>1, <1>5 DEF DisplayAsks
  <2>2. ~b_cmd.we /\ b_cmd.len = LineWords - ToRowEnd
    BY <1>3, <2>1, SegmentBursts
  <2>3. /\ Landed' = IF b_wr THEN Landed + 1 ELSE Landed
        /\ b_wr => b_idx = Landed /\ b_data = Seg2.addr + Landed /\ Landed < LineWords - ToRowEnd
    BY <2>1, <2>2, LandedStep
  <2>4. Fetched = seg1_len + Landed /\ Fetched' = seg1_len + Landed' /\ seg1_len \in Nat
    BY <1>1, <1>2, <1>3, <1>5, <2>1 DEF Fetched
  <2>5. ASSUME b_wr PROVE b_data = Word(seg, seg1_len + Landed)
    BY <1>3, <2>1, <2>3, <2>5, WrappedWords
  <2>6. b_wr => widx = Fetched
    BY <1>3, <1>5, <2>1, <2>3, <2>4 DEF widx
  <2> QED
    BY <1>3, <2>3, <2>4, <2>5, <2>6
<1> QED
  BY <1>2, <1>4, <1>5 DEF LineTypeOK

LEMMA FetchStep ==
  ASSUME LineTypeOK, GrantAsked, OneBurst, WordInOrder, DisplayAsks, RowsAsks, Next, fetch_busy
  PROVE  /\ seg' = seg
         /\ fst' # "idle" => Fetched' = IF b_wr /\ bsel = "display" THEN Fetched + 1 ELSE Fetched
         /\ fst' = "idle" => Fetched = LineWords /\ ~(b_wr /\ bsel = "display")
         /\ b_wr /\ bsel = "display" => widx = Fetched /\ b_data = Word(seg, Fetched)
<1>1. FirstSegment \/ SecondSegment
  BY NextSplit DEF Video, FetchIdle, FetchBegins, fetch_busy
<1>2. /\ seg' = seg
      /\ ~vb_done => fst' = fst
      /\ fst = "seg2" => seg1_words' = seg1_words
  BY <1>1 DEF FirstSegment, SecondSegment
<1>3. seg1_words \in Nat /\ seg \in Lines
  BY DEF LineTypeOK
<1>4. CASE ~bbusy \/ bsel = "rows"
  <2>1. ~vb_done
    BY <1>4, NoGrant DEF vb_done
  <2>2. ~(b_wr /\ bsel = "display")
    BY <1>4, NoGrant
  <2>3. bbusy' /\ bsel' = "display" => Landed' = 0
    BY <1>4, GrantEnds, GrantLasts, NothingLanded
  <2>4. Fetched = Fetched'
    BY <1>2, <1>3, <1>4, <2>1, <2>3 DEF Fetched
  <2> QED
    BY <1>2, <2>1, <2>2, <2>4 DEF fetch_busy
<1>5. CASE bbusy /\ bsel = "display" /\ b_done
  <2>1. ~b_wr /\ vb_done /\ ~bbusy' /\ Landed = vb_cmd.len /\ vb_req
    BY <1>5, GrantEnds DEF Landed, b_cmd, GrantAsked, b_req
  <2>2. CASE fst = "seg1"
    <3>1. Landed = seg1_len /\ seg1_len \in Nat
      BY <1>3, <2>1, <2>2, SegmentBursts, SegmentFacts DEF DisplayAsks
    <3>2. Fetched = seg1_len
      BY <1>5, <2>2, <3>1 DEF Fetched
    <3>3. fst' = (IF need_second THEN "seg2" ELSE "idle") /\ seg1_words' = seg1_len
      BY <1>1, <2>1, <2>2 DEF FirstSegment, SecondSegment
    <3>4. fst' = "seg2" => Fetched' = seg1_len
      BY <2>1, <3>1, <3>3 DEF Fetched
    <3>5. fst' = "idle" => seg1_len = LineWords
      BY <1>3, <3>3, SegmentFacts
    <3> QED
      BY <1>2, <2>1, <3>2, <3>3, <3>4, <3>5
  <2>3. CASE fst = "seg2"
    <3>1. need_second /\ seg1_words = seg1_len /\ vb_cmd = Seg2
      BY <2>1, <2>3 DEF DisplayAsks
    <3>2. Fetched = seg1_len + (LineWords - ToRowEnd)
      BY <1>3, <1>5, <2>1, <2>3, <3>1, SegmentBursts DEF Fetched
    <3>3. Fetched = LineWords
      BY <1>3, <3>1, <3>2, SegmentFacts
    <3>4. fst' = "idle"
      BY <1>1, <2>1, <2>3 DEF FirstSegment, SecondSegment
    <3> QED
      BY <1>2, <2>1, <3>3, <3>4
  <2> QED
    BY <2>2, <2>3 DEF LineTypeOK, fetch_busy
<1>6. CASE bbusy /\ bsel = "display" /\ ~b_done
  <2>1. fst' # "idle"
    BY <1>2, <1>6 DEF vb_done, fetch_busy
  <2> QED
    BY <1>2, <1>6, <2>1, NextFetched
<1> QED
  BY <1>4, <1>5, <1>6 DEF LineTypeOK

LEMMA FilledKept ==
  ASSUME LineTypeOK, GrantAsked, OneBurst, WordInOrder, DisplayAsks, RowsAsks, FilledSoFar, Next
  PROVE  FilledSoFar'
<1> SUFFICES ASSUME ~fetch_pending'
             PROVE  /\ fetch_busy' => seg' = geom' /\ Holds(lbuf'[fill_sel'], geom', Fetched')
                    /\ ~fetch_busy' /\ next_visible' => Holds(lbuf'[fill_sel'], geom', LineWords)
  BY DEF FilledSoFar, Holds, Word
<1>1. SameLine
  BY NextSplit DEF Video, LineStart
<1>2. /\ fill_sel' = fill_sel /\ geom' = geom /\ next_visible' = next_visible
      /\ ~fetch_pending \/ ~fetch_busy
  BY <1>1 DEF SameLine
<1>3. CASE ~fetch_busy
  <2>1. ~vb_req /\ ~(bbusy /\ bsel = "display")
    BY <1>3 DEF DisplayAsks, fetch_busy, GrantAsked, b_req
  <2>2. lbuf' = lbuf
    BY <2>1, BufferStep DEF WordInOrder, OneBurst
  <2>3. FetchIdle \/ FetchBegins
    BY <1>3, NextSplit DEF Video, FirstSegment, SecondSegment, fetch_busy
  <2>4. CASE FetchIdle
    <3>1. ~fetch_busy' /\ (next_visible => ~fetch_pending)
      BY <1>3, <2>4 DEF FetchIdle, fetch_busy
    <3> QED
      BY <1>2, <1>3, <2>2, <3>1 DEF FilledSoFar
  <2>5. CASE FetchBegins
    <3>1. fetch_busy' /\ fst' = "seg1" /\ seg' = geom
      BY <2>5 DEF FetchBegins, fetch_busy
    <3>2. ~(bbusy' /\ bsel' = "display")
      BY <2>1, GrantEnds, NoGrant, GrantLasts
    <3>3. Fetched' = 0
      BY <3>1, <3>2 DEF Fetched
    <3>4. Holds(lbuf'[fill_sel'], geom', Fetched')
      BY <3>3 DEF Holds
    <3> QED
      BY <1>2, <3>1, <3>4
  <2> QED
    BY <2>3, <2>4, <2>5
<1>4. CASE fetch_busy
  <2>1. seg = geom /\ Holds(lbuf[fill_sel], geom, Fetched)
    BY <1>2, <1>4 DEF FilledSoFar
  <2>2. Fetched \in Int
    BY DEF Fetched, Landed, LineTypeOK, Burst, b_cmd
  <2>3. CASE b_wr /\ bsel = "display"
    <3>1. /\ seg' = seg /\ fetch_busy' /\ Fetched' = Fetched + 1
          /\ widx = Fetched /\ b_data = Word(geom, Fetched)
      BY <1>4, <2>1, <2>3, FetchStep DEF fetch_busy
    <3>2. \A k \in 0 .. LineWords - 1 :
             lbuf'[fill_sel][k] = IF k = Fetched THEN Word(geom, Fetched) ELSE lbuf[fill_sel][k]
      BY <2>3, <3>1, BufferStep
    <3>3. Holds(lbuf'[fill_sel], geom, Fetched + 1)
      <4> SUFFICES ASSUME NEW k \in 0 .. LineWords - 1, k < Fetched + 1
                   PROVE  lbuf'[fill_sel][k] = Word(geom, k)
        BY DEF Holds
      <4>1. CASE k = Fetched
        BY <3>2, <4>1
      <4>2. CASE k # Fetched
        <5>1. k < Fetched
          BY <2>2, <4>2
        <5> QED
          BY <2>1, <3>2, <4>2, <5>1 DEF Holds
      <4> QED
        BY <4>1, <4>2
    <3> QED
      BY <1>2, <2>1, <3>1, <3>3
  <2>4. CASE ~(b_wr /\ bsel = "display")
    <3>1. lbuf' = lbuf
      BY <2>4, BufferStep
    <3>2. /\ seg' = seg /\ fetch_busy' => Fetched' = Fetched
          /\ ~fetch_busy' => Fetched = LineWords
      BY <1>4, <2>4, FetchStep DEF fetch_busy
    <3> QED
      BY <1>2, <1>4, <2>1, <3>1, <3>2, FetchStep
  <2> QED
    BY <2>3, <2>4
<1> QED
  BY <1>3, <1>4

LEMMA ShownKept ==
  ASSUME LineTypeOK, GrantAsked, OneBurst, WordInOrder, DisplayAsks, FilledSoFar, ShownLineTrue, Next
  PROVE  ShownLineTrue'
<1> SUFFICES ASSUME show_visible', ~late', NEW k \in 0 .. LineWords - 1
             PROVE  lbuf'[show_sel'][k] = Word(shown', k)
  BY DEF ShownLineTrue, Word
<1>1. CASE LineStart
  <2>1. /\ ~fetch_pending /\ ~fetch_busy /\ next_visible
        /\ show_sel' = fill_sel /\ shown' = geom
    BY <1>1 DEF LineStart
  <2>2. lbuf' = lbuf
    BY <2>1, BufferStep DEF WordInOrder, OneBurst, GrantAsked, b_req, DisplayAsks, fetch_busy
  <2>3. Holds(lbuf[fill_sel], geom, LineWords)
    BY <2>1 DEF FilledSoFar
  <2>4. lbuf[fill_sel][k] = Word(geom, k)
    BY <2>3, LineAssumption DEF Holds
  <2> QED
    BY <2>1, <2>2, <2>4
<1>2. CASE SameLine
  <2>1. /\ show_visible /\ ~late /\ show_sel' = show_sel /\ shown' = shown
    BY <1>2 DEF SameLine
  <2>2. lbuf'[show_sel] = lbuf[show_sel]
    BY BufferStep
  <2>3. lbuf[show_sel][k] = Word(shown, k)
    BY <2>1 DEF ShownLineTrue, Word
  <2> QED
    BY <2>1, <2>2, <2>3
<1> QED
  BY <1>1, <1>2, NextSplit DEF Video

LEMMA DisplayNextKept ==
  ASSUME LineTypeOK, GrantAsked, OneBurst, WordInOrder, DisplayAsks, RowsAsks, DisplayNext, Next
  PROVE  DisplayNext'
<1>1. passed' = IF ~vb_req \/ (bbusy /\ bsel = "display") THEN 0
                ELSE IF sb_done /\ passed < 2 THEN passed + 1 ELSE passed
  BY NextSplit DEF History
<1>2. CASE ~vb_req \/ (bbusy /\ bsel = "display")
  BY <1>1, <1>2 DEF DisplayNext
<1>3. CASE vb_req /\ bbusy /\ bsel = "rows"
  <2>1. passed = 0
    BY <1>3 DEF DisplayNext
  <2>2. CASE b_done
    BY <1>1, <1>3, <2>1, <2>2, GrantEnds DEF DisplayNext
  <2>3. CASE ~b_done
    BY <1>1, <1>3, <2>1, <2>3 DEF DisplayNext, sb_done
  <2> QED
    BY <2>2, <2>3
<1>4. CASE vb_req /\ ~bbusy
  <2>1. passed' = passed /\ (bbusy' => bsel' = "display")
    BY <1>1, <1>4, NoGrant
  <2> QED
    BY <2>1 DEF DisplayNext
<1> QED
  BY <1>2, <1>3, <1>4 DEF LineTypeOK

-----------------------------------------------------------------------------
LEMMA LineInitInv == Init => LineInv
<1> SUFFICES ASSUME Init PROVE LineInv
  OBVIOUS
<1> USE DEF Init
<1>1. LineTypeOK
  <2>1. NoBurst \in Burst /\ NoWord \in Int
    BY DEF NoBurst, Burst, NoWord
  <2>2. port \in [busy : BOOLEAN, cmd : Burst, k : Nat]
    BY <2>1 DEF IdlePort
  <2>3. lbuf \in [{0, 1} -> [0 .. LineWords - 1 -> Int]] /\ rowbuf \in [0 .. MaxPiece - 1 -> Int]
    <3>1. 0 .. 1 = {0, 1}
      OBVIOUS
    <3> QED
      BY <2>1, <3>1
  <2> QED
    BY <2>1, <2>2, <2>3 DEF LineTypeOK
<1>2. GrantAsked /\ OneBurst /\ WordInOrder /\ DisplayAsks /\ RowsAsks
  BY DEF GrantAsked, OneBurst, WordInOrder, DisplayAsks, RowsAsks, IdlePort
<1>3. PieceSoFar /\ FilledSoFar /\ ShownLineTrue /\ DisplayNext
  BY DEF PieceSoFar, FilledSoFar, ShownLineTrue, DisplayNext, fetch_busy
<1> QED
  BY <1>1, <1>2, <1>3 DEF LineInv

LEMMA LineNextInv == LineInv /\ [Next]_vars => LineInv'
<1> SUFFICES ASSUME LineInv, [Next]_vars PROVE LineInv'
  OBVIOUS
<1> USE DEF LineInv
<1>1. CASE Next
  BY <1>1, TypesKept, AskedKept, OneBurstKept, WordKept, DisplayAsksKept, RowsAsksKept,
     PieceKept, FilledKept, ShownKept, DisplayNextKept
<1>2. CASE UNCHANGED vars
  <2>1. /\ LineTypeOK' = LineTypeOK /\ GrantAsked' = GrantAsked /\ OneBurst' = OneBurst
        /\ WordInOrder' = WordInOrder /\ DisplayAsks' = DisplayAsks /\ RowsAsks' = RowsAsks
    BY <1>2 DEF LineTypeOK, GrantAsked, OneBurst, WordInOrder, DisplayAsks, RowsAsks, b_req, b_cmd,
                Seg1, Seg2, seg1_len, need_second, ToRowEnd,
                vars, swap, fetch, arbiter, rows, sdram
  <2>2. /\ PieceSoFar' = PieceSoFar /\ FilledSoFar' = FilledSoFar
        /\ ShownLineTrue' = ShownLineTrue /\ DisplayNext' = DisplayNext
    BY <1>2 DEF PieceSoFar, FilledSoFar, ShownLineTrue, DisplayNext, Landed, Fetched, b_cmd,
                fetch_busy, Holds, Word, vars, swap, fetch, arbiter, rows, sdram
  <2> QED
    BY <2>1, <2>2
<1> QED
  BY <1>1, <1>2

THEOREM LineFetchInvariant == Spec => []LineInv
<1>1. Init => LineInv
  BY LineInitInv
<1>2. LineInv /\ [Next]_vars => LineInv'
  BY LineNextInv
<1> QED
  BY <1>1, <1>2, PTL DEF Spec

(* Whatever the row engine asks for and whenever the port is given to it,   *)
(* a line shown is the line that was set up a line before, whole and        *)
(* wrapped in its row, unless its own fetch was cut short.                  *)
THEOREM ShownLineIsTrue == Spec => []ShownLineTrue
<1>1. LineInv => ShownLineTrue
  BY DEF LineInv
<1> QED
  BY <1>1, LineFetchInvariant, PTL

(* When the row engine is told that a piece is done, its buffer holds that  *)
(* piece: no word of it went to the display and none of the display's came  *)
(* to it.                                                                   *)
THEOREM PieceIsTrue == Spec => []PieceTrue
<1>1. LineInv => PieceTrue
  <2> SUFFICES ASSUME LineInv, sb_done, ~sb_cmd.we, NEW k \in 0 .. sb_cmd.len - 1
               PROVE  rowbuf[k] = sb_cmd.addr + k
    BY DEF PieceTrue
  <2>1. bbusy /\ bsel = "rows" /\ b_done
    BY DEF sb_done, LineInv, OneBurst
  <2>2. Landed = sb_cmd.len
    BY <2>1 DEF Landed, b_cmd
  <2> QED
    BY <2>1, <2>2 DEF LineInv, PieceSoFar
<1> QED
  BY <1>1, LineFetchInvariant, PTL

(* "the display waits at most one piece".                                   *)
THEOREM DisplayWaitsOnePiece == Spec => []OnePieceFirst
<1>1. LineInv => OnePieceFirst
  BY DEF LineInv, DisplayNext, OnePieceFirst
<1> QED
  BY <1>1, LineFetchInvariant, PTL
=============================================================================
