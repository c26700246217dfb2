------------------------------- MODULE Trends -------------------------------
(***************************************************************************)
(* The trends (trend_data.c and the trend menus): rings of points that the *)
(* receive interrupt fills, at the same time as the LCD task copies whole  *)
(* trends.  The editor copies all of them on entry and back on exit,       *)
(* adding and deleting one move trends in place.  A trend is copied word   *)
(* by word, upwards: its points, then its two indices, which share a word, *)
(* then its source and full_flag, which share another.  The interrupt may  *)
(* come between any two words.                                             *)
(*                                                                         *)
(* The settings of a trend (source and limits) are one value, its source.  *)
(* They survive a restart in the battery registers; points do not.         *)
(***************************************************************************)
EXTENDS Naturals, Sequences

CONSTANTS
  Size,          \* TREND_SIZE, 64
  MaxCnt,        \* TREND_MAX_CNT, 3
  Sources,       \* a node and one of its inputs
  NewSource,     \* what get_new_trend sets
  \* bounds
  MaxPoints, MaxVisits    \* since the last restart

ASSUME TrendAssumption ==
  /\ Size \in Nat \ {0} /\ MaxCnt \in Nat \ {0}
  /\ NewSource \in Sources
  /\ MaxPoints \in Nat /\ MaxVisits \in Nat

VARIABLES
  trends, tr_cnt,
  bpr,          \* the battery registers
  tmp_trends,   \* of the editor
  tr,           \* source of the trend about to be added
  lpc, k, w,    \* the LCD task: what it is doing, to which trend, at which word
  \* history
  points,       \* points received since the restart; the last one's number
  hist,         \* what each trend should show
  tmpHist,      \* the same for tmp_trends
  hit, late,    \* has the interrupt fallen into this copy? before its last word?
  visits        \* to the menus that write trends, since the restart

rings == <<trends, tmp_trends, hist, tmpHist>>
settings == <<tr_cnt, bpr, tr>>
lcd == <<lpc, k, w, hit, late>>
trendVars == <<rings, settings, lcd, points, visits>>

Trend == 1 .. MaxCnt
Slot == 0 .. Size - 1
Blank == 0            \* time 0xFFFFFFFF: no point yet
Indices == Size       \* the words of a trend behind its points
Tag == Size + 1

Rings == [point : [Slot -> 0 .. MaxPoints], first : Slot, cur : Slot,
          full : BOOLEAN, src : Sources]

\* Faulty variant of NewTrend: full_flag is not reset.
NewTrendFull(s) ==
  [point |-> [p \in Slot |-> Blank], first |-> 0, cur |-> 0, full |-> TRUE, src |-> s]

NewTrend(s) ==
  [point |-> [p \in Slot |-> Blank], first |-> 0, cur |-> 0, full |-> FALSE, src |-> s]

\* Place i of the ring, begun again where the ring ends.
Around(i) == IF i >= Size THEN i - Size ELSE i

\* Faulty variant of AddPoint: the write index wraps one too late.
AddPointLateWrap(t, n) ==
  LET wraps == t.cur + 1 > Size
      full  == t.full \/ wraps
  IN  [t EXCEPT !.point[t.cur] = n,
                !.cur = IF wraps THEN 0 ELSE @ + 1,
                !.full = full,
                !.first = IF full THEN Around(@ + 1) ELSE @]

\* Faulty variant of AddPoint: the oldest index moves before the ring is full too.
AddPointMovesFirst(t, n) ==
  LET wraps == t.cur + 1 >= Size
  IN  [t EXCEPT !.point[t.cur] = n,
                !.cur = Around(@ + 1),
                !.full = t.full \/ wraps,
                !.first = IF t.full THEN Around(@ + 1) ELSE @]

AddPoint(t, n) ==
  LET wraps == t.cur + 1 >= Size
      full  == t.full \/ wraps
  IN  [t EXCEPT !.point[t.cur] = n,
                !.cur = Around(@ + 1),
                !.full = full,
                !.first = IF full THEN Around(@ + 1) ELSE @]

\* Word word of trend s copied into trend t.
CopyWord(t, s, word) ==
  CASE word \in Slot   -> [t EXCEPT !.point[word] = s.point[word]]
    [] word = Indices  -> [t EXCEPT !.first = s.first, !.cur = s.cur]
    [] word = Tag      -> [t EXCEPT !.src = s.src, !.full = s.full]

\* What the screen shows: from the oldest point to the first blank one, and
\* never more than Size - 1 points.
Shown(t) ==
  LET Ring(i) == t.point[Around(t.first + i - 1)]
      cnt == CHOOSE c \in 0 .. Size - 1 :
               /\ \A i \in 1 .. c : Ring(i) # Blank
               /\ c < Size - 1 => Ring(c + 1) = Blank
  IN  [i \in 1 .. cnt |-> Ring(i)]

-----------------------------------------------------------------------------
(* History.  recent: the points that should be on show.  heals: how many   *)
(* more points overwrite what a copy hit by the interrupt left behind.     *)
(* slipped: such a copy may have moved the indices apart for good.         *)

NewHist == [recent |-> <<>>, heals |-> 0, slipped |-> FALSE]

WithPoint(h, n) ==
  [h EXCEPT !.recent = IF Len(@) < Size - 1 THEN Append(@, n)
                       ELSE Tail(Append(@, n)),
            !.heals = IF @ = 0 THEN 0 ELSE @ - 1]

Copied(h) == [h EXCEPT !.heals = IF hit THEN Size ELSE @, !.slipped = @ \/ late]

-----------------------------------------------------------------------------
\* The first start: the registers hold what earlier sessions left there.
TrendInit ==
  /\ bpr \in [cnt : 0 .. MaxCnt, src : [Trend -> Sources]]
  /\ trends = [i \in Trend |-> NewTrend(bpr.src[i])]
  /\ tmp_trends = [i \in Trend |-> NewTrend(NewSource)]
  /\ tr_cnt = bpr.cnt
  /\ tr = NewSource
  /\ lpc = "conf" /\ k = 1 /\ w = 0
  /\ points = 0
  /\ hist = [i \in Trend |-> NewHist]
  /\ tmpHist = [i \in Trend |-> NewHist]
  /\ hit = FALSE /\ late = FALSE
  /\ visits = 0

\* Trends the copy under way reads or writes, and the one it writes.
Copying ==
  CASE lpc = "move" -> {k, k + 1} \cap Trend
    [] lpc \in {"copyin", "copyout", "add"} -> {k}
    [] OTHER -> {}
BeingWritten(i) == w > 0 /\ i = k /\ lpc \in {"copyout", "add", "move"}

\* The interrupt: a point for every trend of source s.
NewPoint(s) ==
  LET fed == {i \in Trend : trends[i].src = s}
  IN  /\ points < MaxPoints
      /\ points' = points + 1
      /\ trends' = [i \in Trend |-> IF i \in fed THEN AddPoint(trends[i], points')
                                    ELSE trends[i]]
      /\ hist' = [i \in Trend |-> IF i \in fed THEN WithPoint(hist[i], points')
                                  ELSE hist[i]]
      /\ hit' = (hit \/ (w > 0 /\ Copying \cap fed # {}))
      /\ late' = (late \/ (w = Tag /\ Copying \cap fed # {}))
      /\ UNCHANGED <<tmp_trends, tmpHist, settings, lpc, k, w, visits>>

-----------------------------------------------------------------------------
(* The menus of the LCD task.                                              *)

Visit ==
  /\ lpc = "conf" /\ visits < MaxVisits
  /\ visits' = visits + 1

OpenEditor ==
  /\ Visit
  /\ lpc' = "copyin" /\ k' = 1
  /\ UNCHANGED <<rings, settings, w, hit, late, points>>

ChangeSource(i, s) ==
  /\ lpc = "edit"
  /\ i = 1 \/ i <= tr_cnt
  /\ tmp_trends' = [tmp_trends EXCEPT ![i].src = s]
  /\ UNCHANGED <<trends, hist, tmpHist, settings, lcd, points, visits>>

LeaveEditor ==
  /\ lpc = "edit"
  /\ lpc' = "conf"
  /\ UNCHANGED <<rings, settings, k, w, hit, late, points, visits>>

SaveEdit ==
  /\ lpc = "edit"
  /\ lpc' = "copyout" /\ k' = 1
  /\ UNCHANGED <<rings, settings, w, hit, late, points, visits>>

Add(s) ==
  /\ tr_cnt < MaxCnt
  /\ Visit
  /\ lpc' = "add" /\ k' = tr_cnt + 1 /\ tr' = s
  /\ UNCHANGED <<rings, tr_cnt, bpr, w, hit, late, points>>

Delete(i) ==
  /\ i <= tr_cnt
  /\ Visit
  /\ lpc' = "move" /\ k' = i
  /\ UNCHANGED <<rings, settings, w, hit, late, points>>

-----------------------------------------------------------------------------
(* Copies, word by word.  The last word ends the copy of one trend.        *)

NextWord ==
  /\ w < Tag
  /\ w' = w + 1
  /\ UNCHANGED <<lpc, k, hit, late>>

\* On to trend i, doing what pc says.
NextTrend(pc, i) ==
  /\ w = Tag
  /\ w' = 0 /\ hit' = FALSE /\ late' = FALSE
  /\ lpc' = pc /\ k' = i

CopyIn ==
  /\ lpc = "copyin"
  /\ tmp_trends' = [tmp_trends EXCEPT ![k] = CopyWord(@, trends[k], w)]
  /\ \/ NextWord /\ UNCHANGED tmpHist
     \/ /\ IF k < MaxCnt THEN NextTrend("copyin", k + 1) ELSE NextTrend("edit", 1)
        /\ tmpHist' = [tmpHist EXCEPT ![k] = Copied(hist[k])]
  /\ UNCHANGED <<trends, hist, settings, points, visits>>

\* The editor blanks the points of its copy as it goes.
CopyOut ==
  /\ lpc = "copyout"
  /\ trends' = [trends EXCEPT ![k] = CopyWord(@, tmp_trends[k], w)]
  /\ \/ NextWord /\ UNCHANGED <<tmp_trends, hist>>
     \/ /\ IF k < MaxCnt THEN NextTrend("copyout", k + 1) ELSE NextTrend("save", 0)
        /\ tmp_trends' = [tmp_trends EXCEPT ![k].point = [p \in Slot |-> Blank]]
        /\ hist' = [hist EXCEPT ![k] = Copied(tmpHist[k])]
  /\ UNCHANGED <<tmpHist, settings, points, visits>>

CopyAdded ==
  /\ lpc = "add"
  /\ trends' = [trends EXCEPT ![k] = CopyWord(@, NewTrend(tr), w)]
  /\ \/ NextWord /\ UNCHANGED <<hist, tr_cnt, tr>>
     \/ /\ NextTrend("save", 0)
        /\ hist' = [hist EXCEPT ![k] = Copied(NewHist)]
        /\ tr_cnt' = tr_cnt + 1
        /\ tr' = NewSource
  /\ UNCHANGED <<tmp_trends, tmpHist, bpr, points, visits>>

\* delete_trend: the trends above move down by one, the last one is new.
Move ==
  LET source  == IF k < MaxCnt THEN trends[k + 1] ELSE NewTrend(NewSource)
      becomes == IF k < MaxCnt THEN hist[k + 1] ELSE NewHist
  IN  /\ lpc = "move"
      /\ trends' = [trends EXCEPT ![k] = CopyWord(@, source, w)]
      /\ \/ NextWord /\ UNCHANGED <<hist, tr_cnt>>
         \/ /\ hist' = [hist EXCEPT ![k] = Copied(becomes)]
            /\ IF k < MaxCnt THEN NextTrend("move", k + 1) /\ UNCHANGED tr_cnt
               ELSE NextTrend("save", 0) /\ tr_cnt' = tr_cnt - 1
      /\ UNCHANGED <<tmp_trends, tmpHist, bpr, tr, points, visits>>

-----------------------------------------------------------------------------
\* Faulty variant of Save: the number of trends is left out.
SaveNoCount ==
  /\ lpc = "save"
  /\ bpr' = IF k = 0 THEN bpr ELSE [bpr EXCEPT !.src[k] = trends[k].src]
  /\ IF k < MaxCnt THEN k' = k + 1 /\ UNCHANGED lpc ELSE k' = 1 /\ lpc' = "conf"
  /\ UNCHANGED <<rings, tr_cnt, tr, w, hit, late, points, visits>>

\* save_trends: the number of trends, then the settings of each.
Save ==
  /\ lpc = "save"
  /\ bpr' = IF k = 0 THEN [bpr EXCEPT !.cnt = tr_cnt]
                     ELSE [bpr EXCEPT !.src[k] = trends[k].src]
  /\ IF k < MaxCnt THEN k' = k + 1 /\ UNCHANGED lpc ELSE k' = 1 /\ lpc' = "conf"
  /\ UNCHANGED <<rings, tr_cnt, tr, w, hit, late, points, visits>>

\* The power fails, and init_trends takes the settings from the registers.
Restart ==
  /\ trends' = [i \in Trend |-> NewTrend(bpr.src[i])]
  /\ tmp_trends' = [i \in Trend |-> NewTrend(NewSource)]
  /\ hist' = [i \in Trend |-> NewHist]
  /\ tmpHist' = [i \in Trend |-> NewHist]
  /\ tr_cnt' = IF bpr.cnt > MaxCnt THEN MaxCnt ELSE bpr.cnt
  /\ tr' = NewSource
  /\ lpc' = "conf" /\ k' = 1 /\ w' = 0 /\ hit' = FALSE /\ late' = FALSE
  /\ points' = 0 /\ visits' = 0
  /\ UNCHANGED bpr

LcdStep ==
  \/ OpenEditor \/ LeaveEditor \/ SaveEdit
  \/ \E i \in Trend, s \in Sources : ChangeSource(i, s)
  \/ \E s \in Sources : Add(s)
  \/ \E i \in Trend : Delete(i)
  \/ CopyIn \/ CopyOut \/ CopyAdded \/ Move \/ Save

TrendNext == LcdStep \/ Restart \/ \E s \in Sources : NewPoint(s)

TrendSpec == TrendInit /\ [][TrendNext]_trendVars

-----------------------------------------------------------------------------
Hist == [recent : UNION {[1 .. n -> 1 .. MaxPoints] : n \in 0 .. Size - 1},
         heals : 0 .. Size, slipped : BOOLEAN]

\* Types; the indices never leave the ring, whatever a torn copy put together.
TrendTypeOK ==
  /\ trends \in [Trend -> Rings] /\ tmp_trends \in [Trend -> Rings]
  /\ tr_cnt \in 0 .. MaxCnt
  /\ bpr \in [cnt : 0 .. MaxCnt, src : [Trend -> Sources]]
  /\ tr \in Sources
  /\ lpc \in {"conf", "copyin", "edit", "copyout", "add", "move", "save"}
  /\ k \in 0 .. MaxCnt /\ w \in 0 .. Tag
  /\ points \in 0 .. MaxPoints
  /\ hist \in [Trend -> Hist] /\ tmpHist \in [Trend -> Hist]
  /\ hit \in BOOLEAN /\ late \in BOOLEAN
  /\ visits \in 0 .. MaxVisits

(* A trend shows the last Size - 1 points it was given, in their order     *)
(* (draw_trend), except that saving the editor (edit_trend_menu.c 263)     *)
(* takes every trend back to what it was at the editor's entry.  A copy    *)
(* the interrupt falls into may lose, repeat or hide points, and heals     *)
(* when the ring has been written round once.                              *)
PointsAreKept ==
  \A i \in Trend :
    (hist[i].heals = 0 /\ ~hist[i].slipped /\ ~BeingWritten(i))
      => Shown(trends[i]) = hist[i].recent

(* The oldest index of a full ring is the one behind the write index; that *)
(* of a ring still filling is 0.  Only an interrupt between the last two   *)
(* words of a copy (the indices and full_flag) breaks this, for as long as *)
(* the trend lives.                                                        *)
PhaseIsKept ==
  \A i \in Trend :
    (~hist[i].slipped /\ ~BeingWritten(i))
      => trends[i].first = IF trends[i].full THEN Around(trends[i].cur + 1) ELSE 0

\* No menu is writing the list.
Settled == lpc \in {"conf", "copyin", "edit"}

(* A restart finds the number of trends and their sources as they were     *)
(* (save_trends, init_trends), an edit under way being dropped; and when   *)
(* it falls into the saving of a list that a menu changed, as far as       *)
(* save_trends had come.                                                   *)
BootKeepsTrends ==
  [][Restart =>
       /\ Settled \/ (lpc = "save" /\ k > 0) => tr_cnt' = tr_cnt
       /\ \A i \in Trend : Settled \/ (lpc = "save" /\ i < k)
                             => trends'[i].src = trends[i].src]_trendVars
=============================================================================
