------------------------------- MODULE History -------------------------------
(***************************************************************************)
(* The reader's history of articles (wiki-app/history.c) as the callers in *)
(* lcd_buf_draw.c and wikilib.c drive it: the list on the history screen,  *)
(* the list behind the "previous article" corner, the positions that       *)
(* scrolling logs in both, and the file that the main loop writes in the   *)
(* reader's pauses, with the power failing at any time.                    *)
(*                                                                         *)
(* An article is drawn bit by bit in the main loop, its first page first;  *)
(* a position beyond what is drawn has to wait.  Titles, what is drawn,    *)
(* and the password screens in front of a restricted article are left out. *)
(***************************************************************************)
EXTENDS Integers, Sequences, FiniteSets, SequencesExt

CONSTANTS
  Article,      \* articles, with the identity of their wiki
  NoArticle,    \* 0, and any index without the identity of its wiki
  MaxHistory,   \* MAX_HISTORY (256)
  MaxViewing,   \* MAX_VIEWING_LIST (30)
  Position,     \* scroll positions, from the start of the article's text
  Start         \* how far down the text starts (article_start_y_pos), or more
                \* than any position if the text fits on one page

ASSUME ArticleAssumption == NoArticle \notin Article
ASSUME SizeAssumption ==
  MaxHistory \in Nat \ {0} /\ MaxViewing \in Nat \ {0, 1}
ASSUME PositionAssumption == Position \subseteq Nat /\ 0 \in Position
ASSUME StartAssumption == Start \in [Article -> Nat]

NoPosition == -1

Entry == [idx : Article, y : Position]

VARIABLES
  history_list,     \* its first history_count entries
  viewing_list,     \* its first viewing_count entries
  history_changed,  \* what of it is not in the file
  file,             \* the records of wiki.hst
  writing,          \* history_list_save has emptied the file
  display_mode,     \* the kind of screen
  saved_idx,        \* saved_idx_article on an article's screen, NoArticle if
                    \* without a wiki
  shown,            \* the article on the screen
  shown_y,          \* how far it is scrolled (lcd_draw_cur_y_pos)
  display_first_page,
  init_y,           \* where it is to open (lcd_draw_init_y_pos)
  request,          \* request_y_pos if request_display_next_page
  rendering,        \* there is more to draw (article_buf_pointer)
  asleep,           \* in wl_input_wait(.., 1)
  left,             \* where a listed article was last logged (history)
  due,              \* where an article chosen from the list is to appear
                    \* (history)
  exact,            \* no entry was missed because of a full viewing list,
                    \* no error page was scrolled (history)
  broken            \* the file could not be written (history)

lists  == <<history_list, viewing_list, history_changed>>
screen == <<display_mode, saved_idx, shown>>
page   == <<shown_y, display_first_page, init_y, request, rendering>>
disk   == <<file, writing, broken>>
ghosts == <<left, exact>>
vars   == <<lists, screen, page, disk, asleep, ghosts, due>>

AllAtTop == [a \in Article |-> 0]

Init ==
  /\ history_list = <<>> /\ viewing_list = <<>>
  /\ history_changed = "NONE"
  /\ file = <<>> /\ writing = FALSE /\ broken = FALSE
  /\ display_mode = "INDEX" /\ saved_idx = NoArticle
  /\ shown = NoArticle /\ shown_y = 0 /\ asleep = FALSE
  /\ display_first_page = TRUE /\ init_y = 0
  /\ request = NoPosition /\ rendering = FALSE
  /\ left = AllAtTop /\ exact = TRUE /\ due = NoPosition

(* The reader does something, or the main loop draws; it is not in the     *)
(* midst of a save.                                                        *)
Acts == ~writing /\ asleep' = FALSE /\ UNCHANGED disk

-----------------------------------------------------------------------------
At(a, y) == [idx |-> a, y |-> y]

Pushes(viewing, a) == viewing = <<>> \/ Last(viewing).idx # a

(* Where history_add's search begins: at what the shift of a full viewing  *)
(* list has left in the loop's variable.                                   *)
FirstSearched(viewing, a) ==
  IF Pushes(viewing, a) /\ Len(viewing) >= MaxViewing THEN MaxViewing ELSE 1

Found(viewing, a) ==
  {i \in FirstSearched(viewing, a) .. Len(history_list) :
     history_list[i].idx = a}

Missed(viewing, a) ==
  \E i \in DOMAIN history_list :
    i < FirstSearched(viewing, a) /\ history_list[i].idx = a

AddedWithoutMoving(viewing, a, keep) == <<At(a, 0)>> \o history_list

AddedAtTop(viewing, a, keep) ==
  <<At(a, 0)>> \o SelectSeq(history_list, LAMBDA e : e.idx # a)

Added(viewing, a, keep) ==
  IF Found(viewing, a) # {}
  THEN LET f == Min(Found(viewing, a))
       IN <<At(a, IF keep THEN history_list[f].y ELSE 0)>>
          \o RemoveAt(history_list, f)
  ELSE <<At(a, 0)>> \o
       SubSeq(history_list, 1, IF Len(history_list) >= MaxHistory
                               THEN MaxHistory - 1 ELSE Len(history_list))

PushedIfRoom(viewing, a) ==
  IF ~Pushes(viewing, a) \/ Len(viewing) >= MaxViewing THEN viewing
  ELSE Append(viewing, At(a, 0))

Pushed(viewing, a) ==
  IF ~Pushes(viewing, a) THEN viewing
  ELSE Append(IF Len(viewing) >= MaxViewing THEN Tail(viewing) ELSE viewing,
              At(a, 0))

(* history_add; where an article was left is forgotten with its entry.     *)
history_add(viewing, a, keep) ==
  /\ history_list' = Added(viewing, a, keep)
  /\ viewing_list' = Pushed(viewing, a)
  /\ history_changed' = "NORMAL"
  /\ exact' = (exact /\ ~Missed(viewing, a))
  /\ left' = IF ~exact' THEN AllAtTop
             ELSE [b \in Article |->
                     IF \/ b = a /\ ~keep
                        \/ \A e \in Range(history_list') : e.idx # b
                     THEN 0 ELSE left[b]]

(* What isArticleLinkSelected asks before it looks for what was touched.   *)
Touchable == display_first_page /\ request = NoPosition

(* A position is logged from the start of the text, but compared with the  *)
(* height of the start when the article is opened again: up to there, and  *)
(* in an article of one page, it opens at the top.                         *)
Reopens(a, y) == y > Start[a]

(* The rest of display_link_article: the article may fail to load, which   *)
(* shows an error page, over what the loop may go on drawing of the last   *)
(* article; that is not told apart from the error page.  A request of the  *)
(* last article stays, for the top.                                        *)
Open(viewing, a, keep, raw, y) ==
  /\ Acts
  /\ display_mode' = "ARTICLE"
  /\ saved_idx' = IF raw THEN NoArticle ELSE a
  /\ shown_y' = 0
  /\ request' = IF request = NoPosition THEN NoPosition ELSE 0
  /\ \/ /\ shown' = a /\ history_add(viewing, a, keep)
        /\ init_y' = y /\ display_first_page' = FALSE /\ rendering' = TRUE
        /\ due' = IF display_mode # "HISTORY" \/ ~exact' THEN NoPosition
                  ELSE IF Reopens(a, left'[a]) THEN left'[a] ELSE 0
     \/ /\ shown' = NoArticle /\ viewing_list' = viewing
        /\ init_y' = 0 /\ display_first_page' = TRUE /\ rendering' = FALSE
        /\ due' = NoPosition
        /\ UNCHANGED <<history_list, history_changed, ghosts>>

(* A search result, the random key or a link of an article.  Where the     *)
(* index comes without its wiki ("raw") history_add adds it.               *)
OpenFound ==
  \E a \in Article, raw \in BOOLEAN : Open(viewing_list, a, FALSE, raw, 0)

(* history_set_y_pos takes the first entry.                                *)
OpenFromHistory ==
  /\ display_mode = "HISTORY" /\ Touchable
  /\ \E i \in DOMAIN history_list :
       LET a == history_list[i].idx
           f == SelectInSeq(history_list, LAMBDA e : e.idx = a)
       IN Open(viewing_list, a, TRUE, FALSE, history_list[f].y)

(* history_get_previous_idx, first to offer the corner and then, dropping  *)
(* the last of the viewing list, to follow it.                             *)
Previous ==
  LET n == Len(viewing_list)
      p == IF n > 1 THEN viewing_list[n - 1] ELSE viewing_list[1] IN
  /\ display_mode = "ARTICLE" /\ Touchable
  /\ n > 1 \/ (n = 1 /\ viewing_list[1].idx # saved_idx)
  /\ Open(SubSeq(viewing_list, 1, n - 1), p.idx, TRUE, FALSE, p.y)

(* The entry at i with another position, if there is one.                  *)
Moved(list, i, y) ==
  IF i \in DOMAIN list THEN [list EXCEPT ![i].y = y] ELSE list

LogUnmarked(y) ==
  /\ history_list' = Moved(history_list, 1, y)
  /\ viewing_list' = Moved(viewing_list, Len(viewing_list), y)
  /\ UNCHANGED history_changed

history_log_y_pos(y) ==
  /\ history_list' = Moved(history_list, 1, y)
  /\ viewing_list' = Moved(viewing_list, Len(viewing_list), y)
  /\ history_changed' =
       IF history_changed = "NORMAL" THEN "NORMAL" ELSE "POWER_OFF"

(* display_article_with_pcf, to y, once it is drawn: a position that is    *)
(* logged, or one beyond, which is only requested.  The code does not ask  *)
(* whether it is an article or an error page.                              *)
display_article_with_pcf(y) ==
  \/ /\ history_log_y_pos(y) /\ UNCHANGED request
     /\ exact' = (exact /\ shown # NoArticle)
     /\ left' = IF exact' THEN [left EXCEPT ![shown] = y] ELSE AllAtTop
  \/ /\ rendering /\ request' = y
     /\ UNCHANGED <<lists, ghosts>>

(* The reader scrolls, which can come before the first page is shown, as   *)
(* soon as it is drawn.                                                    *)
Scroll(y) ==
  /\ Acts /\ display_mode = "ARTICLE" /\ request = NoPosition
  /\ display_article_with_pcf(y)
  /\ IF request' = NoPosition
     THEN shown_y' = y /\ display_first_page' = TRUE /\ init_y' = 0
     ELSE UNCHANGED <<shown_y, display_first_page, init_y>>
  /\ due' = NoPosition
  /\ UNCHANGED <<screen, rendering>>

Resumes ==
  /\ shown # NoArticle /\ Reopens(shown, init_y) /\ request = NoPosition

(* buf_draw_UTF8_str, when the text has filled a page: its top is shown    *)
(* and from there the position at which the article is to open.            *)
ShowFirstPage ==
  /\ Acts /\ rendering /\ ~display_first_page
  /\ display_first_page' = TRUE /\ init_y' = 0
  /\ IF Resumes
     THEN /\ display_article_with_pcf(init_y)
          /\ shown_y' = IF request' = NoPosition THEN init_y ELSE 0
     ELSE shown_y' = 0 /\ UNCHANGED <<lists, request, ghosts>>
  /\ UNCHANGED <<screen, rendering, due>>

(* render_article_with_pcf has drawn as far as was requested and shows it. *)
(* It logs nothing.                                                        *)
ShowRequested ==
  /\ Acts /\ rendering /\ request # NoPosition
  /\ shown_y' = request /\ request' = NoPosition
  /\ UNCHANGED <<lists, screen, display_first_page, init_y, rendering>>
  /\ UNCHANGED <<ghosts, due>>

(* render_article_with_pcf has drawn all; a text of one page is shown now. *)
EndRender ==
  /\ Acts /\ rendering /\ rendering' = FALSE
  /\ display_first_page \/ ~Resumes
  /\ shown_y' = IF request = NoPosition THEN shown_y ELSE request
  /\ request' = NoPosition /\ display_first_page' = TRUE /\ init_y' = 0
  /\ UNCHANGED <<lists, screen, ghosts, due>>

(* The search and history keys, and backspace from an article.  A list     *)
(* takes the article's request for one of its own, and drops it when it is *)
(* drawn as far, if it ever is.                                            *)
ChangeScreen ==
  /\ Acts
  /\ display_mode' \in {"INDEX", "HISTORY"} \ {display_mode}
  /\ shown' = NoArticle /\ shown_y' = 0
  /\ display_first_page' = TRUE /\ init_y' = 0 /\ rendering' = FALSE
  /\ request' \in {request, NoPosition} /\ due' = NoPosition
  /\ saved_idx' = NoArticle
  /\ UNCHANGED <<lists, ghosts>>

history_clear ==
  /\ Acts /\ display_mode = "HISTORY" /\ history_list # <<>>
  /\ history_list' = <<>> /\ history_changed' = "NORMAL"
  /\ left' = AllAtTop
  /\ UNCHANGED <<viewing_list, screen, page, exact, due>>

-----------------------------------------------------------------------------
(* The main loop, with no event waiting and nothing to draw, and the power *)
(* key.                                                                    *)
Saves(level) ==
  /\ history_changed # "NONE"
  /\ level = "POWER_OFF" \/ history_changed = "NORMAL"

(* history_list_save up to wl_open, which empties the file or fails.       *)
BeginSave ==
  \/ /\ file' = <<>> /\ writing' = TRUE
     /\ UNCHANGED <<history_changed, broken, asleep>>
  \/ /\ history_changed' = "NONE" /\ broken' = TRUE
     /\ UNCHANGED <<file, writing, asleep>>

(* After a pause of two seconds (NORMAL), of five, or on the power key.    *)
Save ==
  /\ ~writing
  /\ \E level \in {"NORMAL", "POWER_OFF"} : Saves(level)
  /\ BeginSave
  /\ UNCHANGED <<history_list, viewing_list, screen, page, ghosts, due>>

(* wl_write and wl_close; what they return is not looked at.               *)
EndSave ==
  /\ writing /\ writing' = FALSE /\ history_changed' = "NONE"
  /\ file' \in Prefixes(history_list)
  /\ broken' = (file' # history_list)
  /\ UNCHANGED <<history_list, viewing_list, screen, page>>
  /\ UNCHANGED <<asleep, ghosts, due>>

(* wl_input_wait with sleep still set: history_list_save had nothing to    *)
(* do, or has done it; if it postpones a save the loop stays awake.        *)
Sleep ==
  /\ ~writing /\ ~asleep /\ ~rendering /\ history_changed = "NONE"
  /\ asleep' = TRUE
  /\ UNCHANGED <<lists, screen, page, disk, ghosts, due>>

(* The power fails, or is switched off, and the application starts again   *)
(* with history_list_init.                                                 *)
Restart ==
  /\ history_list' = file /\ viewing_list' = <<>>
  /\ history_changed' = "NONE"
  /\ writing' = FALSE /\ broken' = FALSE
  /\ display_mode' = "INDEX" /\ saved_idx' = NoArticle
  /\ shown' = NoArticle /\ shown_y' = 0 /\ asleep' = FALSE
  /\ display_first_page' = TRUE /\ init_y' = 0
  /\ request' = NoPosition /\ rendering' = FALSE /\ due' = NoPosition
  /\ left' = [a \in Article |->
                IF ~exact THEN 0 ELSE
                LET f == SelectInSeq(file, LAMBDA e : e.idx = a)
                IN IF f = 0 THEN 0 ELSE file[f].y]
  /\ UNCHANGED <<file, exact>>

Next ==
  \/ OpenFound \/ OpenFromHistory \/ Previous
  \/ \E y \in Position : Scroll(y)
  \/ ShowFirstPage \/ ShowRequested \/ EndRender
  \/ ChangeScreen \/ history_clear
  \/ Save \/ EndSave \/ Sleep \/ Restart

Spec == Init /\ [][Next]_vars
-----------------------------------------------------------------------------
(* Type invariant, with the bounds of the two arrays.                      *)
TypeOK ==
  /\ history_list \in Seq(Entry) /\ Len(history_list) <= MaxHistory
  /\ viewing_list \in Seq(Entry) /\ Len(viewing_list) <= MaxViewing
  /\ history_changed \in {"NONE", "POWER_OFF", "NORMAL"}
  /\ shown \in Article \cup {NoArticle}
  /\ shown_y \in Position /\ init_y \in Position
  /\ display_first_page \in BOOLEAN /\ rendering \in BOOLEAN
  /\ request \in Position \cup {NoPosition}
  /\ due \in Position \cup {NoPosition}
  /\ file \in Seq(Entry) /\ Len(file) <= MaxHistory

(* No article is listed twice, in whatever order articles are opened, gone *)
(* back to and dropped, and after restarts (history_add, history.c         *)
(* 116-132).  The code keeps this only until it adds an article whose      *)
(* entry lies before the place at which a full viewing list makes it begin *)
(* to search.                                                              *)
NoDuplicates ==
  exact => \A i, j \in DOMAIN history_list :
             history_list[i].idx = history_list[j].idx => i = j

(* Scrolling an article logs its position in its own entries: as long as   *)
(* it is on the screen it is the first of the one list and the last of the *)
(* other, even after articles that failed to load, after following the     *)
(* viewing list back and with either list full (history.c 146-153, which   *)
(* takes this for granted).                                                *)
LogsTheShown ==
  shown # NoArticle =>
    /\ history_list # <<>> /\ history_list[1].idx = shown
    /\ viewing_list # <<>> /\ Last(viewing_list).idx = shown

(* An article chosen on the history screen appears where it was last       *)
(* logged, or at its top if that is not beyond its start, when nothing of  *)
(* it is left to draw first and before the reader scrolls it: however many *)
(* articles were read since, whether the machine was restarted meanwhile,  *)
(* and whatever of another article was still requested (history_set_y_pos, *)
(* history.c 155-171, and lcd_buf_draw.c 657-669, 1495-1539).  Positions   *)
(* move through the list and the file with their articles.  What was last  *)
(* logged is not always where the reader stopped: ShowRequested does not   *)
(* log, and scrolling an error page spoils the first entry.                *)
ResumesWhereLeft ==
  due # NoPosition /\ Touchable => shown_y = due

(* The application does not sleep on what it has not saved, and when it    *)
(* believes the list saved the file is the list, byte for byte, unless the *)
(* card refused it: no path changes the list and forgets to say so         *)
(* (history.c 206-228, wikilib.c 1131-1147).                               *)
NothingUnsaved ==
  (asleep \/ (history_changed = "NONE" /\ ~writing)) /\ ~broken
  => file = history_list
=============================================================================
