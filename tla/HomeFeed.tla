------------------------------ MODULE HomeFeed ------------------------------
(***************************************************************************)
(* The home page of the desktop client: the blend that                     *)
(* RandomBlendAlgorithm generates, handleRefresh, which generates it anew  *)
(* from what was not shown yet, the pages of BlendFeedPanel, and its       *)
(* VideoCards, which fetch their images on threads of their own.           *)
(*                                                                         *)
(* A card numbers its fetches, and takes an image only when it carries the *)
(* number of the last fetch it began; clearing the card does not begin     *)
(* one.  Images come at any time the main thread handles events, also      *)
(* while a refresh yields.  Operations nested in one another are           *)
(* ClientSession's; here another one replaces the blend only while no      *)
(* refresh runs, but on any page.                                          *)
(***************************************************************************)
EXTENDS Positions, SequencesExt, FiniteSetsExt

CONSTANTS
  Videos, None,
  HasLogo,      \* the videos that have a channelLogoURL
  Users,        \* the participants of the blend
  PageSize,     \* kPageSize
  PerUser,      \* videosPerUser
  Lists,        \* bound: the watch-later lists tried
  MaxLoads      \* bound: how often the cards are filled

ASSUME VideosType == None \notin Videos /\ HasLogo \subseteq Videos /\ IsFiniteSet(Videos)
ASSUME UsersType == IsFiniteSet(Users)
ASSUME ListsType == Lists \subseteq [Users -> SUBSET Videos]
ASSUME SizesType == PageSize \in Nat \ {0} /\ PerUser \in Nat \ {0} /\ MaxLoads \in Nat

Slots == 1 .. PageSize
States == {"blank", "loading", "failed"}

\* A VideoCard: its video, and of thumbnail and logo the image (whose it is),
\* what is shown without one, the number of the last fetch, and, as history, the
\* video that fetch was for.
Image == [of : Videos \cup {None}, state : States, gen : 0 .. MaxLoads,
          asked : Videos \cup {None}]
Card == [video : Videos \cup {None}, thumb : Image, logo : Image]

\* A thread that fetches an image, or the event it has queued.
Fetch == [slot : Slots, kind : {"thumb", "logo"}, gen : 1 .. MaxLoads, of : Videos]

VARIABLES
  pools,      \* the watch-later lists the server holds
  feed,       \* the videos of the active blend; none when there is no blend
  drawn,      \* history: the cards were filled since feed was last replaced
  page,       \* the home page is on show, or another
  offset,     \* m_offset
  cards,      \* m_cards
  fetches,    \* threads running and events queued
  refreshing, \* refreshInProgress
  loads       \* how often the cards were filled

vars == <<pools, feed, drawn, page, offset, cards, fetches, refreshing, loads>>

NoImage == [of |-> None, state |-> "blank", gen |-> 0, asked |-> None]

Init ==
  /\ pools \in Lists
  /\ feed = <<>> /\ drawn = TRUE
  /\ page = "away" /\ offset = 0
  /\ cards = [i \in Slots |-> [video |-> None, thumb |-> NoImage, logo |-> NoImage]]
  /\ fetches = {} /\ refreshing = FALSE
  /\ loads = 0
-----------------------------------------------------------------------------
(* RandomBlendAlgorithm.                                                   *)

Shuffles(s) == {[i \in DOMAIN s |-> s[p[i]]] : p \in SetToSeqs(DOMAIN s)}

\* A user's slots: his shuffled videos, from the first again when they end.
Picks(pool) ==
  {[i \in 1 .. PerUser |-> p[((i - 1) % Len(p)) + 1]] : p \in SetToSeqs(pool)}

\* The slots of all, one user after the other.
Dealt(who, pick) ==
  [n \in 1 .. PerUser * Len(who) |->
     pick[who[((n - 1) \div PerUser) + 1]][((n - 1) % PerUser) + 1]]

\* generateBlend, for participants who all have videos.
Generated(from) ==
  LET who == SetToSeq(DOMAIN from)
  IN  UNION {Shuffles(Dealt(who, pick)) :
               pick \in {f \in [DOMAIN from -> UNION {Picks(from[u]) : u \in DOMAIN from}] :
                           \A u \in DOMAIN from : f[u] \in Picks(from[u])}}

\* Those whose list the server returned, and who have videos.
Loaded(have) == {u \in have : pools[u] # {}}
-----------------------------------------------------------------------------
(* VideoCard.                                                              *)

\* An image is dropped, and its fetch begins.
Begin(image, v) == [of |-> None, state |-> "loading", gen |-> image.gen + 1, asked |-> v]

Drop(image) == [image EXCEPT !.of = None, !.state = "blank"]

\* Without a URL no fetch of the logo begins, and the old one keeps its number.
SetVideo(card, v) ==
  [video |-> v,
   thumb |-> Begin(card.thumb, v),
   logo  |-> IF v \in HasLogo THEN Begin(card.logo, v) ELSE Drop(card.logo)]

Clear(card) == [video |-> None, thumb |-> Drop(card.thumb), logo |-> Drop(card.logo)]

\* FetchThumbnailAsync and FetchChannelLogoAsync.
FetchesOf(i, card) ==
  {[slot |-> i, kind |-> k, gen |-> card[k].gen, of |-> card.video] :
     k \in {j \in {"thumb", "logo"} : card[j].state = "loading"}}

\* What a fetch ends with: the image, or none, for any failure or 15 seconds.
FetchImage(f) == {f.of, None}

\* Mutant: an image is taken whichever fetch brings it.
OnAnyLoaded(f, image) ==
  /\ fetches' = fetches \ {f}
  /\ cards' = [cards EXCEPT ![f.slot][f.kind].of = IF image # None THEN image ELSE @,
                            ![f.slot][f.kind].state = IF image # None THEN "blank" ELSE "failed"]
  /\ UNCHANGED <<pools, feed, drawn, page, offset, refreshing, loads>>

\* Mutant: a failure goes unnoticed.
OnImageLoaded(f, image) ==
  /\ fetches' = fetches \ {f}
  /\ cards' = IF f.gen # cards[f.slot][f.kind].gen \/ image = None THEN cards
              ELSE [cards EXCEPT ![f.slot][f.kind].of = image,
                                 ![f.slot][f.kind].state = "blank"]
  /\ UNCHANGED <<pools, feed, drawn, page, offset, refreshing, loads>>

\* OnThumbnailLoaded and OnChannelLogoLoaded, with an image or without.
OnLoaded(f, image) ==
  /\ fetches' = fetches \ {f}
  /\ cards' = IF f.gen # cards[f.slot][f.kind].gen THEN cards
              ELSE [cards EXCEPT ![f.slot][f.kind].of = IF image # None THEN image ELSE @,
                                 ![f.slot][f.kind].state = IF image # None THEN "blank" ELSE "failed"]
  /\ UNCHANGED <<pools, feed, drawn, page, offset, refreshing, loads>>
-----------------------------------------------------------------------------
(* BlendFeedPanel.                                                         *)

\* Mutant: cards beyond the end of the blend keep their video.
FilledOnly(o, videos) ==
  [i \in Slots |-> IF o + i <= Len(videos) THEN SetVideo(cards[i], videos[o + i]) ELSE cards[i]]

\* What LoadFromBlend does to the cards.
Filled(o, videos) ==
  [i \in Slots |-> IF o + i <= Len(videos) THEN SetVideo(cards[i], videos[o + i])
                   ELSE Clear(cards[i])]

\* LoadFromBlend from offset o, which it takes back when the blend is shorter.
LoadFromBlend(o, videos) ==
  /\ loads < MaxLoads
  /\ loads' = loads + 1
  /\ drawn' = TRUE
  /\ offset' = IF videos # <<>> /\ o >= Len(videos) THEN 0 ELSE o
  /\ cards' = Filled(offset', videos)
  /\ fetches' = fetches \cup
       UNION {FetchesOf(i, cards'[i]) : i \in {j \in Slots : j + offset' <= Len(videos)}}

\* NavigateTo(HOME), from any page.
GoHome ==
  /\ page' = "home"
  /\ LoadFromBlend(0, feed)
  /\ UNCHANGED <<pools, feed, refreshing>>

GoAway ==
  /\ page = "home"
  /\ page' = "away"
  /\ UNCHANGED <<pools, feed, drawn, offset, cards, fetches, refreshing, loads>>

\* TriggerFeedRefresh and NextPage: the next full page, if there is one.
NextPage ==
  /\ page = "home" /\ ~refreshing
  /\ feed = <<>> \/ Len(feed) >= offset + 2 * PageSize
  /\ LoadFromBlend(IF feed = <<>> THEN 0 ELSE offset + PageSize, feed)
  /\ UNCHANGED <<pools, feed, page, refreshing>>

\* Otherwise the blend is refreshed.
RefreshBegins ==
  /\ page = "home" /\ ~refreshing
  /\ feed # <<>> /\ Len(feed) < offset + 2 * PageSize
  /\ refreshing' = TRUE
  /\ UNCHANGED <<pools, feed, drawn, page, offset, cards, fetches, loads>>

\* Mutant: the whole list, every time.
Everything(u) == pools[u]

\* What of a user's list was not shown, or all of it when all was.
Fresh(u) ==
  IF pools[u] \subseteq Range(feed) THEN pools[u] ELSE pools[u] \ Range(feed)

\* handleRefresh: lists that do not load are left out; without any, the blend
\* stays.  Then NextPage fills the cards from the start.
RefreshEnds ==
  /\ refreshing
  /\ refreshing' = FALSE
  /\ \E have \in SUBSET Users :
       LET who == Loaded(have)
       IN  IF who = {} THEN feed' = feed
           ELSE \E s \in Generated([u \in who |-> Fresh(u)]) : feed' = Unique(s)
  /\ LoadFromBlend(0, feed')
  /\ UNCHANGED <<pools, page>>

\* Creating or opening a blend, from the lists that load, or leaving one; or
\* uploading a list again, on the home page too, which makes the blend anew.
\* None of them tells the cards.
OtherBlend ==
  /\ ~refreshing /\ loads < MaxLoads
  /\ pools' \in Lists
  /\ \E have \in SUBSET Users :
       LET who == {u \in have : pools'[u] # {}}
       IN  feed' \in IF who = {} THEN {<<>>} ELSE Generated([u \in who |-> pools'[u]])
  /\ drawn' = FALSE
  /\ UNCHANGED <<page, offset, cards, fetches, refreshing, loads>>
-----------------------------------------------------------------------------
Next ==
  \/ GoHome \/ GoAway \/ NextPage \/ RefreshBegins \/ RefreshEnds \/ OtherBlend
  \/ \E f \in fetches : \E image \in FetchImage(f) : OnLoaded(f, image)

\* A fetch ends, by an answer or after 15 seconds, and its event is handled.
Spec ==
  /\ Init /\ [][Next]_vars
  /\ \A i \in Slots, k \in {"thumb", "logo"} :
       WF_vars(\E f \in fetches : \E image \in FetchImage(f) :
                 f.slot = i /\ f.kind = k /\ OnLoaded(f, image))
-----------------------------------------------------------------------------
TypeOK ==
  /\ pools \in Lists
  /\ feed \in Seq(Videos) /\ drawn \in BOOLEAN
  /\ page \in {"home", "away"} /\ refreshing \in BOOLEAN
  /\ offset \in Nat /\ offset % PageSize = 0
  /\ cards \in [Slots -> Card]
  /\ fetches \subseteq Fetch
  /\ loads \in 0 .. MaxLoads

\* OnThumbnailLoaded and OnChannelLogoLoaded discard the image of an earlier fetch:
\* a card shows no image but that of the last fetch it began, and that fetch was
\* for the video it shows, if there is one, and for its logo, if it has one.  (A
\* card that was cleared, or given a video without a logo, may still get the
\* image of the video before.)
ImagesAreTheVideos ==
  \A i \in Slots :
    LET c == cards[i]
    IN  /\ \A k \in {"thumb", "logo"} : c[k].of \in {None, c[k].asked}
        /\ c.video # None => c.thumb.asked = c.video
        /\ c.video \in HasLogo => c.logo.asked = c.video

\* NavigateTo, NextPage and handleRefresh: unless another operation replaced the
\* active blend meanwhile, the home page shows the videos of it that its offset
\* says, and no others.
PageShowsFeed ==
  drawn =>
    \A i \in Slots :
      cards[i].video = IF offset + i <= Len(feed) THEN feed[offset + i] ELSE None

\* handleRefresh: a refreshed blend repeats no video, and shows one of the last
\* blend again only when a participant's list holds it and nothing else unseen.
RefreshIsFresh ==
  [][refreshing /\ feed' # feed =>
       /\ IsInjective(feed')
       /\ \A v \in Range(feed') \cap Range(feed) :
            \E u \in Users : v \in pools[u] /\ pools[u] \subseteq Range(feed)]_vars

\* A card that says "Loading..." comes to show an image, the failure, or
\* another video.
LoadingEnds ==
  \A i \in Slots, k \in {"thumb", "logo"} :
    cards[i][k].state = "loading" ~> cards[i][k].state # "loading"
=============================================================================
