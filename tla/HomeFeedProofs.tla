--------------------------- MODULE HomeFeedProofs ---------------------------
(***************************************************************************)
(* Proofs about the home page, for any page size, any lists and any        *)
(* number of image threads under way: what the cards and the page show,    *)
(* and what generateBlend and handleRefresh make of the lists.             *)
(***************************************************************************)
EXTENDS HomeFeed, FiniteSetTheorems, TLAPS

Kinds == {"thumb", "logo"}

ShapedImage(m) ==
  /\ m = [of |-> m.of, state |-> m.state, gen |-> m.gen, asked |-> m.asked]
  /\ m.gen \in Nat

ShapedCard(c) ==
  /\ c = [video |-> c.video, thumb |-> c.thumb, logo |-> c.logo]
  /\ ShapedImage(c.thumb) /\ ShapedImage(c.logo)

ShapedFetch(f) == f.slot \in Slots /\ f.kind \in Kinds /\ f.gen \in Nat

\* A fetch is not of a later number than its card's last one, and with that
\* number it is the last one.
Current(f, c) ==
  /\ f.gen <= c[f.kind].gen
  /\ f.gen = c[f.kind].gen => f.of = c[f.kind].asked

\* The card shows only what it last asked for, and that was for its video.
Own(c) ==
  /\ \A k \in Kinds : c[k].of \in {None, c[k].asked}
  /\ c.video # None => c.thumb.asked = c.video
  /\ c.video \in HasLogo => c.logo.asked = c.video

CardsInv ==
  /\ cards = [i \in Slots |-> cards[i]]
  /\ \A i \in Slots : ShapedCard(cards[i]) /\ Own(cards[i])
  /\ \A f \in fetches : ShapedFetch(f) /\ Current(f, cards[f.slot])

PageInv == offset \in Nat /\ PageShowsFeed

IInv == CardsInv /\ PageInv

LEMMA InitIInv == Init => IInv
<1> SUFFICES ASSUME Init PROVE IInv
  OBVIOUS
<1>1. \A i \in Slots : cards[i] = [video |-> None, thumb |-> NoImage, logo |-> NoImage]
  BY DEF Init
<1>2. /\ ShapedImage(NoImage) /\ NoImage.of = None
      /\ None \notin HasLogo
  BY VideosType DEF ShapedImage, NoImage
<1>3. \A i \in Slots : ShapedCard(cards[i]) /\ Own(cards[i])
  BY <1>1, <1>2 DEF ShapedCard, Own, Kinds
<1>4. CardsInv
  BY <1>3 DEF Init, CardsInv
<1>5. PageInv
  <2>1. \A i \in Slots : i \in Nat \ {0}
    BY SizesType DEF Slots
  <2>2. \A i \in Slots : ~(0 + i <= Len(<<>>))
    BY <2>1
  <2>3. feed = <<>> /\ offset = 0
    BY DEF Init
  <2>4. \A i \in Slots : ~(offset + i <= Len(feed))
    BY <2>2, <2>3, Zenon
  <2>. QED  BY <1>1, <2>3, <2>4 DEF PageInv, PageShowsFeed
<1>. QED  BY <1>4, <1>5 DEF IInv
-----------------------------------------------------------------------------
(* The card.                                                               *)

\* An image of another origin and state.
LEMMA OtherImage ==
  ASSUME NEW m, ShapedImage(m), NEW a, NEW b
  PROVE  [m EXCEPT !.of = a, !.state = b] =
           [of |-> a, state |-> b, gen |-> m.gen, asked |-> m.asked]
<1>1. m = [of |-> m.of, state |-> m.state, gen |-> m.gen, asked |-> m.asked]
  BY DEF ShapedImage
<1>2. [m EXCEPT !.of = a] = [of |-> a, state |-> m.state, gen |-> m.gen, asked |-> m.asked]
  <2>. DEFINE r == [of |-> m.of, state |-> m.state, gen |-> m.gen, asked |-> m.asked]
  <2>1. [r EXCEPT !.of = a] = [of |-> a, state |-> m.state, gen |-> m.gen, asked |-> m.asked]
    OBVIOUS
  <2>. HIDE DEF r
  <2>2. m = r
    BY <1>1 DEF r
  <2>. QED  BY <2>1, <2>2
<1>3. [[of |-> a, state |-> m.state, gen |-> m.gen, asked |-> m.asked] EXCEPT !.state = b]
        = [of |-> a, state |-> b, gen |-> m.gen, asked |-> m.asked]
  OBVIOUS
<1>4. [m EXCEPT !.of = a, !.state = b] = [[m EXCEPT !.of = a] EXCEPT !.state = b]
  OBVIOUS
<1>. QED  BY <1>2, <1>3, <1>4

LEMMA DropIsShaped ==
  ASSUME NEW m, ShapedImage(m)
  PROVE  /\ ShapedImage(Drop(m)) /\ Drop(m).gen = m.gen /\ Drop(m).asked = m.asked
         /\ Drop(m).of = None /\ Drop(m).state = "blank"
<1>1. Drop(m) = [of |-> None, state |-> "blank", gen |-> m.gen, asked |-> m.asked]
  BY OtherImage DEF Drop
<1>. QED  BY <1>1 DEF ShapedImage

LEMMA BeginIsShaped ==
  ASSUME NEW m, ShapedImage(m), NEW v
  PROVE  LET d == Begin(m, v) IN
         /\ ShapedImage(d) /\ d.gen = m.gen + 1 /\ d.asked = v
         /\ d.of = None /\ d.state = "loading"
  BY DEF Begin, ShapedImage

\* From one filling to the next: an image keeps its fetch, or begins another.
Follows(d, c) ==
  \A k \in Kinds :
    \/ d[k].gen = c[k].gen /\ d[k].asked = c[k].asked /\ d[k].state # "loading"
    \/ d[k].gen = c[k].gen + 1 /\ d[k].asked = d.video

LEMMA SetVideoIsSound ==
  ASSUME NEW c, ShapedCard(c), NEW v
  PROVE  LET d == SetVideo(c, v) IN ShapedCard(d) /\ d.video = v /\ Own(d) /\ Follows(d, c)
<1>. DEFINE d == SetVideo(c, v)
            t == Begin(c.thumb, v)
            l == IF v \in HasLogo THEN Begin(c.logo, v) ELSE Drop(c.logo)
<1>1. /\ ShapedImage(t) /\ t.of = None /\ t.gen = c.thumb.gen + 1 /\ t.asked = v
      /\ ShapedImage(l) /\ l.of = None
      /\ IF v \in HasLogo THEN l.gen = c.logo.gen + 1 /\ l.asked = v
         ELSE l.gen = c.logo.gen /\ l.asked = c.logo.asked /\ l.state = "blank"
  <2>1. ShapedImage(c.thumb) /\ ShapedImage(c.logo)
    BY DEF ShapedCard
  <2>. QED  BY <2>1, BeginIsShaped, DropIsShaped
<1>. HIDE DEF t, l
<1>2. d = [video |-> v, thumb |-> t, logo |-> l]
  BY DEF SetVideo, t, l
<1>. HIDE DEF d
<1>3. d.video = v /\ d.thumb = t /\ d.logo = l /\ d["thumb"] = t /\ d["logo"] = l
  BY <1>2
<1>4. ShapedCard(d)
  BY <1>1, <1>2, <1>3 DEF ShapedCard
<1>5. Own(d)
  BY <1>1, <1>3 DEF Own, Kinds
<1>6. Follows(d, c)
  <2>1. c["thumb"] = c.thumb /\ c["logo"] = c.logo
    OBVIOUS
  <2>. QED  BY <1>1, <1>3, <2>1 DEF Follows, Kinds
<1>. QED  BY <1>3, <1>4, <1>5, <1>6 DEF d

LEMMA ClearIsSound ==
  ASSUME NEW c, ShapedCard(c)
  PROVE  LET d == Clear(c) IN ShapedCard(d) /\ d.video = None /\ Own(d) /\ Follows(d, c)
<1>. DEFINE d == Clear(c)  t == Drop(c.thumb)  l == Drop(c.logo)
<1>1. /\ ShapedImage(t) /\ t.of = None /\ t.state = "blank"
      /\ t.gen = c.thumb.gen /\ t.asked = c.thumb.asked
      /\ ShapedImage(l) /\ l.of = None /\ l.state = "blank"
      /\ l.gen = c.logo.gen /\ l.asked = c.logo.asked
  BY DropIsShaped DEF ShapedCard
<1>. HIDE DEF t, l
<1>2. d = [video |-> None, thumb |-> t, logo |-> l]
  BY DEF Clear, t, l
<1>. HIDE DEF d
<1>3. d.video = None /\ d.thumb = t /\ d.logo = l /\ d["thumb"] = t /\ d["logo"] = l
  BY <1>2
<1>4. ShapedCard(d)
  BY <1>1, <1>2, <1>3 DEF ShapedCard
<1>5. Own(d)
  <2>1. None \notin HasLogo
    BY VideosType
  <2>. QED  BY <1>1, <1>3, <2>1 DEF Own, Kinds
<1>6. Follows(d, c)
  <2>1. c["thumb"] = c.thumb /\ c["logo"] = c.logo
    OBVIOUS
  <2>. QED  BY <1>1, <1>3, <2>1 DEF Follows, Kinds
<1>. QED  BY <1>3, <1>4, <1>5, <1>6 DEF d

\* Filling the cards leaves earlier fetches behind.
LEMMA FillCard ==
  ASSUME CardsInv, NEW i \in Slots, NEW o, NEW videos
  PROVE  LET d == Filled(o, videos)[i] IN
         /\ ShapedCard(d) /\ Own(d)
         /\ \A f \in fetches : f.slot = i => Current(f, d)
         /\ \A f \in FetchesOf(i, d) : ShapedFetch(f) /\ f.slot = i /\ Current(f, d)
         /\ d.video = IF o + i <= Len(videos) THEN videos[o + i] ELSE None
<1> DEFINE c == cards[i]  d == Filled(o, videos)[i]
<1>1. ShapedCard(c) /\ \A f \in fetches : f.slot = i => ShapedFetch(f) /\ Current(f, c)
  BY DEF CardsInv
<1>2. d = IF o + i <= Len(videos) THEN SetVideo(c, videos[o + i]) ELSE Clear(c)
  BY DEF Filled
<1>. HIDE DEF c, d
<1>3. /\ ShapedCard(d) /\ Own(d) /\ Follows(d, c)
      /\ d.video = IF o + i <= Len(videos) THEN videos[o + i] ELSE None
  <2>1. CASE o + i <= Len(videos)
    BY <1>1, <1>2, <2>1, SetVideoIsSound
  <2>2. CASE ~(o + i <= Len(videos))
    BY <1>1, <1>2, <2>2, ClearIsSound
  <2>. QED  BY <2>1, <2>2
<1>4. \A k \in Kinds : c[k].gen \in Nat /\ d[k].gen \in Nat
  BY <1>1, <1>3 DEF ShapedCard, ShapedImage, Kinds
<1>5. ASSUME NEW f \in fetches, f.slot = i PROVE Current(f, d)
  <2>1. f.kind \in Kinds /\ f.gen \in Nat /\ Current(f, c)
    BY <1>1, <1>5 DEF ShapedFetch
  <2>. QED  BY <1>3, <1>4, <2>1 DEF Current, Follows
<1>6. ASSUME NEW f \in FetchesOf(i, d) PROVE ShapedFetch(f) /\ f.slot = i /\ Current(f, d)
  <2>1. PICK k \in Kinds : /\ f = [slot |-> i, kind |-> k, gen |-> d[k].gen, of |-> d.video]
                           /\ d[k].state = "loading"
    BY DEF FetchesOf, Kinds
  <2>2. d[k].asked = d.video
    BY <1>3, <2>1 DEF Follows
  <2>. QED  BY <1>4, <2>1, <2>2 DEF ShapedFetch, Current
<1>. QED  BY <1>3, <1>5, <1>6 DEF d

LEMMA FillStep ==
  ASSUME CardsInv, NEW o, NEW videos, LoadFromBlend(o, videos)
  PROVE  CardsInv'
<1>1. cards' = Filled(offset', videos)
  BY DEF LoadFromBlend
<1>2. cards' = [i \in Slots |-> cards'[i]]
  BY <1>1 DEF Filled
<1>3. ASSUME NEW f \in fetches'
      PROVE  ShapedFetch(f) /\ Current(f, cards'[f.slot])
  <2>1. CASE f \in fetches
    BY <1>1, <2>1, FillCard DEF CardsInv, ShapedFetch
  <2>2. CASE \E i \in Slots : f \in FetchesOf(i, cards'[i])
    BY <1>1, <2>2, FillCard
  <2>. QED  BY <2>1, <2>2 DEF LoadFromBlend
<1>4. \A i \in Slots : ShapedCard(cards'[i]) /\ Own(cards'[i])
  BY <1>1, FillCard
<1>. QED  BY <1>2, <1>3, <1>4 DEF CardsInv

\* An image, or none, that came for a card.
LEMMA ImageStep ==
  ASSUME CardsInv, NEW f \in fetches, NEW image \in FetchImage(f), OnLoaded(f, image)
  PROVE  CardsInv' /\ \A i \in Slots : cards'[i].video = cards[i].video
<1> DEFINE s == f.slot  k == f.kind  c == cards[s]  d == cards'[s]
<1>1. /\ s \in Slots /\ k \in Kinds /\ ShapedCard(c) /\ Own(c) /\ Current(f, c)
      /\ cards = [i \in Slots |-> cards[i]]
  BY DEF CardsInv, ShapedFetch
<1>2. fetches' \subseteq fetches
  BY DEF OnLoaded
<1>3. CASE f.gen # c[k].gen
  BY <1>2, <1>3 DEF OnLoaded, CardsInv
<1>4. CASE f.gen = c[k].gen
  <2>1. cards' = [cards EXCEPT ![s][k].of = IF image # None THEN image ELSE @,
                               ![s][k].state = IF image # None THEN "blank" ELSE "failed"]
    BY <1>4 DEF OnLoaded
  <2>2. /\ cards' = [i \in Slots |-> cards'[i]]
        /\ \A i \in Slots : i # s => cards'[i] = cards[i]
    BY <1>1, <2>1
  <2>3. /\ ShapedCard(d) /\ d.video = c.video
        /\ \A j \in Kinds : d[j].gen = c[j].gen /\ d[j].asked = c[j].asked
        /\ \A j \in Kinds : j # k => d[j].of = c[j].of
        /\ d[k].of = IF image # None THEN image ELSE c[k].of
    <3>. DEFINE m == [of |-> IF image # None THEN image ELSE c[k].of,
                      state |-> IF image # None THEN "blank" ELSE "failed",
                      gen |-> c[k].gen, asked |-> c[k].asked]
    <3>1. ShapedImage(c[k]) /\ k \in DOMAIN c
      BY <1>1 DEF ShapedCard, Kinds
    <3>2. [c[k] EXCEPT !.of = IF image # None THEN image ELSE @,
                       !.state = IF image # None THEN "blank" ELSE "failed"] = m
      BY <3>1, OtherImage
    <3>3. d = [c EXCEPT ![k] = m]
      BY <1>1, <2>1, <3>1, <3>2
    <3>4. c = [video |-> c.video, thumb |-> c.thumb, logo |-> c.logo]
      BY <1>1 DEF ShapedCard
    <3>5. ShapedImage(m)
      BY <3>1 DEF ShapedImage
    <3>6. m.gen = c[k].gen /\ m.asked = c[k].asked /\ m.of = IF image # None THEN image ELSE c[k].of
      OBVIOUS
    <3>. HIDE DEF m, d, c
    <3>7. CASE k = "thumb"
      <4>1. d = [video |-> c.video, thumb |-> m, logo |-> c.logo]
        BY <3>3, <3>4, <3>7
      <4>. QED  BY <1>1, <3>5, <3>6, <3>7, <4>1 DEF ShapedCard, Kinds
    <3>8. CASE k = "logo"
      <4>1. d = [video |-> c.video, thumb |-> c.thumb, logo |-> m]
        BY <3>3, <3>4, <3>8
      <4>. QED  BY <1>1, <3>5, <3>6, <3>8, <4>1 DEF ShapedCard, Kinds
    <3>. QED  BY <1>1, <3>7, <3>8 DEF Kinds
  <2>4. f.of = c[k].asked
    BY <1>1, <1>4 DEF Current
  <2>5. Own(d)
    <3>1. d.thumb.asked = c.thumb.asked /\ d.logo.asked = c.logo.asked
      BY <2>3 DEF Kinds
    <3>2. \A j \in Kinds : d[j].of \in {None, d[j].asked}
      BY <1>1, <2>3, <2>4 DEF Own, FetchImage
    <3>. HIDE DEF c, d
    <3>. QED  BY <1>1, <2>3, <3>1, <3>2 DEF Own
  <2>6. ASSUME NEW g \in fetches PROVE ShapedFetch(g) /\ Current(g, cards'[g.slot])
    BY <2>2, <2>3 DEF CardsInv, Current, ShapedFetch
  <2>. QED  BY <1>2, <2>2, <2>3, <2>5, <2>6 DEF CardsInv
<1>. QED  BY <1>3, <1>4
-----------------------------------------------------------------------------
(* The page.                                                               *)

LEMMA FillShows ==
  ASSUME CardsInv, NEW o \in Nat, NEW videos, LoadFromBlend(o, videos)
  PROVE  /\ offset' \in Nat
         /\ \A i \in Slots :
              cards'[i].video = IF offset' + i <= Len(videos) THEN videos[offset' + i] ELSE None
  BY FillCard DEF LoadFromBlend

LEMMA NextIInv == IInv /\ [Next]_vars => IInv'
<1> SUFFICES ASSUME IInv, [Next]_vars PROVE IInv'
  OBVIOUS
<1>0. CardsInv /\ PageInv
  BY DEF IInv
<1>1. CASE GoHome
  <2>1. CardsInv'
    BY <1>0, <1>1, FillStep DEF GoHome
  <2>2. PageInv'
    BY <1>0, <1>1, FillShows DEF GoHome, PageInv, PageShowsFeed
  <2>. QED  BY <2>1, <2>2 DEF IInv
<1>2. CASE GoAway \/ RefreshBegins \/ OtherBlend \/ UNCHANGED vars
  <2>1. CardsInv'
    BY <1>0, <1>2 DEF GoAway, RefreshBegins, OtherBlend, vars, CardsInv
  <2>2. PageInv'
    BY <1>0, <1>2 DEF GoAway, RefreshBegins, OtherBlend, vars, PageInv, PageShowsFeed
  <2>. QED  BY <2>1, <2>2 DEF IInv
<1>3. CASE NextPage
  <2>. DEFINE o == IF feed = <<>> THEN 0 ELSE offset + PageSize
  <2>1. o \in Nat /\ LoadFromBlend(o, feed) /\ feed' = feed
    BY <1>0, <1>3, SizesType DEF NextPage, PageInv
  <2>2. CardsInv'
    BY <1>0, <2>1, FillStep
  <2>3. PageInv'
    BY <1>0, <2>1, FillShows DEF PageInv, PageShowsFeed
  <2>. QED  BY <2>2, <2>3 DEF IInv
<1>4. CASE RefreshEnds
  <2>1. LoadFromBlend(0, feed')
    BY <1>4 DEF RefreshEnds
  <2>2. CardsInv'
    BY <1>0, <2>1, FillStep
  <2>3. PageInv'
    BY <1>0, <2>1, FillShows DEF PageInv, PageShowsFeed
  <2>. QED  BY <2>2, <2>3 DEF IInv
<1>5. ASSUME NEW f \in fetches, NEW image \in FetchImage(f), OnLoaded(f, image) PROVE IInv'
  <2>1. CardsInv' /\ \A i \in Slots : cards'[i].video = cards[i].video
    BY <1>0, <1>5, ImageStep
  <2>2. PageInv'
    BY <1>0, <1>5, <2>1 DEF OnLoaded, PageInv, PageShowsFeed
  <2>. QED  BY <2>1, <2>2 DEF IInv
<1>. QED  BY <1>1, <1>2, <1>3, <1>4, <1>5 DEF Next

\* OnThumbnailLoaded and OnChannelLogoLoaded compare numbers only: that is
\* enough for a card to show only what its last fetch brought, and so nothing
\* of another video while it has one of which it fetched that image.  It is not
\* enough for a card that was cleared, or given a video without a logo: neither
\* takes a new number, and the image of the video before may come late.
THEOREM CardsShowTheirOwn == Spec => []ImagesAreTheVideos
<1>1. IInv => ImagesAreTheVideos
  BY DEF IInv, CardsInv, Own, Kinds, ImagesAreTheVideos
<1>. QED  BY <1>1, InitIInv, NextIInv, PTL DEF Spec

\* Once LoadFromBlend has run, and until another operation replaces the active
\* blend without telling the page, the page shows the videos of the blend from
\* its offset on, on as many cards as they fill, and nothing on the others.
THEOREM HomeShowsTheFeed == Spec => []PageShowsFeed
<1>1. IInv => PageShowsFeed
  BY DEF IInv, PageInv
<1>. QED  BY <1>1, InitIInv, NextIInv, PTL DEF Spec
-----------------------------------------------------------------------------
(* What the loops over a list keep.                                        *)

\* A set of naturals that is not empty has a least one.
LEMMA Least ==
  ASSUME NEW T, T \subseteq Nat, T # {}
  PROVE  \E x \in T : \A y \in T : x <= y
<1> DEFINE Below(n) == {y \in T : y <= n}
           F == {Below(n) : n \in T}
<1>1. \A n \in T : Below(n) \in FiniteSubsetsOf(Nat)
  BY FS_BoundedSetOfNaturals DEF FiniteSubsetsOf
<1>2. F \subseteq FiniteSubsetsOf(Nat) /\ F # {}
  BY <1>1
<1>3. IsWellFoundedOn(StrictSubsetOrdering(Nat), FiniteSubsetsOf(Nat))
  BY FS_StrictSubsetOrderingWellFounded
<1>4. PICK b \in F : \A c \in F : ~ (<<c, b>> \in StrictSubsetOrdering(Nat))
  BY <1>2, <1>3, WFMin
<1>5. PICK x \in T : b = Below(x)
  BY <1>4
<1>6. ASSUME NEW y \in T PROVE x <= y
  <2>1. SUFFICES ASSUME y < x PROVE FALSE
    OBVIOUS
  <2>0. \A z \in T : z \in Nat
    OBVIOUS
  <2>2. /\ \A z \in T : z <= y => z <= x
        /\ x <= x /\ ~(x <= y)
    BY <2>0, <2>1
  <2>3. Below(y) \subseteq Below(x) /\ x \in Below(x) /\ x \notin Below(y)
    BY <2>2, Zenon
  <2>4. Below(y) \in F /\ Below(y) \subseteq Nat /\ b \subseteq Nat
    BY <1>5
  <2>. QED  BY <1>4, <1>5, <2>3, <2>4 DEF StrictSubsetOrdering
<1>. QED  BY <1>6

\* How many numbers of S are below x grows with x.
LEMMA Ranks ==
  ASSUME NEW S \in SUBSET Nat, IsFiniteSet(S)
  PROVE  LET rank(x) == Cardinality({y \in S : y < x}) IN
         /\ Cardinality(S) \in Nat
         /\ \A x \in S : rank(x) \in 0 .. Cardinality(S) - 1
         /\ \A x, y \in S : x < y => rank(x) < rank(y)
         /\ \A k \in 1 .. Cardinality(S) : \E x \in S : rank(x) = k - 1
<1>. DEFINE Below(x) == {y \in S : y < x}
            rank(x) == Cardinality(Below(x))
            n == Cardinality(S)
<1>1. n \in Nat /\ \A x : IsFiniteSet(Below(x)) /\ rank(x) \in Nat
  BY FS_CardinalityType, FS_Subset
<1>2. ASSUME NEW x \in S, NEW T \in SUBSET S, Below(x) \subseteq T, x \in T
      PROVE  rank(x) < Cardinality(T) /\ Cardinality(T) \in Nat
  <2>1. IsFiniteSet(T) /\ Cardinality(T) \in Nat
    BY FS_Subset, FS_CardinalityType
  <2>2. x \notin Below(x)
    OBVIOUS
  <2>3. rank(x) <= Cardinality(T) /\ rank(x) # Cardinality(T)
    BY <1>2, <2>1, <2>2, FS_Subset
  <2>. QED  BY <1>1, <2>1, <2>3
<1>3. \A x \in S : rank(x) \in 0 .. n - 1
  <2>1. \A x \in S : rank(x) < n
    BY <1>2
  <2>. QED  BY <1>1, <2>1
<1>4. ASSUME NEW x \in S, NEW y \in S, x < y PROVE rank(x) < rank(y)
  <2>0. \A z \in S : z \in Nat
    OBVIOUS
  <2>1. \A z \in S : z < x => z < y
    BY <1>4, <2>0
  <2>2. Below(x) \subseteq Below(y) /\ x \in Below(y)
    BY <1>4, <2>1, Zenon
  <2>. QED  BY <1>2, <2>2
<1>5. ASSUME NEW k \in 1 .. n PROVE \E x \in S : rank(x) = k - 1
  <2>. DEFINE f == [x \in S |-> rank(x)]
  <2>1. f \in Injection(S, 0 .. n - 1)
    <3>1. \A x, y \in S : rank(x) = rank(y) => x = y
      BY <1>1, <1>4
    <3>. HIDE DEF rank
    <3>. QED  BY <1>3, <3>1 DEF Injection, IsInjective
  <2>2. IsFiniteSet(0 .. n - 1) /\ Cardinality(0 .. n - 1) = n
    <3>. HIDE DEF n
    <3>. QED  BY <1>1, FS_Interval
  <2>3. f \in Surjection(S, 0 .. n - 1)
    BY <2>1, <2>2, FS_Injection
  <2>. HIDE DEF rank
  <2>4. k - 1 \in 0 .. n - 1
    BY <1>1
  <2>. QED  BY <2>3, <2>4 DEF Surjection
<1>. QED  BY <1>1, <1>3, <1>4, <1>5

\* InOrder lists a set of numbers, each once, in their order.
LEMMA InOrderLists ==
  ASSUME NEW S \in SUBSET Nat, IsFiniteSet(S), NEW o, o = InOrder(S)
  PROVE  /\ Cardinality(S) \in Nat /\ o \in [1 .. Cardinality(S) -> S]
         /\ \A k, l \in 1 .. Cardinality(S) : k < l => o[k] < o[l]
         /\ \A x \in S : \E k \in 1 .. Cardinality(S) : o[k] = x
<1>. DEFINE rank(x) == Cardinality({y \in S : y < x})
            n == Cardinality(S)
<1>1. /\ n \in Nat
      /\ \A x \in S : rank(x) \in 0 .. n - 1
      /\ \A x, y \in S : x < y => rank(x) < rank(y)
      /\ \A k \in 1 .. n : \E x \in S : rank(x) = k - 1
  BY Ranks
<1>2. o = [k \in 1 .. n |-> CHOOSE x \in S : rank(x) = k - 1]
  BY DEF InOrder
<1>. HIDE DEF rank, n
<1>3. \A k \in 1 .. n : o[k] \in S /\ rank(o[k]) = k - 1
  BY <1>1, <1>2
<1>4. o \in [1 .. n -> S]
  BY <1>2, <1>3
<1>5. ASSUME NEW k \in 1 .. n, NEW l \in 1 .. n, k < l PROVE o[k] < o[l]
  <2>1. PICK x \in S, y \in S : x = o[k] /\ y = o[l] /\ rank(x) = k - 1 /\ rank(y) = l - 1
    BY <1>3
  <2>2. x \in Nat /\ y \in Nat /\ k \in Nat /\ l \in Nat
    BY <1>1
  <2>3. ~(y < x) /\ x # y
    BY <1>1, <1>5, <2>1, <2>2
  <2>. QED  BY <2>1, <2>2, <2>3
<1>6. ASSUME NEW x \in S PROVE \E k \in 1 .. n : o[k] = x
  <2>1. PICK k \in 1 .. n : k - 1 = rank(x)
    <3>1. rank(x) + 1 \in 1 .. n /\ (rank(x) + 1) - 1 = rank(x)
      BY <1>1
    <3>. QED  BY <3>1
  <2>2. PICK y \in S : y = o[k] /\ rank(y) = k - 1
    BY <1>3
  <2>3. x \in Nat /\ y \in Nat /\ rank(x) \in Nat
    BY <1>1
  <2>4. ~(x < y) /\ ~(y < x)
    BY <1>1, <2>1, <2>2, <2>3
  <2>5. y = x
    BY <2>3, <2>4
  <2>. QED  BY <2>1, <2>2, <2>5
<1>. QED  BY <1>1, <1>4, <1>5, <1>6 DEF n

\* At keeps what its positions hold, and their order.
LEMMA AtKeeps ==
  ASSUME NEW s, NEW I \in SUBSET Nat, IsFiniteSet(I),
         NEW n, n = Cardinality(I), NEW o, o = InOrder(I)
  PROVE  /\ n \in Nat /\ o \in [1 .. n -> I]
         /\ At(s, I) = [k \in 1 .. n |-> s[o[k]]]
         /\ \A k, l \in 1 .. n : k < l => o[k] < o[l]
         /\ \A i \in I : \E k \in 1 .. n : o[k] = i
<1>1. /\ n \in Nat /\ o \in [1 .. n -> I]
      /\ \A k, l \in 1 .. n : k < l => o[k] < o[l]
      /\ \A i \in I : \E k \in 1 .. n : o[k] = i
  BY InOrderLists
<1>2. DOMAIN o = 1 .. n
  BY <1>1
<1>. QED  BY <1>1, <1>2 DEF At

\* Among the occurrences of an element there is a first one.
LEMMA FirstOccurrence ==
  ASSUME NEW s, NEW n \in Nat, DOMAIN s = 1 .. n, NEW i \in DOMAIN s
  PROVE  \E f \in DOMAIN s : /\ s[f] = s[i]
                             /\ \A j \in 1 .. f - 1 : s[j] # s[f]
<1>. DEFINE T == {j \in 1 .. n : s[j] = s[i]}
<1>1. T \subseteq Nat /\ T # {}
  OBVIOUS
<1>2. PICK f \in T : \A j \in T : f <= j
  BY <1>1, Least
<1>3. \A j \in 1 .. f - 1 : j \in 1 .. n /\ ~(f <= j)
  BY <1>2
<1>. QED  BY <1>2, <1>3

\* Unique holds the elements of a sequence, each once, by first occurrence.
LEMMA UniqueKeeps ==
  ASSUME NEW A, NEW s \in Seq(A), NEW u, u = Unique(s)
  PROVE  /\ u \in Seq(A)
         /\ IsInjective(u)
         /\ Range(u) = Range(s)
         /\ \A k, l \in DOMAIN u : k < l =>
              \E c \in DOMAIN s : s[c] = u[k] /\ \A d \in DOMAIN s : s[d] = u[l] => c < d
<1>. DEFINE I == {i \in DOMAIN s : \A j \in 1 .. i - 1 : s[j] # s[i]}
            n == Cardinality(I)
            o == InOrder(I)
<1>1. DOMAIN s = 1 .. Len(s) /\ Len(s) \in Nat /\ \A i \in DOMAIN s : s[i] \in A
  OBVIOUS
<1>2. I \in SUBSET Nat /\ IsFiniteSet(I) /\ I \subseteq DOMAIN s
  <2>1. IsFiniteSet(DOMAIN s)
    BY <1>1, FS_Interval
  <2>2. I \in SUBSET DOMAIN s
    OBVIOUS
  <2>. HIDE DEF I
  <2>. QED  BY <1>1, <2>1, <2>2, FS_Subset
<1>3. /\ n \in Nat /\ o \in [1 .. n -> I]
      /\ u = [k \in 1 .. n |-> s[o[k]]]
      /\ \A k, l \in 1 .. n : k < l => o[k] < o[l]
      /\ \A i \in I : \E k \in 1 .. n : o[k] = i
  <2>1. u = At(s, I)
    BY DEF Unique
  <2>. HIDE DEF I
  <2>. QED  BY <1>2, <2>1, AtKeeps
<1>4. \A i, j \in I : s[i] = s[j] => i = j
  BY <1>1
<1>5. \A i \in DOMAIN s : \E f \in I : s[f] = s[i]
  BY <1>1, FirstOccurrence
<1>6. \A i \in I : \A d \in DOMAIN s : s[d] = s[i] => i <= d
  BY <1>1
<1>. HIDE DEF I, n, o
<1>7. u \in Seq(A) /\ DOMAIN u = 1 .. n
  <2>1. u \in [1 .. n -> A]
    BY <1>1, <1>2, <1>3
  <2>. QED  BY <1>3, <2>1
<1>8. ASSUME NEW k \in 1 .. n, NEW l \in 1 .. n, o[k] = o[l] PROVE k = l
  <2>1. o[k] \in I /\ o[l] \in I /\ k \in Nat /\ l \in Nat
    BY <1>3
  <2>. \A i \in I : i \in Nat
    BY <1>2
  <2>2. ~(k < l) /\ ~(l < k)
    BY <1>3, <1>8, <2>1
  <2>. QED  BY <2>1, <2>2
<1>9. IsInjective(u)
  BY <1>3, <1>4, <1>7, <1>8 DEF IsInjective
<1>10. Range(u) = Range(s)
  <2>1. Range(u) = {s[i] : i \in I}
    BY <1>3, <1>7 DEF Range
  <2>2. {s[i] : i \in I} = {s[i] : i \in DOMAIN s}
    BY <1>2, <1>5
  <2>. QED  BY <2>1, <2>2 DEF Range
<1>11. ASSUME NEW k \in DOMAIN u, NEW l \in DOMAIN u, k < l
       PROVE  \E c \in DOMAIN s : s[c] = u[k] /\ \A d \in DOMAIN s : s[d] = u[l] => c < d
  <2>1. o[k] \in I /\ o[l] \in I /\ o[k] < o[l] /\ u[k] = s[o[k]] /\ u[l] = s[o[l]]
    BY <1>3, <1>7, <1>11
  <2>2. \A i \in I : i \in Nat
    BY <1>2
  <2>3. \A d \in DOMAIN s : d \in Nat
    BY <1>1
  <2>4. o[k] \in Nat /\ o[l] \in Nat
    BY <2>1, <2>2
  <2>5. ASSUME NEW d \in DOMAIN s, s[d] = u[l] PROVE o[k] < d
    <3>1. s[d] = s[o[l]]
      BY <2>1, <2>5
    <3>2. o[l] <= d
      BY <1>6, <2>1, <3>1
    <3>. QED  BY <2>1, <2>3, <2>4, <3>2
  <2>. QED  BY <1>2, <2>1, <2>5
<1>. QED  BY <1>7, <1>9, <1>10, <1>11
-----------------------------------------------------------------------------
(* The blend.                                                              *)

\* m - 1 counted in rows of p, of which there are n.
LEMMA RowOf ==
  ASSUME NEW p \in Nat \ {0}, NEW n \in Nat, NEW m \in 1 .. p * n
  PROVE  /\ p * n \in Nat
         /\ ((m - 1) \div p) + 1 \in 1 .. n /\ ((m - 1) % p) + 1 \in 1 .. p
<1>. DEFINE q == (m - 1) \div p  r == (m - 1) % p
<1>1. p * n \in Nat /\ m \in Nat /\ m - 1 \in Nat /\ m - 1 < p * n
  OBVIOUS
<1>2. q \in Nat /\ r \in 0 .. p - 1 /\ m - 1 = p * q + r
  BY <1>1
<1>. HIDE DEF q, r
<1>3. q < n
  <2>1. SUFFICES ASSUME q >= n PROVE FALSE
    BY <1>2
  <2>2. \A d \in Nat : p * (n + d) = p * n + p * d /\ p * d \in Nat
    OBVIOUS
  <2>3. q - n \in Nat /\ n + (q - n) = q
    BY <1>2, <2>1
  <2>4. p * q = p * n + p * (q - n) /\ p * (q - n) \in Nat
    BY <2>2, <2>3
  <2>5. p * q \in Nat /\ p * q >= p * n
    BY <1>1, <2>4
  <2>. QED  BY <1>1, <1>2, <2>5
<1>4. q + 1 \in 1 .. n /\ r + 1 \in 1 .. p
  BY <1>2, <1>3
<1>. QED  BY <1>1, <1>4 DEF q, r

\* A user's slots hold videos of his.
LEMMA PicksAreHis ==
  ASSUME NEW pool, IsFiniteSet(pool), pool # {}, NEW pick \in Picks(pool)
  PROVE  pick \in [1 .. PerUser -> pool]
<1>1. PICK p \in SetToSeqs(pool) : pick = [i \in 1 .. PerUser |-> p[((i - 1) % Len(p)) + 1]]
  BY DEF Picks
<1>. DEFINE n == Cardinality(pool)
<1>2. n \in Nat \ {0}
  BY FS_CardinalityType, FS_EmptySet
<1>3. p \in [1 .. n -> pool]
  BY DEF SetToSeqs
<1>. HIDE DEF n
<1>4. Len(p) = n
  BY <1>2, <1>3
<1>5. \A i \in 1 .. PerUser : ((i - 1) % n) + 1 \in 1 .. n
  BY <1>2, SizesType
<1>. QED  BY <1>1, <1>3, <1>4, <1>5

\* generateBlend shows only what the lists hold.
LEMMA GeneratedFrom ==
  ASSUME NEW W \in SUBSET Users, NEW from, DOMAIN from = W,
         \A u \in W : from[u] \subseteq Videos /\ from[u] # {},
         NEW s \in Generated(from)
  PROVE  s \in Seq(Videos) /\ \A y \in Range(s) : \E u \in W : y \in from[u]
<1>. DEFINE who == SetToSeq(W)
            n == Cardinality(W)
            size == PerUser * n
<1>1. n \in Nat /\ who \in [1 .. n -> W]
  <2>1. IsFiniteSet(W)
    BY UsersType, FS_Subset
  <2>2. \E f \in [1 .. Cardinality(W) -> W] : IsInjective(f)
    BY <2>1, FS_CardinalityType DEF ExistsBijection, Bijection, Injection, IsInjective
  <2>. QED  BY <2>1, <2>2, FS_CardinalityType DEF SetToSeq
<1>2. PICK pick : /\ \A u \in W : pick[u] \in Picks(from[u])
                  /\ s \in Shuffles(Dealt(who, pick))
  BY DEF Generated
<1>. HIDE DEF who, n
<1>3. ASSUME NEW u \in W PROVE pick[u] \in [1 .. PerUser -> from[u]]
  <2>1. IsFiniteSet(from[u]) /\ from[u] # {}
    BY VideosType, FS_Subset
  <2>. QED  BY <1>2, <2>1, PicksAreHis
<1>. DEFINE d == Dealt(who, pick)
<1>4. size \in Nat /\ Len(who) = n /\ PerUser \in Nat \ {0}
  BY <1>1, SizesType
<1>5. \A m \in 1 .. size : who[((m - 1) \div PerUser) + 1] \in W /\ ((m - 1) % PerUser) + 1 \in 1 .. PerUser
  BY <1>1, <1>4, RowOf
<1>6. DOMAIN d = 1 .. size /\ \A m \in 1 .. size : \E u \in W : d[m] \in from[u]
  <2>1. d = [m \in 1 .. size |-> pick[who[((m - 1) \div PerUser) + 1]][((m - 1) % PerUser) + 1]]
    BY <1>4 DEF Dealt
  <2>. QED  BY <1>3, <1>5, <2>1
<1>7. PICK p \in SetToSeqs(1 .. size) : s = [i \in 1 .. size |-> d[p[i]]]
  BY <1>2, <1>6 DEF Shuffles
<1>8. p \in [1 .. size -> 1 .. size]
  <2>1. Cardinality(1 .. size) = size
    <3>. HIDE DEF size
    <3>. QED  BY <1>4, FS_Interval
  <2>. QED  BY <2>1 DEF SetToSeqs
<1>. HIDE DEF size, d
<1>9. \A i \in 1 .. size : \E u \in W : s[i] \in from[u]
  BY <1>6, <1>7, <1>8
<1>10. s \in [1 .. size -> Videos]
  BY <1>7, <1>9
<1>. QED  BY <1>4, <1>9, <1>10 DEF Range

PoolsInv == pools \in Lists

LEMMA PoolsStep == PoolsInv /\ [Next]_vars => PoolsInv'
  BY DEF PoolsInv, Next, vars, GoHome, GoAway, NextPage, RefreshBegins, RefreshEnds, OtherBlend,
     OnLoaded

\* handleRefresh gives generateBlend what was not shown yet, and keeps of what
\* it makes each video once: whoever's lists load and whatever is drawn, the new
\* blend repeats nothing, and shows again only what its owner has seen all of.
THEOREM RefreshShowsNew == Spec => RefreshIsFresh
<1>1. ASSUME PoolsInv, RefreshEnds, feed' # feed
      PROVE  /\ IsInjective(feed')
             /\ \A v \in Range(feed') \cap Range(feed) :
                  \E u \in Users : v \in pools[u] /\ pools[u] \subseteq Range(feed)
  <2>1. PICK who \in SUBSET Users :
          /\ \A u \in who : pools[u] # {}
          /\ \E s \in Generated([u \in who |-> Fresh(u)]) : feed' = Unique(s)
    BY <1>1 DEF RefreshEnds, Loaded
  <2>. DEFINE from == [u \in who |-> Fresh(u)]
  <2>2. PICK s \in Generated(from) : feed' = Unique(s)
    BY <2>1
  <2>3. \A u \in who : pools[u] \subseteq Videos
    BY <1>1, ListsType DEF PoolsInv
  <2>4. DOMAIN from = who /\ \A u \in who : from[u] \subseteq Videos /\ from[u] # {} /\ from[u] = Fresh(u)
    BY <2>1, <2>3 DEF Fresh
  <2>. HIDE DEF from
  <2>5. s \in Seq(Videos) /\ \A y \in Range(s) : \E u \in who : y \in from[u]
    BY <2>2, <2>4, GeneratedFrom
  <2>6. IsInjective(feed') /\ Range(feed') = Range(s)
    BY <2>2, <2>5, UniqueKeeps
  <2>7. ASSUME NEW v \in Range(feed') \cap Range(feed)
        PROVE  \E u \in Users : v \in pools[u] /\ pools[u] \subseteq Range(feed)
    <3>1. PICK u \in who : v \in Fresh(u)
      BY <2>4, <2>5, <2>6
    <3>2. v \in pools[u] /\ pools[u] \subseteq Range(feed)
      BY <3>1 DEF Fresh
    <3>. QED  BY <3>2
  <2>. QED  BY <2>6, <2>7
<1>2. PoolsInv /\ [Next]_vars =>
        [refreshing /\ feed' # feed =>
           /\ IsInjective(feed')
           /\ \A v \in Range(feed') \cap Range(feed) :
                \E u \in Users : v \in pools[u] /\ pools[u] \subseteq Range(feed)]_vars
  <2>. SUFFICES ASSUME PoolsInv, Next, refreshing, feed' # feed
                PROVE  /\ IsInjective(feed')
                       /\ \A v \in Range(feed') \cap Range(feed) :
                            \E u \in Users : v \in pools[u] /\ pools[u] \subseteq Range(feed)
    OBVIOUS
  <2>1. RefreshEnds
    BY DEF Next, GoHome, GoAway, NextPage, RefreshBegins, OtherBlend, OnLoaded
  <2>. QED  BY <1>1, <2>1
<1>3. Init => PoolsInv
  BY DEF Init, PoolsInv
<1>. QED  BY <1>2, <1>3, PoolsStep, PTL DEF Spec, RefreshIsFresh
=============================================================================
