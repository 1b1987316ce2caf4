----------------------------- MODULE ClientData -----------------------------
(***************************************************************************)
(* What the desktop client does with watch-later lists: handleUploadData   *)
(* parses a file on three threads, fetches metadata for the head of the    *)
(* list and posts it; handleLogin fetches metadata for a stored list on    *)
(* three threads and loads the participants' lists on others; both then    *)
(* generate the blend's feed and complete its metadata.                    *)
(*                                                                         *)
(* The main thread runs one of them at a time and waits for its threads.   *)
(* Any request may fail.  The metadata of a video is missing, partial (a   *)
(* title and no logo, say) or complete.  One video stands for each         *)
(* participant's share of the feed: HomeFeed has the algorithm.            *)
(***************************************************************************)
EXTENDS TakeoutParser

CONSTANTS
  Users, None,
  People,         \* the participants of the blend, as the server lists them
  Available,      \* the videos YouTube has
  UploadMax,      \* kMaxUploadEnrichmentCount
  HtmlMax,        \* kHtmlUploadMetadataThreshold
  FeedMax,        \* kMaxBlendFeedEnrichmentCount, kMaxLoginMetadataEnrichmentCount
  BatchSize,      \* kBatchSize
  Threads,        \* kBlendMetadataWorkerThreads, kLoginParticipantLoadWorkerThreads
  Files,          \* bound: the files tried
  Lists           \* bound: what the server holds at first

ASSUME VideosType == None \notin Videos \cup {"ok", "failed"} /\ Available \subseteq Videos
ASSUME PeopleType == People \in Seq(Users) /\ People # <<>>
ASSUME SizesType ==
  {UploadMax, HtmlMax, FeedMax, BatchSize, Threads} \subseteq Nat \ {0}

Missing == 0
Partial == 1
Complete == 2
Video == [id : Videos, meta : {Missing, Partial, Complete}]

ASSUME FilesType ==
  \A f \in Files :
    \/ f.kind = "html" /\ f.cells \in Seq(Cells) /\ WellFormed(f.cells)
    \/ f.kind = "csv" /\ f.cells \in Seq(Rows \cup {"header"})
                      /\ \A i \in 2 .. Len(f.cells) : f.cells[i] \in Rows
ASSUME ListsType == Lists \subseteq [Users -> Seq(Video)]

N == Len(People)
K == Min({Threads, N})

VARIABLES
  lists,        \* the server: each user's watch-later list
  job,          \* what the main thread does
  user,         \* for whom
  file, found,  \* the file, and what each section's thread found in it
  list,         \* the list the main thread works on: the upload's, then the feed
  next, answer, \* loading: each thread's next index, each request's answer
  loaded,       \* usersByIndex
  missing,      \* missingData
  completed,    \* how many are loaded
  todo,         \* enriching: the threads that still run
  enriched,     \* enrichedByID: complete metadata was found for these
  whole         \* every request for metadata was answered in full

parsing == <<file, found>>
loading == <<next, answer, loaded, missing, completed>>
enriching == <<todo, enriched, whole>>
vars == <<lists, job, user, parsing, list, loading, enriching>>

Sections == 1 .. 3
Ids(videos) == [i \in DOMAIN videos |-> videos[i].id]
Bare(ids) == [i \in DOMAIN ids |-> [id |-> ids[i], meta |-> Missing]]
NotLoading == next = <<>> /\ answer = <<>> /\ loaded = <<>> /\ missing = <<>> /\ completed = 0
NotEnriching == todo = {} /\ enriched = {} /\ whole = TRUE

Init ==
  /\ lists \in Lists
  /\ job = "idle" /\ user = None
  /\ file = None /\ found = [k \in Sections |-> None]
  /\ list = <<>>
  /\ NotLoading /\ NotEnriching
-----------------------------------------------------------------------------
(* YouTubeMetadataFetcher.                                                 *)

Batches(ids) ==
  {SubSeq(ids, b * BatchSize + 1, Min({(b + 1) * BatchSize, Len(ids)})) :
     b \in 0 .. (Len(ids) - 1) \div BatchSize}

\* Any request may fail, by an error or after ten seconds.
HttpGet(batches) == SUBSET batches

\* What YouTube answers for a batch: the videos that exist.
FetchVideoBatch(batch) == Range(batch) \cap Available

\* What it answers for the channels of these videos: logos, of some.
FetchChannelLogos(videos) == SUBSET videos

\* The answers enrich may get for ids: a batch that fails is left out.
Answers(ids) ==
  UNION {LET titles == UNION {FetchVideoBatch(b) : b \in good}
         IN  {[titles |-> titles, logos |-> logos] : logos \in FetchChannelLogos(titles)} :
           good \in HttpGet(Batches(ids))}

\* enrich: what was answered replaces a video, the rest stays as it is.
Enrich(videos, a) ==
  [i \in DOMAIN videos |->
     IF videos[i].id \notin a.titles THEN videos[i]
     ELSE [id |-> videos[i].id,
           meta |-> IF videos[i].id \in a.logos THEN Complete ELSE Partial]]
-----------------------------------------------------------------------------
(* handleUploadData.                                                       *)

StartUpload(u) ==
  /\ job = "idle" /\ user = None
  /\ job' = "parse" /\ user' = u
  /\ file' \in Files
  /\ UNCHANGED <<lists, found, list, loading, enriching>>

ParseSection(k) ==
  /\ job = "parse" /\ found[k] = None
  /\ found' = [found EXCEPT ![k] = Section(file, k)]
  /\ UNCHANGED <<lists, job, user, file, list, loading, enriching>>

Parsed == job = "parse" /\ \A k \in Sections : found[k] # None

\* parseMultiThreaded joins and merges; a file without videos ends the upload.
JoinParsers ==
  /\ Parsed
  /\ list' = Bare(Merged(found))
  /\ job' = IF list' = <<>> THEN "idle" ELSE "upload"
  /\ found' = [k \in Sections |-> None]
  /\ UNCHANGED <<lists, user, file, loading, enriching>>

\* How much of the list is enriched before it is posted.
HeadSize ==
  IF (file.kind = "html" /\ Len(list) > HtmlMax) \/ (file.kind = "csv" /\ Len(list) > UploadMax)
  THEN Min({UploadMax, Len(list)}) ELSE Len(list)

\* Mutant: what was not found stays.
UploadedAll(a) ==
  Enrich(SubSeq(list, 1, HeadSize), a) \o SubSeq(list, HeadSize + 1, Len(list))

\* The head enriched, the tail behind it, and of both what has a title.
Uploaded(a) ==
  LET all == Enrich(SubSeq(list, 1, HeadSize), a) \o SubSeq(list, HeadSize + 1, Len(list))
  IN  At(all, {i \in DOMAIN all : all[i].meta # Missing})

\* The list is posted; if that succeeds the blend is loaded, if there is one.
Upload ==
  /\ job = "upload"
  /\ \E a \in Answers(SubSeq(Ids(list), 1, HeadSize)) : list' = Uploaded(a)
  /\ \/ lists' = [lists EXCEPT ![user] = list'] /\ job' \in {"reload", "idle"}
     \/ UNCHANGED lists /\ job' = "idle"
  /\ file' = None
  /\ UNCHANGED <<user, found, loading, enriching>>
-----------------------------------------------------------------------------
(* enrichMissingMetadataSubsetMultithreaded.                               *)

IsMetadataIncomplete(v) == v.meta # Complete
HasCompleteMetadata(v) == v.meta = Complete

\* The first FeedMax videos that lack something.
Pending(videos) ==
  LET lacking == InOrder({i \in DOMAIN videos : IsMetadataIncomplete(videos[i])})
  IN  [j \in 1 .. Min({FeedMax, Len(lacking)}) |-> videos[lacking[j]].id]

Workers(videos) == Min({Threads, Len(Pending(videos))})

\* Mutant: chunks of one size, rounded down.
EvenChunk(w) ==
  LET size == Len(Pending(list)) \div Workers(list)
  IN  SubSeq(Pending(list), (w - 1) * size + 1, w * size)

\* The chunk of thread w.
Chunk(w) ==
  LET n == Len(Pending(list))
  IN  SubSeq(Pending(list), ((w - 1) * n) \div Workers(list) + 1, (w * n) \div Workers(list))

\* The main thread has a list to enrich, of a login or of a feed.
BeginEnrich(what, videos) ==
  /\ job' = what /\ list' = videos
  /\ todo' = 1 .. Workers(videos)
  /\ enriched' = {} /\ whole' = TRUE

\* Thread w fetches its chunk and keeps what came back complete.
EnrichChunk(w) ==
  /\ job \in {"own", "feed"} /\ w \in todo
  /\ todo' = todo \ {w}
  /\ \E a \in Answers(Chunk(w)) :
       /\ enriched' = enriched \cup
            {v.id : v \in {x \in Range(Enrich(Bare(Chunk(w)), a)) : HasCompleteMetadata(x)}}
       /\ whole' = (whole /\ Range(Chunk(w)) \cap Available \subseteq a.titles \cap a.logos)
  /\ UNCHANGED <<lists, job, user, parsing, list, loading>>

\* The list with what the threads found, wherever a video occurs.
Completed ==
  [i \in DOMAIN list |-> IF list[i].id \in enriched THEN [list[i] EXCEPT !.meta = Complete]
                         ELSE list[i]]
-----------------------------------------------------------------------------
(* Participants.                                                           *)

\* generateBlend, for the participants at S, if there are any.
Generate(S) ==
  IF S = {} THEN job' = "idle" /\ UNCHANGED <<list, enriching>>
  ELSE \E share \in [S -> UNION {Range(lists[People[i]]) : i \in S}] :
         /\ \A i \in S : share[i] \in Range(lists[People[i]])
         /\ BeginEnrich("feed", [j \in DOMAIN InOrder(S) |-> share[InOrder(S)[j]]])

Usable(i) == lists[People[i]] # <<>>
Good(i) == answer[i] = "ok" /\ Usable(i)

\* loadParticipantsWithWatchLater, one after the other.
LoadInTurn ==
  /\ job = "reload"
  /\ \E good \in SUBSET (1 .. N) : Generate({i \in good : Usable(i)})
  /\ UNCHANGED <<lists, user, parsing, loading>>

\* Mutant: a thread goes on with the index after.
AfterOne(i) == i + 1

\* A thread goes on with the index K further.
After(i) == i + K

\* Mutant: a request that fails is not counted.
CountGood(ok) == IF ok THEN completed + 1 ELSE completed

\* Every request is counted.
Count(ok) == completed + 1

\* loadParticipantsWithWatchLaterParallel: thread w asks for its next list.
LoadNext(w) ==
  LET i == next[w] IN
  /\ job = "load" /\ i <= N
  /\ next' = [next EXCEPT ![w] = After(i)]
  /\ \E ok \in BOOLEAN :
       /\ answer' = [answer EXCEPT ![i] = IF ok THEN "ok" ELSE "failed"]
       /\ IF ok /\ Usable(i)
          THEN loaded' = [loaded EXCEPT ![i] = lists[People[i]]] /\ UNCHANGED missing
          ELSE missing' = Append(missing, People[i]) /\ UNCHANGED loaded
       /\ completed' = Count(ok)
  /\ UNCHANGED <<lists, job, user, parsing, list, enriching>>

\* The main thread waits for the count, then joins the threads.
Loaded == job = "load" /\ completed >= N /\ \A w \in 1 .. K : next[w] > N

EndLoad ==
  /\ Loaded
  /\ Generate({i \in 1 .. N : loaded[i] # None})
  /\ next' = <<>> /\ answer' = <<>> /\ loaded' = <<>> /\ missing' = <<>> /\ completed' = 0
  /\ UNCHANGED <<lists, user, parsing>>
-----------------------------------------------------------------------------
(* handleLogin and the feed.                                               *)

\* The list of who logs in comes from the server, or it does not.
StartLogin(u) ==
  /\ job = "idle" /\ user = None
  /\ user' = u
  /\ \/ BeginEnrich("own", lists[u])
     \/ BeginEnrich("own", <<>>)
  /\ UNCHANGED <<lists, parsing, loading>>

\* After the user's own list, the participants' are loaded, if he has a blend.
EndOwn ==
  /\ job = "own" /\ todo = {}
  /\ list' = Completed
  /\ \/ job' = "idle" /\ UNCHANGED loading
     \/ /\ job' = "load"
        /\ next' = [w \in 1 .. K |-> w]
        /\ answer' = [i \in 1 .. N |-> None] /\ loaded' = answer'
        /\ missing' = <<>> /\ completed' = 0
  /\ UNCHANGED <<lists, user, parsing, enriching>>

\* enrichActiveBlendFeedIfMissingMetadata ends both.
EndFeed ==
  /\ job = "feed" /\ todo = {}
  /\ list' = Completed
  /\ job' = "idle"
  /\ UNCHANGED <<lists, user, parsing, loading, enriching>>
-----------------------------------------------------------------------------
Work ==
  \/ \E k \in Sections : ParseSection(k)
  \/ \E w \in 1 .. Threads : EnrichChunk(w)
  \/ \E w \in 1 .. K : job = "load" /\ LoadNext(w)
  \/ JoinParsers \/ Upload \/ LoadInTurn \/ EndLoad \/ EndOwn \/ EndFeed

Next == Work \/ \E u \in Users : StartUpload(u) \/ StartLogin(u)

\* The threads run, and requests end: YouTubeMetadataFetcher's after 10 seconds.
Spec == Init /\ [][Next]_vars /\ WF_vars(Work)
-----------------------------------------------------------------------------
\* Types; and the count is that of the requests that ended.
TypeOK ==
  /\ lists \in [Users -> Seq(Video)] /\ list \in Seq(Video)
  /\ job \in {"idle", "parse", "upload", "reload", "own", "load", "feed"}
  /\ user \in Users \cup {None} /\ file \in Files \cup {None}
  /\ \A k \in Sections : found[k] # None => found[k] \in Seq(Videos)
  /\ \A i \in DOMAIN loaded : loaded[i] # None => loaded[i] \in Seq(Video)
  /\ missing \in Seq(Users)
  /\ completed = Cardinality({i \in DOMAIN answer : answer[i] # None})
  /\ todo \subseteq 1 .. Threads /\ enriched \subseteq Videos /\ whole \in BOOLEAN

\* parseMultiThreaded: however the file is cut into sections, also inside an
\* href, the three threads together find what one would, each video once and in
\* the order of the file.
ParsedAsOne == Parsed => Merged(found) = Whole(file)

\* loadParticipantsWithWatchLaterParallel: when the main thread goes on, every
\* participant was asked once, and is either loaded at his place or reported
\* missing, whatever the order of the answers.
LoadedAsOne ==
  Loaded =>
    /\ \A i \in 1 .. N : loaded[i] = IF Good(i) THEN lists[People[i]] ELSE None
    /\ \A u \in Users : Cardinality({j \in DOMAIN missing : missing[j] = u}) =
                        Cardinality({i \in 1 .. N : People[i] = u /\ ~Good(i)})

\* handleUploadData: what is stored keeps the file's order, repeats no video,
\* and holds none without a title.
PostedAsParsed ==
  [][lists' # lists =>
       LET ids == Ids(lists'[user])
       IN  /\ ids = At(Ids(list), {i \in DOMAIN list : list[i].id \in Range(ids)})
           /\ IsInjective(ids)
           /\ \A i \in DOMAIN ids : lists'[user][i].meta # Missing]_vars

\* The threads that enrich a list change no video's place and worsen none, and
\* when YouTube answered in full, the first FeedMax videos that lacked something
\* are complete if YouTube has them.
EnrichImproves ==
  [][job' # job /\ job \in {"own", "feed"} =>
       /\ Ids(list') = Ids(list)
       /\ \A i \in DOMAIN list :
            /\ list'[i].meta >= list[i].meta
            /\ (whole /\ list[i].id \in Available /\ list[i].id \in Range(Pending(list))
                  => list'[i].meta = Complete)]_vars

\* Every upload and every login comes to an end, whatever fails.
JobsEnd == job # "idle" ~> job = "idle"

\* "Videos beyond this count are persisted with minimal metadata and enriched
\* later when the blend is displayed" (AppController.cpp:41): an upload stores the
\* videos it did not ask YouTube about.
DeferredArePersisted ==
  [][lists' # lists =>
       Range(SubSeq(Ids(list), HeadSize + 1, Len(list))) \subseteq Range(Ids(lists'[user]))]_vars
=============================================================================
