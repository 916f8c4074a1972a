-------------------------- MODULE AwsEnginesProofs --------------------------
(***************************************************************************)
(* What the engines behind a request of bb aws promise, for any number of  *)
(* profiles, accounts, slots and zones of a search, of targets and pages   *)
(* of a trace, and of regions and updates of a read of several.            *)
(*                                                                         *)
(* Each engine has an inductive invariant of its own over its own state;   *)
(* the last section puts them together with that of the snapshots, whose   *)
(* types SnapshotProofs has proved.                                        *)
(***************************************************************************)
EXTENDS MCAwsEngines, SnapshotProofs

-----------------------------------------------------------------------------
(* Search *)

\* A profile that is not done has missed nothing and has queries still to make;
\* only one that acquires or asks holds slots, and who is done was judged by
\* what was found.
WorkSound(w, slots) ==
    /\ w.pc # "done" => ~w.missed /\ w.zones # 0
    /\ w.pc \notin {"acquire", "query"} => w.held = 0
    /\ w.pc = "acquire" => w.held < slots
    /\ w.pc = "done" /\ w.status \in {"matched", "not_found"} =>
          ~w.missed /\ (w.status = "matched" <=> w.items)

Unsearched == {i \in SearchProfiles : WorkAt(i, "new")}

\* What the goroutine of Stream has collected is done, and when it has come to
\* the end that is all that was begun.
MainSound ==
    /\ \A i \in seReady : WorkAt(i, "done")
    /\ ~WorkAt(SearchCurrent, "new")
    /\ seMain = "current" => seReady = {} /\ Unsearched = SearchListed
    /\ seMain \in {"publish", "discover"} =>
          seReady = {SearchCurrent} /\ Unsearched = SearchListed
    /\ seMain \in {"collect", "send"} => SearchCurrent \in seReady /\ Unsearched = {}
    /\ seMain \in {"finish", "closed"} => seReady = SearchProfiles \ Unsearched

\* The one terminal update is in the channel, or was the last to be read.
LastUpdate == [profiles |-> seReady, terminal |-> TRUE]
ChannelSound ==
    /\ seMain # "closed" => ~seBuffer.terminal /\ ~seRead.terminal
    /\ seMain = "closed" =>
          seBuffer = LastUpdate \/ (seBuffer = NoUpdate /\ seRead = LastUpdate)

SearchInv ==
    /\ SearchTypeOK
    /\ \A i \in SearchProfiles : WorkSound(seWork[i], Len(SlotsOf(i)))
    /\ MainSound /\ ChannelSound

LEMMA SlotsAre == ASSUME NEW i PROVE \E n \in {2, 3} : Len(SlotsOf(i)) = n
  BY DEF SlotsOf

LEMMA SearchBegins == SearchInit => SearchInv
<1> SUFFICES ASSUME SearchInit PROVE SearchInv
  OBVIOUS
<1>0. ASSUME NEW i \in SearchProfiles
      PROVE  seWork[i] \in SearchWork /\ WorkSound(seWork[i], Len(SlotsOf(i)))
  <2>1. PICK pc \in {"credentials", "new"} :
          seWork[i] = [pc |-> pc, held |-> 0, zones |-> 1, items |-> FALSE, status |-> "none", missed |-> FALSE]
    BY DEF SearchInit
  <2>2. 1 \in 0..MaxSearchZones + 1 /\ 0 \in 0..3
    BY SearchAssumption
  <2>3. seWork[i] \in SearchWork
    BY <2>1, <2>2 DEF SearchWork, SearchStatuses
  <2>4. seWork[i].pc = pc /\ seWork[i].zones = 1 /\ seWork[i].held = 0 /\ seWork[i].missed = FALSE
    BY <2>1
  <2>5. WorkSound(seWork[i], Len(SlotsOf(i)))
    BY <2>4 DEF WorkSound
  <2> QED BY <2>3, <2>5
<1>1. SearchTypeOK
  <2>1. seWork \in [SearchProfiles -> SearchWork]
    BY <1>0 DEF SearchInit
  <2>2. NoUpdate \in [profiles : SUBSET SearchProfiles, terminal : BOOLEAN]
    BY DEF NoUpdate
  <2>3. {seBuffer, seRead} \subseteq [profiles : SUBSET SearchProfiles, terminal : BOOLEAN]
    BY <2>2 DEF SearchInit
  <2> QED BY <2>1, <2>3 DEF SearchInit, SearchTypeOK
<1>2. ASSUME NEW i \in SearchProfiles PROVE WorkSound(seWork[i], Len(SlotsOf(i)))
  BY <1>0
<1>3. MainSound
  BY SearchAssumption DEF SearchInit, MainSound, Unsearched, WorkAt, SearchProfiles
<1>4. ChannelSound
  BY DEF SearchInit, ChannelSound, NoUpdate
<1> QED BY <1>1, <1>2, <1>3, <1>4 DEF SearchInv

(* A profile at work may do anything that keeps its record sound. *)
LEMMA WorkKeepsSearch ==
  ASSUME SearchInv, NEW i \in SearchProfiles, NEW w \in SearchWork, WorkGoes(i, w),
         WorkSound(w, Len(SlotsOf(i))), ~WorkAt(i, "new"), ~WorkAt(i, "done"), w.pc # "new"
  PROVE  SearchInv'
<1>1. /\ seWork' = [seWork EXCEPT ![i] = w] /\ seWork \in [SearchProfiles -> SearchWork]
      /\ UNCHANGED <<seDomain, seListing, seMain, seReady, seBuffer, seRead, seCancelled>>
  BY DEF WorkGoes, WorkKeeps, SearchInv, SearchTypeOK
<1>2. SearchTypeOK'
  BY <1>1 DEF SearchInv, SearchTypeOK
<1>3. \A j : SlotsOf(j)' = SlotsOf(j)
  BY <1>1 DEF SlotsOf
<1>4. ASSUME NEW j \in SearchProfiles PROVE WorkSound(seWork'[j], Len(SlotsOf(j)'))
  BY <1>1, <1>3 DEF SearchInv
<1>5. /\ Unsearched' = Unsearched /\ i \notin seReady
      /\ \A j \in SearchProfiles \ {i} : \A pc : WorkAt(j, pc)' = WorkAt(j, pc)
      /\ ~WorkAt(i, "new")'
  BY <1>1 DEF Unsearched, WorkAt, SearchInv, MainSound
<1>6. MainSound'
  <2>1. seReady \subseteq SearchProfiles \ {i} /\ SearchCurrent \in SearchProfiles
    BY <1>5 DEF SearchInv, SearchTypeOK, SearchProfiles
  <2>2. \A j \in seReady : WorkAt(j, "done")'
    BY <1>5, <2>1 DEF SearchInv, MainSound
  <2>3. ~WorkAt(SearchCurrent, "new")'
    BY <1>5, <2>1 DEF SearchInv, MainSound
  <2> QED BY <1>1, <1>5, <2>2, <2>3 DEF SearchInv, MainSound
<1>7. ChannelSound'
  BY <1>1 DEF ChannelSound, LastUpdate, SearchInv
<1> QED BY <1>2, <1>4, <1>6, <1>7 DEF SearchInv

(* Whoever ends early leaves nothing behind and claims nothing. *)
LEMMA DoneKeepsSearch ==
  ASSUME SearchInv, NEW i \in SearchProfiles, NEW status \in {"failed", "cancelled", "not_searched"},
         WorkGoes(i, SearchDone(seWork[i], status, TRUE)), ~WorkAt(i, "new"), ~WorkAt(i, "done")
  PROVE  SearchInv'
<1> DEFINE w == SearchDone(seWork[i], status, TRUE)
<1>1. seWork[i] \in SearchWork
  BY DEF SearchInv, SearchTypeOK
<1>4. w = [seWork[i] EXCEPT !.pc = "done", !.held = 0, !.status = status, !.missed = TRUE]
  BY <1>1 DEF SearchDone, SearchWork
<1>5. w.pc = "done" /\ w.held = 0 /\ w.status = status
  BY <1>1, <1>4 DEF SearchWork
<1>2. w \in SearchWork /\ w.pc = "done" /\ w.held = 0 /\ w.status = status
  <2>1. status \in SearchStatuses /\ 0 \in 0..3
    BY DEF SearchStatuses
  <2>2. w \in SearchWork
    BY <1>1, <1>4, <2>1 DEF SearchWork
  <2> QED BY <1>5, <2>2
<1> HIDE DEF w
<1>3. WorkSound(w, Len(SlotsOf(i)))
  BY <1>2 DEF WorkSound
<1> QED BY <1>2, <1>3, WorkKeepsSearch DEF w

LEMMA WorksKeepSearch ==
  ASSUME SearchInv, NEW i \in SearchProfiles, SearchWorks(i)
  PROVE  SearchInv'
<1>1. seWork[i] \in SearchWork /\ WorkSound(seWork[i], Len(SlotsOf(i))) /\ MaxSearchZones \in Nat
  BY SearchAssumption DEF SearchInv, SearchTypeOK
<1>0. PICK n \in {2, 3} : Len(SlotsOf(i)) = n
  BY SlotsAre
<1>2. CASE AcquireCredentials(i)
  <2>1. CASE seCancelled
    BY <1>2, <2>1, DoneKeepsSearch DEF AcquireCredentials, WorkAt
  <2>2. CASE ~seCancelled
    <3> DEFINE w == [seWork[i] EXCEPT !.pc = "resolve"]
    <3>1. w \in SearchWork /\ WorkSound(w, Len(SlotsOf(i))) /\ w.pc # "new"
      BY <1>1, <1>2 DEF SearchWork, WorkSound, AcquireCredentials, WorkAt
    <3>2. WorkGoes(i, w) /\ ~WorkAt(i, "new") /\ ~WorkAt(i, "done")
      BY <1>2, <2>2 DEF AcquireCredentials, WorkAt
    <3> QED BY <3>1, <3>2, WorkKeepsSearch
  <2> QED BY <2>1, <2>2
<1>3. ASSUME NEW ok \in BOOLEAN, ResolveProfile(i, ok) PROVE SearchInv'
  <2>1. CASE ~ok
    BY <1>3, <2>1, DoneKeepsSearch DEF ResolveProfile, WorkAt
  <2>2. CASE ok
    <3> DEFINE w == [seWork[i] EXCEPT !.pc = "acquire"]
    <3>1. w \in SearchWork /\ WorkSound(w, Len(SlotsOf(i))) /\ w.pc # "new"
      <4>1. seWork[i].pc = "resolve"
        BY <1>3 DEF ResolveProfile, WorkAt
      <4> QED BY <1>0, <1>1, <4>1 DEF SearchWork, WorkSound
    <3>2. WorkGoes(i, w) /\ ~WorkAt(i, "new") /\ ~WorkAt(i, "done")
      BY <1>3, <2>2 DEF ResolveProfile, WorkAt
    <3> QED BY <3>1, <3>2, WorkKeepsSearch
  <2> QED BY <2>1, <2>2
<1>4. CASE AcquireSlot(i)
  <2>1. CASE seCancelled
    BY <1>4, <2>1, DoneKeepsSearch DEF AcquireSlot, WorkAt
  <2>2. CASE ~seCancelled
    <3> DEFINE pc == IF seWork[i].held + 1 = n THEN "query" ELSE "acquire"
               w == [seWork[i] EXCEPT !.held = @ + 1, !.pc = pc]
    <3>1. WorkGoes(i, w) /\ ~WorkAt(i, "new") /\ ~WorkAt(i, "done") /\ seWork[i].pc = "acquire"
      BY <1>0, <1>4, <2>2 DEF AcquireSlot, WorkAt
    <3>2. seWork[i].held \in 0..3 /\ seWork[i].held < n
      BY <1>0, <1>1, <3>1 DEF SearchWork, WorkSound
    <3>3. /\ pc \in {"query", "acquire"} /\ seWork[i].held + 1 \in 0..3
          /\ pc = "acquire" => seWork[i].held + 1 < n
      BY <3>2
    <3> HIDE DEF pc
    <3>4. w \in SearchWork /\ WorkSound(w, Len(SlotsOf(i))) /\ w.pc # "new"
      BY <1>0, <1>1, <3>1, <3>3 DEF SearchWork, WorkSound
    <3> QED BY <3>1, <3>4, WorkKeepsSearch
  <2> QED BY <2>1, <2>2
<1>5. CASE QueryFails(i)
  BY <1>5, DoneKeepsSearch DEF QueryFails, RecordsFail, WorkAt
<1>6. ASSUME NEW found \in BOOLEAN, NEW zones \in 0..MaxSearchZones, QueryAnswers(i, found, zones)
      PROVE  SearchInv'
  <2> DEFINE first == seDomain /\ seWork[i].status = "none"
             left == IF first THEN zones ELSE seWork[i].zones - 1
             items == seWork[i].items \/ (found /\ ~first)
             pc == IF left = 0 THEN "done" ELSE "acquire"
             status == IF left = 0 /\ items THEN "matched" ELSE "not_found"
             w == [seWork[i] EXCEPT !.held = 0, !.zones = left, !.items = items, !.pc = pc,
                                    !.status = status]
  <2>1. WorkGoes(i, w) /\ ~WorkAt(i, "new") /\ ~WorkAt(i, "done") /\ seWork[i].pc = "query"
    BY <1>6 DEF QueryAnswers, WorkAt
  <2>2. seWork[i].zones \in 1..MaxSearchZones + 1 /\ ~seWork[i].missed
    BY <1>1, <2>1 DEF SearchWork, WorkSound
  <2>3. left \in 0..MaxSearchZones + 1
    <3>1. zones \in 0..MaxSearchZones + 1 /\ seWork[i].zones - 1 \in 0..MaxSearchZones + 1
      BY <1>1, <2>2
    <3> HIDE DEF first
    <3> QED BY <3>1
  <2>4. items \in BOOLEAN
    BY <1>1 DEF SearchWork
  <2>5. /\ pc \in {"done", "acquire"} /\ (pc = "done" <=> left = 0)
        /\ status \in {"matched", "not_found"} /\ (pc = "done" => (status = "matched" <=> items))
    BY <2>4
  <2> HIDE DEF left, items, pc, status
  <2>6. PICK any \in BOOLEAN : any = items
    BY <2>4
  <2>7. [seWork[i] EXCEPT !.held = 0, !.zones = left, !.items = any, !.pc = pc, !.status = status] \in SearchWork
    <3>1. status \in SearchStatuses /\ 0 \in 0..3 /\ pc \in {"done", "acquire"}
      BY <2>5 DEF SearchStatuses
    <3>2. seWork[i] \in SearchWork
      BY <1>1
    <3> QED BY <2>3, <3>1, <3>2 DEF SearchWork
  <2>8. w = [seWork[i] EXCEPT !.held = 0, !.zones = left, !.items = any, !.pc = pc, !.status = status]
    BY <2>6
  <2>9. w.pc = pc /\ w.held = 0 /\ w.zones = left /\ w.items = any /\ w.status = status
        /\ w.missed = seWork[i].missed
    BY <1>1, <2>8 DEF SearchWork
  <2> HIDE DEF w
  <2>10. WorkSound(w, Len(SlotsOf(i))) /\ w.pc # "new"
    BY <1>0, <2>2, <2>5, <2>6, <2>9 DEF WorkSound
  <2> QED BY <2>1, <2>7, <2>8, <2>10, WorkKeepsSearch
<1> QED BY <1>2, <1>3, <1>4, <1>5, <1>6 DEF SearchWorks

LEMMA StreamsKeepSearch == ASSUME SearchInv, SearchStreams PROVE SearchInv'
<1>1. CASE CurrentSearched
  <2>1. SearchTypeOK'
    BY <1>1 DEF CurrentSearched, MainGoes, MainKeeps, SearchInv, SearchTypeOK, SearchProfiles
  <2>2. Unsearched' = Unsearched /\ \A j, pc : WorkAt(j, pc)' = WorkAt(j, pc)
    BY <1>1 DEF CurrentSearched, MainKeeps, Unsearched, WorkAt
  <2>3. SearchProfiles \ SearchListed = {SearchCurrent}
    BY SearchAssumption DEF SearchProfiles
  <2>4. MainSound'
    BY <1>1, <2>2, <2>3 DEF CurrentSearched, MainGoes, SearchInv, MainSound
  <2>5. ChannelSound'
    BY <1>1 DEF CurrentSearched, MainGoes, MainKeeps, SearchInv, ChannelSound, LastUpdate
  <2>6. UNCHANGED <<seDomain, seWork>>
    BY <1>1 DEF CurrentSearched, MainKeeps
  <2> QED BY <2>1, <2>4, <2>5, <2>6 DEF SearchInv, SlotsOf
<1>2. CASE PublishProgress
  <2>1. seReady \in SUBSET SearchProfiles
    BY DEF SearchInv, SearchTypeOK
  <2>2. SearchTypeOK'
    <3>1. seMain' \in {"discover", "collect"}
      BY <1>2 DEF PublishProgress, MainGoes
    <3>2. seBuffer' = [profiles |-> seReady, terminal |-> FALSE] \/ seBuffer' = seBuffer
      BY <1>2 DEF PublishProgress
    <3>3. UNCHANGED <<seDomain, seWork, seListing, seRead, seCancelled, seReady>>
      BY <1>2 DEF PublishProgress, MainKeeps
    <3>4. seBuffer' \in [profiles : SUBSET SearchProfiles, terminal : BOOLEAN]
      <4>1. seBuffer \in [profiles : SUBSET SearchProfiles, terminal : BOOLEAN]
        BY DEF SearchInv, SearchTypeOK
      <4>2. [profiles |-> seReady, terminal |-> FALSE] \in [profiles : SUBSET SearchProfiles, terminal : BOOLEAN]
        BY <2>1
      <4> QED BY <3>2, <4>1, <4>2, Zenon
    <3> QED BY <3>1, <3>3, <3>4 DEF SearchInv, SearchTypeOK
  <2>3. Unsearched' = Unsearched /\ \A j, pc : WorkAt(j, pc)' = WorkAt(j, pc)
    BY <1>2 DEF PublishProgress, MainKeeps, Unsearched, WorkAt
  <2>4. MainSound'
    BY <1>2, <2>3 DEF PublishProgress, MainGoes, SearchInv, MainSound
  <2>5. ChannelSound'
    BY <1>2 DEF PublishProgress, MainGoes, MainKeeps, SearchInv, ChannelSound, LastUpdate
  <2>6. UNCHANGED <<seDomain, seWork>>
    BY <1>2 DEF PublishProgress, MainKeeps
  <2> QED BY <2>2, <2>4, <2>5, <2>6 DEF SearchInv, SlotsOf
<1>3. ASSUME NEW ok \in BOOLEAN, ListProfiles(ok) PROVE SearchInv'
  <2>1. UNCHANGED <<seDomain, seWork, seMain, seReady, seBuffer, seRead, seCancelled>>
        /\ seListing' \in {"listed", "failed"}
    BY <1>3 DEF ListProfiles
  <2> QED BY <2>1 DEF SearchInv, SearchTypeOK, MainSound, Unsearched, WorkAt, ChannelSound, LastUpdate, SlotsOf
<1>4. CASE Discovered
  <2> DEFINE others == IF seListing = "listed" THEN SearchListed ELSE {}
  <2>1. /\ seMain = "discover" /\ seMain' = IF others = {} THEN "finish" ELSE "collect"
        /\ seWork' = [j \in SearchProfiles |->
                        IF j \in others THEN [seWork[j] EXCEPT !.pc = "credentials"] ELSE seWork[j]]
        /\ UNCHANGED <<seDomain, seListing, seReady, seBuffer, seRead, seCancelled>>
    BY <1>4 DEF Discovered, MainGoes
  <2>2. others = {} \/ others = SearchListed
    OBVIOUS
  <2> HIDE DEF others
  <2>3. /\ seReady = {SearchCurrent} /\ Unsearched = SearchListed /\ WorkAt(SearchCurrent, "done")
        /\ SearchProfiles \ SearchListed = {SearchCurrent} /\ SearchListed \subseteq SearchProfiles
    BY <2>1, SearchAssumption DEF SearchInv, MainSound, SearchProfiles
  <2>4. ASSUME NEW j \in SearchProfiles
        PROVE  /\ seWork'[j] \in SearchWork /\ WorkSound(seWork'[j], Len(SlotsOf(j)))
               /\ j \in others => seWork'[j].pc = "credentials"
               /\ j \notin others => seWork'[j] = seWork[j]
    <3>1. seWork[j] \in SearchWork /\ WorkSound(seWork[j], Len(SlotsOf(j)))
      BY DEF SearchInv, SearchTypeOK
    <3>2. CASE j \in others
      <4>1. seWork[j].pc = "new"
        BY <2>2, <2>3, <3>2 DEF Unsearched, WorkAt
      <4>2. seWork'[j] = [seWork[j] EXCEPT !.pc = "credentials"]
        BY <2>1, <3>2
      <4> QED BY <3>1, <3>2, <4>1, <4>2 DEF SearchWork, WorkSound
    <3>3. CASE j \notin others
      BY <2>1, <3>1, <3>3
    <3> QED BY <3>2, <3>3
  <2>5. SearchTypeOK'
    BY <2>1, <2>4 DEF SearchInv, SearchTypeOK
  <2>6. /\ others = {} => Unsearched' = SearchListed
        /\ others # {} => Unsearched' = {}
        /\ WorkAt(SearchCurrent, "done")'
    BY <2>2, <2>3, <2>4 DEF Unsearched, WorkAt
  <2>7. MainSound'
    BY <2>1, <2>3, <2>6 DEF MainSound, WorkAt
  <2>8. ChannelSound'
    BY <2>1 DEF SearchInv, ChannelSound
  <2> QED BY <2>1, <2>4, <2>5, <2>7, <2>8 DEF SearchInv, SlotsOf
<1>5. ASSUME NEW i \in SearchListed, CollectProfile(i) PROVE SearchInv'
  <2>1. /\ seMain = "collect" /\ WorkAt(i, "done") /\ seReady' = seReady \cup {i}
        /\ seMain' = IF seReady' = SearchProfiles THEN "finish" ELSE "send"
        /\ UNCHANGED <<seDomain, seWork, seListing, seRead, seCancelled, seBuffer>>
    BY <1>5 DEF CollectProfile, MainGoes, MainKeeps
  <2>2. SearchTypeOK'
    BY <2>1 DEF SearchInv, SearchTypeOK, SearchProfiles
  <2>3. Unsearched' = Unsearched /\ \A j, pc : WorkAt(j, pc)' = WorkAt(j, pc)
    BY <2>1 DEF Unsearched, WorkAt
  <2>4. MainSound'
    BY <2>1, <2>3 DEF SearchInv, MainSound
  <2>5. ChannelSound'
    BY <2>1 DEF SearchInv, ChannelSound
  <2> QED BY <2>1, <2>2, <2>4, <2>5 DEF SearchInv, SlotsOf
<1>6. CASE FinishSearch
  <2>1. /\ seMain = "finish" /\ seMain' = "closed" /\ seBuffer' = LastUpdate
        /\ UNCHANGED <<seDomain, seWork, seListing, seRead, seCancelled, seReady>>
    BY <1>6 DEF FinishSearch, MainGoes, MainKeeps, TerminalPlaced, LastUpdate
  <2>2. SearchTypeOK'
    BY <2>1 DEF SearchInv, SearchTypeOK, LastUpdate
  <2>3. MainSound'
    BY <2>1 DEF SearchInv, MainSound, Unsearched, WorkAt
  <2>4. ChannelSound'
    BY <2>1 DEF ChannelSound, LastUpdate
  <2> QED BY <2>1, <2>2, <2>3, <2>4 DEF SearchInv, SlotsOf
<1> QED BY <1>1, <1>2, <1>3, <1>4, <1>5, <1>6 DEF SearchStreams

LEMMA SearchKeeps == SearchInv /\ [SearchNext]_searchVars => SearchInv'
<1> SUFFICES ASSUME SearchInv, [SearchNext]_searchVars PROVE SearchInv'
  OBVIOUS
<1>1. CASE ReadUpdate
  <2>1. /\ seBuffer # NoUpdate /\ seRead' = seBuffer /\ seBuffer' = NoUpdate
        /\ UNCHANGED <<seDomain, seWork, seListing, seMain, seReady, seCancelled>>
    BY <1>1 DEF ReadUpdate
  <2>2. SearchTypeOK' /\ MainSound'
    BY <2>1 DEF SearchInv, SearchTypeOK, NoUpdate, MainSound, Unsearched, WorkAt
  <2>3. ChannelSound'
    BY <2>1 DEF SearchInv, ChannelSound, LastUpdate, NoUpdate
  <2> QED BY <2>1, <2>2, <2>3 DEF SearchInv, SlotsOf
<1>2. CASE CancelSearch
  BY <1>2 DEF CancelSearch, SearchInv, SearchTypeOK, MainSound, Unsearched, WorkAt, ChannelSound, LastUpdate, SlotsOf
<1>3. CASE UNCHANGED searchVars
  BY <1>3 DEF searchVars, SearchInv, SearchTypeOK, MainSound, Unsearched, WorkAt, ChannelSound, LastUpdate, SlotsOf
<1> QED BY <1>1, <1>2, <1>3, WorksKeepSearch, StreamsKeepSearch DEF SearchNext

LEMMA SearchInvIsEnough == SearchInv => SearchReportsWhatItSearched
<1> SUFFICES ASSUME SearchInv PROVE SearchReportsWhatItSearched
  OBVIOUS
<1>1. CertainWhenSearched /\ DoneHoldsNothing
  BY DEF SearchInv, CertainWhenSearched, DoneHoldsNothing, WorkSound, WorkAt
<1>2. EndsWithAll
  <2>1. seReady \in SUBSET SearchProfiles
    BY DEF SearchInv, SearchTypeOK
  <2>2. ASSUME seMain = "closed"
        PROVE  \E update \in {seBuffer, seRead} :
                 /\ update.terminal /\ \A i \in update.profiles : WorkAt(i, "done")
                 /\ update.profiles = {i \in SearchProfiles : seWork[i].pc # "new"}
                 /\ seBuffer \in {NoUpdate, update}
    <3>1. LastUpdate \in {seBuffer, seRead} /\ seBuffer \in {NoUpdate, LastUpdate}
      BY <2>2 DEF SearchInv, ChannelSound
    <3>2. /\ LastUpdate.terminal /\ LastUpdate.profiles = seReady
          /\ \A i \in seReady : WorkAt(i, "done")
      BY DEF LastUpdate, SearchInv, MainSound
    <3>3. seReady = {i \in SearchProfiles : seWork[i].pc # "new"}
      BY <2>2 DEF SearchInv, MainSound, Unsearched, WorkAt
    <3> QED BY <3>1, <3>2, <3>3
  <2> QED BY <2>2, Zenon DEF EndsWithAll, SearchInv, ChannelSound
<1> QED BY <1>1, <1>2 DEF SearchReportsWhatItSearched

-----------------------------------------------------------------------------
(* Trace *)

\* A trace that asks has a target to ask about and room for what it answers, and
\* one that has come to its end has nothing left in its queue or says so.
TraceInv ==
    /\ TraceTypeOK /\ TraceBounded /\ IsFiniteSet(trRows)
    /\ \A i \in DOMAIN trAsked : trAsked[i] \in trSeen
    /\ trPc = "ask" => trQueue # <<>> /\ Cardinality(trRows) < MaxTraceResources
    /\ trPc \in {"final", "ended"} /\ ~trCancelled => trFailure # "none" \/ trQueue = <<>>

Page == Seq([target : TraceTargets, relation : TraceTargets])

LEMMA PageHas ==
  ASSUME NEW page \in Page, NEW i \in 1..Len(page)
  PROVE  page[i].target \in TraceTargets /\ page[i].relation \in TraceTargets
<1> DEFINE R == [target : TraceTargets, relation : TraceTargets]
<1>1. page \in Seq(R)
  BY DEF Page
<1> HIDE DEF R
<1>2. page[i] \in R
  BY <1>1
<1> QED BY <1>2 DEF R

\* The step of the function in Followed.
FollowStep(page, kept, f, i) ==
    IF i = 0 THEN <<>>
    ELSE IF Follows(page, kept, i) THEN Append(f[i - 1], page[i].relation)
    ELSE f[i - 1]

(* There is a function that Followed describes, up to every length. *)
LEMMA FollowedExists ==
  ASSUME NEW page \in Page, NEW kept
  PROVE  \E f : f = [i \in 0..Len(page) |-> FollowStep(page, kept, f, i)]
<1> DEFINE None0 == {n \in Nat : ~\E f : f = [i \in 0..n |-> FollowStep(page, kept, f, i)]}
<1>1. ASSUME None0 # {} PROVE FALSE
  <2>1. PICK n \in None0 : \A m \in None0 : n <= m
    BY <1>1, LeastNumber
  <2>2. n # 0
    <3>1. SUFFICES ASSUME n = 0 PROVE FALSE
      OBVIOUS
    <3> DEFINE f == [i \in 0..0 |-> <<>>]
    <3>2. f = [i \in 0..0 |-> FollowStep(page, kept, f, i)]
      BY DEF FollowStep
    <3> QED BY <2>1, <3>1, <3>2
  <2>3. n - 1 \in Nat /\ n - 1 \notin None0 /\ n \in Nat
    BY <2>1, <2>2
  <2>4. PICK f : f = [i \in 0..n - 1 |-> FollowStep(page, kept, f, i)]
    BY <2>3
  <2> DEFINE g == [i \in 0..n |-> IF i = n THEN FollowStep(page, kept, f, i) ELSE f[i]]
  <2>5. ASSUME NEW i \in 0..n PROVE g[i] = FollowStep(page, kept, g, i)
    <3>1. i # 0 => i - 1 \in 0..n /\ i - 1 # n
      BY <2>3
    <3>2. i # 0 => g[i - 1] = f[i - 1]
      BY <3>1
    <3>3. FollowStep(page, kept, g, i) = FollowStep(page, kept, f, i)
      BY <3>2 DEF FollowStep
    <3>4. i # n => f[i] = FollowStep(page, kept, f, i)
      <4>1. i # n => i \in 0..n - 1
        BY <2>3
      <4> QED BY <2>4, <4>1
    <3> QED BY <3>3, <3>4
  <2>6. g = [i \in 0..n |-> FollowStep(page, kept, g, i)]
    BY <2>5
  <2> QED BY <2>1, <2>6
<1>2. Len(page) \in Nat
  BY DEF Page
<1> QED BY <1>1, <1>2

(* What a page leads to is a sequence of targets. *)
LEMMA FollowedType ==
  ASSUME NEW page \in Page, NEW kept
  PROVE  Followed(page, kept) \in Seq(TraceTargets)
<1> DEFINE n == Len(page)
<1>1. PICK f : f = [i \in 0..n |-> FollowStep(page, kept, f, i)] /\ Followed(page, kept) = f[n]
  BY FollowedExists DEF Followed, FollowStep
<1>2. n \in Nat
  BY DEF Page
<1> DEFINE Bad == {i \in 0..n : f[i] \notin Seq(TraceTargets)}
<1>3. ASSUME Bad # {} PROVE FALSE
  <2>1. PICK i \in Bad : \A j \in Bad : i <= j
    <3>1. Bad \in SUBSET Nat
      BY <1>2
    <3> HIDE DEF Bad
    <3> QED BY <1>3, <3>1, LeastNumber
  <2>2. i \in 0..n /\ f[i] = FollowStep(page, kept, f, i)
    BY <1>1, <2>1
  <2>3. i # 0
    <3>1. f[i] \notin Seq(TraceTargets) /\ <<>> \in Seq(TraceTargets)
      BY <2>1
    <3> QED BY <2>2, <3>1 DEF FollowStep
  <2>4. i - 1 \in 0..n /\ i - 1 \notin Bad /\ i \in 1..n
    BY <1>2, <2>1, <2>2, <2>3
  <2>5. f[i - 1] \in Seq(TraceTargets)
    BY <2>4
  <2>6. page[i].relation \in TraceTargets
    BY <2>4, PageHas
  <2>7. f[i] \in Seq(TraceTargets)
    BY <2>2, <2>5, <2>6, <2>3 DEF FollowStep
  <2> QED BY <2>1, <2>7
<1>4. n \in 0..n
  BY <1>2
<1> QED BY <1>1, <1>3, <1>4

(* The new rows that are kept of a page are no more than there was room for. *)
LEMMA KeptFits ==
  ASSUME NEW page \in Page, NEW room \in Nat, NEW kept, kept = KeptOf(page, room),
         IsFiniteSet(trRows)
  PROVE  LET rows == {page[i].target : i \in kept}
         IN  /\ IsFiniteSet(trRows \cup rows) /\ rows \subseteq TraceTargets
             /\ Cardinality(trRows \cup rows) <= Cardinality(trRows) + room
<1> DEFINE rows == {page[i].target : i \in kept}
<1>1. kept \subseteq 1..Len(page) /\ Len(page) \in Nat /\ DOMAIN page = 1..Len(page)
  BY DEF KeptOf, Page
<1>2. \A i \in 1..Len(page) : page[i].target \in TraceTargets
  BY PageHas
<1>3. rows \subseteq TraceTargets
  BY <1>1, <1>2
<1>4. CASE kept = {}
  <2>1. trRows \cup rows = trRows
    BY <1>4
  <2>2. Cardinality(trRows) \in Nat
    BY FS_CardinalityType
  <2>3. Cardinality(trRows) <= Cardinality(trRows) + room
    BY <2>2
  <2> QED BY <1>3, <2>1, <2>3
<1>5. CASE kept # {}
  <2>1. PICK m \in kept : \A i \in kept : i <= m
    <3> DEFINE Below == {Len(page) - i : i \in kept}
    <3>1. Below \in SUBSET Nat /\ Below # {}
      BY <1>1, <1>5
    <3>2. PICK x \in Below : \A y \in Below : x <= y
      BY <3>1, LeastNumber
    <3>3. PICK m \in kept : x = Len(page) - m
      BY <3>2
    <3>4. \A i \in kept : i <= m
      <4> SUFFICES ASSUME NEW i \in kept PROVE i <= m
        OBVIOUS
      <4>1. Len(page) - m <= Len(page) - i
        BY <3>2, <3>3
      <4>2. i \in Int /\ m \in Int /\ Len(page) \in Int
        BY <1>1
      <4> QED BY <4>1, <4>2
    <3> QED BY <3>4
  <2> DEFINE all == {page[j].target : j \in 1..m}
             new == all \ trRows
  <2>2. Cardinality(new) <= room /\ m \in 1..Len(page)
    BY <1>1, <2>1 DEF KeptOf
  <2>3. IsFiniteSet(all)
    <3> DEFINE f == [j \in 1..m |-> page[j].target]
    <3>1. f \in Surjection(1..m, all)
      BY DEF Surjection
    <3>2. IsFiniteSet(1..m)
      BY <2>2, <1>1, FS_Interval
    <3> HIDE DEF all, f
    <3> QED BY <3>1, <3>2, FS_Surjection
  <2>4. IsFiniteSet(new)
    BY <2>3, FS_Difference
  <2>5. rows \subseteq new
    <3> SUFFICES ASSUME NEW i \in kept PROVE page[i].target \in new
      OBVIOUS
    <3>1. i \in 1..m
      BY <1>1, <2>1, <2>2
    <3>2. page[i].target \notin trRows
      BY DEF KeptOf
    <3> QED BY <3>1, <3>2
  <2> HIDE DEF rows, new
  <2>6. IsFiniteSet(rows) /\ Cardinality(rows) <= Cardinality(new)
    BY <2>4, <2>5, FS_Subset
  <2>7. rows \cap trRows = {}
    BY <2>5 DEF new
  <2>8. /\ IsFiniteSet(trRows \cup rows)
        /\ Cardinality(trRows \cup rows) = Cardinality(trRows) + Cardinality(rows) - Cardinality(trRows \cap rows)
    BY <2>6, FS_Union
  <2>9. Cardinality(trRows \cap rows) = 0
    BY <2>7, FS_EmptySet
  <2>10. Cardinality(trRows) \in Nat /\ Cardinality(rows) \in Nat /\ Cardinality(new) \in Nat
    BY <2>4, <2>6, FS_CardinalityType
  <2>11. Cardinality(trRows \cup rows) <= Cardinality(trRows) + room
    BY <2>2, <2>6, <2>8, <2>9, <2>10
  <2> QED BY <1>3, <2>8, <2>11 DEF rows
<1> QED BY <1>4, <1>5

LEMMA TraceBegins == TraceInit => TraceInv
<1> SUFFICES ASSUME TraceInit PROVE TraceInv
  OBVIOUS
<1>1. TraceTypeOK
  <2>1. TraceRoot \in TraceTargets
    BY TraceAssumption
  <2>2. <<TraceRoot>> \in Seq(TraceTargets) /\ <<>> \in Seq(TraceTargets)
    BY <2>1
  <2>3. {trLeftOut, trBuffer, trCancelled} \subseteq BOOLEAN
    BY DEF TraceInit
  <2> QED BY <2>1, <2>2, <2>3 DEF TraceInit, TraceTypeOK
<1>2. IsFiniteSet(trRows) /\ Cardinality(trRows) = 1
  BY FS_Singleton DEF TraceInit
<1>3. TraceBounded
  BY <1>2, TraceAssumption DEF TraceInit, TraceBounded
<1> QED BY <1>1, <1>2, <1>3 DEF TraceInit, TraceInv

LEMMA NextTargetKeeps == ASSUME TraceInv, NEW valid \in BOOLEAN, NextTarget(valid) PROVE TraceInv'
<1> DEFINE target == Head(trQueue)
<1>1. /\ trPc = "loop" /\ trQueue # <<>> /\ Len(trAsked) < MaxTraceQueries
      /\ Cardinality(trRows) < MaxTraceResources
      /\ UNCHANGED <<trRows, trLeftOut, trBuffer, trCancelled>>
  BY DEF NextTarget, GoesOn
<1>2. /\ trQueue \in Seq(TraceTargets) /\ target \in TraceTargets /\ Tail(trQueue) \in Seq(TraceTargets)
      /\ trSeen \in SUBSET TraceTargets /\ trAsked \in Seq(TraceTargets)
  BY <1>1 DEF TraceInv, TraceTypeOK
<1>3. \/ target \in trSeen /\ trQueue' = Tail(trQueue) /\ UNCHANGED <<trPc, trSeen, trAsked, trFailure>>
      \/ /\ trQueue' = Tail(trQueue) /\ trSeen' = trSeen \cup {target}
         /\ FirstFailure("unsupported") /\ UNCHANGED <<trPc, trAsked>>
      \/ /\ target \notin trSeen /\ trPc' = "ask" /\ trAsked' = Append(trAsked, target)
         /\ trSeen' = trSeen \cup {target} /\ UNCHANGED <<trQueue, trFailure>>
  BY DEF NextTarget, Taken
<1> HIDE DEF target
<1>4. CASE UNCHANGED trAsked
  <2>1. trPc' = "loop" /\ trQueue' = Tail(trQueue) /\ trSeen' \in SUBSET TraceTargets /\ trSeen \subseteq trSeen'
        /\ trFailure' \in {trFailure, "unsupported"}
    <3>1. Append(trAsked, target) # trAsked
      BY <1>2
    <3> QED BY <1>1, <1>2, <1>3, <1>4, <3>1 DEF FirstFailure
  <2>2. TraceTypeOK'
    BY <1>1, <1>2, <1>4, <2>1 DEF TraceInv, TraceTypeOK
  <2>3. TraceBounded'
    BY <1>1, <1>4 DEF TraceInv, TraceBounded
  <2> QED BY <1>1, <1>4, <2>1, <2>2, <2>3 DEF TraceInv
<1>5. CASE target \notin trSeen /\ trPc' = "ask" /\ trAsked' = Append(trAsked, target)
           /\ trSeen' = trSeen \cup {target} /\ UNCHANGED <<trQueue, trFailure>>
  <2>1. trAsked' \in Seq(TraceTargets) /\ Len(trAsked') = Len(trAsked) + 1 /\ Len(trAsked) \in Nat
        /\ \A i \in 1..Len(trAsked) : trAsked'[i] = trAsked[i]
        /\ trAsked'[Len(trAsked) + 1] = target /\ DOMAIN trAsked = 1..Len(trAsked)
        /\ DOMAIN trAsked' = 1..Len(trAsked) + 1
    BY <1>2, <1>5
  <2>2. TraceTypeOK'
    BY <1>1, <1>2, <1>5, <2>1 DEF TraceInv, TraceTypeOK
  <2>3. \A i \in DOMAIN trAsked' : trAsked'[i] \in trSeen'
    <3>1. \A i \in 1..Len(trAsked) : trAsked[i] \in trSeen
      BY <2>1 DEF TraceInv
    <3> QED BY <1>5, <2>1, <3>1
  <2>4. ASSUME NEW i \in DOMAIN trAsked', NEW j \in DOMAIN trAsked', trAsked'[i] = trAsked'[j]
        PROVE  i = j
    <3>1. \A k \in 1..Len(trAsked) : trAsked[k] \in trSeen
      BY <2>1 DEF TraceInv
    <3>2. \A k, l \in 1..Len(trAsked) : trAsked[k] = trAsked[l] => k = l
      BY <2>1 DEF TraceInv, TraceBounded
    <3> QED BY <1>5, <2>1, <2>4, <3>1, <3>2
  <2>5. TraceBounded'
    <3>1. Len(trAsked') <= MaxTraceQueries
      BY <1>1, <2>1, TraceAssumption
    <3> QED BY <1>1, <2>4, <3>1 DEF TraceInv, TraceBounded
  <2> QED BY <1>1, <1>5, <2>2, <2>3, <2>5 DEF TraceInv
<1> QED BY <1>3, <1>4, <1>5

LEMMA TraceAnswers == ASSUME TraceInv, NEW page \in TracePages, TraceQueryAnswers(page) PROVE TraceInv'
<1> DEFINE kept == KeptOf(page, RoomLeft)
           rows == {page[i].target : i \in kept}
<1>1. /\ trPc = "ask" /\ trPc' = "progress" /\ trRows' = trRows \cup rows
      /\ trQueue' = Tail(trQueue) \o Followed(page, kept)
      /\ trLeftOut' = (trLeftOut \/ NewRows(page) # rows)
      /\ UNCHANGED <<trSeen, trAsked, trFailure, trBuffer, trCancelled>>
  BY DEF TraceQueryAnswers
<1>2. page \in Page
  <2>1. PICK n \in 0..MaxTracePage : page \in [1..n -> [target : TraceTargets, relation : TraceTargets]]
    BY DEF TracePages
  <2>2. n \in Nat
    OBVIOUS
  <2> DEFINE R == [target : TraceTargets, relation : TraceTargets]
  <2>3. page \in [1..n -> R]
    BY <2>1
  <2> HIDE DEF R
  <2>4. page \in Seq(R)
    BY <2>2, <2>3
  <2> QED BY <2>4 DEF Page, R
<1>3. IsFiniteSet(trRows) /\ Cardinality(trRows) \in Nat /\ RoomLeft \in Nat
      /\ Cardinality(trRows) + RoomLeft = MaxTraceResources
  <2>1. IsFiniteSet(trRows) /\ Cardinality(trRows) < MaxTraceResources
    BY <1>1 DEF TraceInv
  <2>2. Cardinality(trRows) \in Nat
    BY <2>1, FS_CardinalityType
  <2> QED BY <2>1, <2>2, TraceAssumption DEF RoomLeft
<1>4. Followed(page, kept) \in Seq(TraceTargets)
  BY <1>2, FollowedType
<1>5. IsFiniteSet(trRows') /\ trRows' \in SUBSET TraceTargets /\ Cardinality(trRows') <= MaxTraceResources
  <2>1. /\ IsFiniteSet(trRows \cup rows) /\ rows \subseteq TraceTargets
        /\ Cardinality(trRows \cup rows) <= Cardinality(trRows) + RoomLeft
    BY <1>2, <1>3, KeptFits
  <2> HIDE DEF rows
  <2> QED BY <1>1, <1>3, <2>1 DEF TraceInv, TraceTypeOK
<1> HIDE DEF kept, rows
<1>6. trQueue' \in Seq(TraceTargets)
  <2>1. trQueue \in Seq(TraceTargets) /\ trQueue # <<>>
    BY <1>1 DEF TraceInv, TraceTypeOK
  <2> QED BY <1>1, <1>4, <2>1
<1>7. trLeftOut' \in BOOLEAN
  BY <1>1 DEF TraceInv, TraceTypeOK
<1>8. TraceTypeOK'
  BY <1>1, <1>5, <1>6, <1>7 DEF TraceInv, TraceTypeOK
<1>9. TraceBounded'
  BY <1>1, <1>5 DEF TraceInv, TraceBounded
<1> QED BY <1>1, <1>5, <1>8, <1>9 DEF TraceInv

LEMMA TraceKeeps == TraceInv /\ [TraceNext]_traceVars => TraceInv'
<1> SUFFICES ASSUME TraceInv, [TraceNext]_traceVars PROVE TraceInv'
  OBVIOUS
<1>1. CASE TraceQueryFails
  <2>1. trQueue \in Seq(TraceTargets) /\ trQueue # <<>> /\ Tail(trQueue) \in Seq(TraceTargets)
    BY <1>1 DEF TraceQueryFails, TraceInv, TraceTypeOK
  <2> QED BY <1>1, <2>1 DEF TraceQueryFails, FirstFailure, TraceInv, TraceTypeOK, TraceBounded
<1>2. CASE FinishTrace
  <2>1. /\ trPc' = "final" /\ UNCHANGED <<trQueue, trSeen, trRows, trAsked, trBuffer, trCancelled>>
        /\ trFailure' \in {trFailure, "trace_limit"}
        /\ trQueue # <<>> => trFailure' # "none"
    BY <1>2 DEF FinishTrace, FirstFailure, LimitFailure
  <2>2. trLeftOut' \in BOOLEAN
    BY <1>2 DEF FinishTrace, TraceInv, TraceTypeOK
  <2>3. TraceTypeOK'
    BY <2>1, <2>2 DEF TraceInv, TraceTypeOK
  <2>4. TraceBounded'
    BY <2>1 DEF TraceInv, TraceBounded
  <2> QED BY <2>1, <2>3, <2>4 DEF TraceInv
<1>3. CASE SendTraceUpdate
  <2>1. /\ trPc \in {"progress", "final"} /\ trPc' \in {"loop", "ended"} /\ trBuffer' \in {TRUE, trBuffer}
        /\ trPc' = "ended" => trPc = "final" \/ trCancelled
        /\ UNCHANGED <<trQueue, trSeen, trRows, trAsked, trFailure, trLeftOut, trCancelled>>
    BY <1>3 DEF SendTraceUpdate, StopsSending
  <2>2. TraceTypeOK'
    BY <2>1 DEF TraceInv, TraceTypeOK
  <2>3. TraceBounded'
    BY <2>1 DEF TraceInv, TraceBounded
  <2> QED BY <2>1, <2>2, <2>3 DEF TraceInv
<1>4. CASE ReadTrace
  BY <1>4 DEF ReadTrace, TraceInv, TraceTypeOK, TraceBounded
<1>5. CASE CancelTrace
  BY <1>5 DEF CancelTrace, TraceInv, TraceTypeOK, TraceBounded
<1>6. CASE UNCHANGED traceVars
  BY <1>6 DEF traceVars, TraceInv, TraceTypeOK, TraceBounded
<1> QED BY <1>1, <1>2, <1>3, <1>4, <1>5, <1>6, NextTargetKeeps, TraceAnswers DEF TraceNext, TraceSteps

LEMMA TraceInvIsEnough == TraceInv => TraceKeepsToItsLimits
  BY DEF TraceInv, TraceKeepsToItsLimits, UnqueriedReported

-----------------------------------------------------------------------------
(* Reads of several regions *)

FanEvent == [region : FanRegions, update : FanUpdates]

\* A last event is of a region that has ended, an empty one of a region that was read.
EventTrue(event, answers) ==
    /\ event.update.state # "loading" => answers[event.region] # "none"
    /\ event.update.state = "empty" => answers[event.region] = "read"

Told(r, events) == \E i \in DOMAIN events : events[i].region = r /\ events[i].update.state # "loading"

\* What the aggregator has says of each region no more than what became of its query;
\* and unless the read is over, whoever has ended has said so, or an event does.
FanInv ==
    /\ FanTypeOK /\ CurrentAskedFirst /\ fnAggregate = Aggregate(fnStates)
    /\ \A i \in DOMAIN fnEvents : EventTrue(fnEvents[i], fnAnswer)
    /\ \A r \in FanRegions :
          /\ fnAnswer[r] # "none" => fnWorker[r] = "done"
          /\ fnStates[r].done => fnAnswer[r] # "none"
          /\ ~fnCancelled /\ fnAggregator # "ended" /\ fnWorker[r] = "done" =>
                fnStates[r].done \/ Told(r, fnEvents)
    /\ fnAggregator = "ended" /\ ~fnCancelled => AllDone(fnStates)

RegionStates == [FanRegions -> [done : BOOLEAN, found : BOOLEAN, failed : BOOLEAN]]

LEMMA AggregateType ==
  ASSUME NEW states \in RegionStates
  PROVE  /\ Aggregate(states) \in [coverage : [FanRegions -> FanStatuses], done : BOOLEAN,
                                   state : {"loading", "ready", "empty", "failed"}]
         /\ Aggregate(states).done <=> AllDone(states)
<1> DEFINE done == Finished(states)
           coverage == [r \in FanRegions |-> RegionStatus(states[r])]
           state == IF done THEN FinalState(states) ELSE "loading"
<1>1. done \in BOOLEAN /\ (done <=> AllDone(states))
  BY DEF Finished, AllDone
<1>2. coverage \in [FanRegions -> FanStatuses]
  BY DEF RegionStatus, FanStatuses
<1>3. state \in {"loading", "ready", "empty", "failed"}
  BY DEF FinalState
<1>4. Aggregate(states) = [coverage |-> coverage, done |-> done, state |-> state]
  BY DEF Aggregate
<1> HIDE DEF done, coverage, state
<1>5. PICK known \in BOOLEAN : known = done
  BY <1>1
<1>6. Aggregate(states) = [coverage |-> coverage, done |-> known, state |-> state]
  BY <1>4, <1>5
<1> QED BY <1>1, <1>2, <1>3, <1>5, <1>6

LEMMA FanBegins == FanInit => FanInv
<1> SUFFICES ASSUME FanInit PROVE FanInv
  OBVIOUS
<1>1. /\ fnWorker = [r \in FanRegions |-> IF r = FanCurrent THEN "slot" ELSE "waits"]
      /\ fnStates = [r \in FanRegions |-> NoState]
      /\ fnAnswer = [r \in FanRegions |-> "none"]
      /\ fnUpdates = [r \in FanRegions |-> 0] /\ fnEvents = <<>>
      /\ fnReady = FALSE /\ fnBuffer = FALSE /\ fnCancelled = FALSE /\ fnAggregator = "events"
      /\ fnAggregate = Aggregate(fnStates)
  BY DEF FanInit
<1>2. fnStates \in RegionStates
  BY <1>1 DEF NoState, RegionStates
<1>3. Cardinality(FanRegions) \in Nat /\ IsFiniteSet(FanRegions)
  BY FanAssumption, FS_CardinalityType
<1>4. FanTypeOK
  <2>1. fnWorker \in [FanRegions -> Working \cup {"done"}]
    BY <1>1 DEF Working
  <2>2. fnUpdates \in [FanRegions -> 0..MaxFanUpdates]
    BY <1>1, FanAssumption
  <2>3. fnEvents \in Seq(FanEvent) /\ Len(fnEvents) <= 2 * Cardinality(FanRegions)
    BY <1>1, <1>3
  <2>4. fnAnswer \in [FanRegions -> {"none", "read", "failed", "cancelled"}]
    BY <1>1
  <2>5. fnReady \in BOOLEAN /\ {fnBuffer, fnCancelled} \subseteq BOOLEAN /\ fnAggregator \in {"events", "send", "ended"}
    BY <1>1
  <2>6. fnAggregate \in [coverage : [FanRegions -> FanStatuses], done : BOOLEAN,
                         state : {"loading", "ready", "empty", "failed"}]
    BY <1>1, <1>2, AggregateType, Zenon
  <2> QED BY <1>2, <2>1, <2>2, <2>3, <2>4, <2>5, <2>6, Zenon DEF FanTypeOK, RegionStates, FanEvent
<1>5. CurrentAskedFirst
  <2>1. FanHolding = {}
    BY <1>1 DEF FanHolding
  <2>2. Cardinality(FanHolding) = 0
    BY <2>1, FS_EmptySet
  <2> QED BY <1>1, <2>2, FanAssumption DEF CurrentAskedFirst
<1>6. ASSUME NEW r \in FanRegions
      PROVE  fnAnswer[r] = "none" /\ fnWorker[r] # "done" /\ ~fnStates[r].done
  BY <1>1 DEF NoState
<1> QED BY <1>1, <1>4, <1>5, <1>6 DEF FanInv

(* What a worker that goes on to w keeps: the order of the regions and the slots. *)
LEMMA WorkerGoes ==
  ASSUME FanInv, NEW r \in FanRegions, NEW w \in Working \cup {"done"}, fnWorker[r] # "done",
         fnWorker' = [fnWorker EXCEPT ![r] = w], fnReady' \in BOOLEAN, fnReady => fnReady',
         fnReady' \/ r = FanCurrent \/ w = "done",
         w \in {"subscribe", "updates"} => r \in FanHolding \/ Cardinality(FanHolding) < FanSlots
  PROVE  /\ fnWorker' \in [FanRegions -> Working \cup {"done"}] /\ CurrentAskedFirst'
         /\ fnWorker'[r] = w /\ \A s \in FanRegions \ {r} : fnWorker'[s] = fnWorker[s]
         /\ fnAnswer[r] = "none" /\ ~fnStates[r].done
<1>1. fnWorker \in [FanRegions -> Working \cup {"done"}]
  BY DEF FanInv, FanTypeOK
<1>2. /\ fnWorker' \in [FanRegions -> Working \cup {"done"}]
      /\ fnWorker'[r] = w /\ \A s \in FanRegions \ {r} : fnWorker'[s] = fnWorker[s]
  BY <1>1
<1>3. fnAnswer[r] = "none" /\ ~fnStates[r].done
  BY DEF FanInv
<1>4. ~fnReady' => \A s \in FanRegions \ {FanCurrent} : fnWorker'[s] \in {"waits", "done"}
  BY <1>2 DEF FanInv, CurrentAskedFirst
<1>5. IsFiniteSet(FanHolding) /\ Cardinality(FanHolding) <= FanSlots /\ Cardinality(FanHolding) \in Nat
  <2>1. FanHolding \in SUBSET FanRegions
    BY DEF FanHolding
  <2>2. IsFiniteSet(FanHolding)
    BY <2>1, FanAssumption, FS_Subset
  <2> QED BY <2>2, FS_CardinalityType DEF FanInv, CurrentAskedFirst
<1>6. Cardinality(FanHolding') <= FanSlots
  <2>1. CASE r \in FanHolding \/ w \notin {"subscribe", "updates"}
    <3>1. FanHolding' \in SUBSET FanHolding
      BY <1>2, <2>1 DEF FanHolding
    <3>2. Cardinality(FanHolding') <= Cardinality(FanHolding) /\ IsFiniteSet(FanHolding')
      BY <1>5, <3>1, FS_Subset
    <3>3. Cardinality(FanHolding') \in Nat
      BY <3>2, FS_CardinalityType
    <3> QED BY <1>5, <3>2, <3>3, FanAssumption
  <2>2. CASE r \notin FanHolding /\ w \in {"subscribe", "updates"}
    <3>1. FanHolding' = FanHolding \cup {r}
      BY <1>2, <2>2 DEF FanHolding
    <3>2. Cardinality(FanHolding \cup {r}) = Cardinality(FanHolding) + 1
      BY <1>5, <2>2, FS_AddElement
    <3> QED BY <1>5, <2>2, <3>1, <3>2, FanAssumption
  <2> QED BY <2>1, <2>2
<1> QED BY <1>2, <1>3, <1>4, <1>6 DEF CurrentAskedFirst

(* A worker may go on in silence, unless it is its end while somebody listens. *)
LEMMA QuietKeeps ==
  ASSUME FanInv, NEW r \in FanRegions, NEW w \in Working \cup {"done"}, fnWorker[r] # "done",
         fnWorker' = [fnWorker EXCEPT ![r] = w], fnReady' \in BOOLEAN, fnReady => fnReady',
         fnReady' \/ r = FanCurrent \/ w = "done",
         w \in {"subscribe", "updates"} => r \in FanHolding \/ Cardinality(FanHolding) < FanSlots,
         w = "done" => fnCancelled \/ fnAggregator = "ended",
         UNCHANGED <<fnUpdates, fnAnswer, fnEvents>>, AggregatorKeeps
  PROVE  FanInv'
<1>1. /\ fnWorker' \in [FanRegions -> Working \cup {"done"}] /\ CurrentAskedFirst'
      /\ fnWorker'[r] = w /\ \A s \in FanRegions \ {r} : fnWorker'[s] = fnWorker[s]
      /\ fnAnswer[r] = "none" /\ ~fnStates[r].done
  BY WorkerGoes
<1>2. UNCHANGED <<fnStates, fnAggregator, fnAggregate, fnBuffer, fnCancelled>>
  BY DEF AggregatorKeeps
<1>3. FanTypeOK'
  BY <1>1, <1>2 DEF FanInv, FanTypeOK
<1>4. ASSUME NEW s \in FanRegions
      PROVE  /\ fnAnswer'[s] # "none" => fnWorker'[s] = "done"
             /\ fnStates'[s].done => fnAnswer'[s] # "none"
             /\ ~fnCancelled' /\ fnAggregator' # "ended" /\ fnWorker'[s] = "done" =>
                   fnStates'[s].done \/ Told(s, fnEvents')
  <2>1. CASE s = r
    BY <1>1, <1>2, <2>1
  <2>2. CASE s # r
    BY <1>1, <1>2, <2>2 DEF FanInv
  <2> QED BY <2>1, <2>2
<1>5. \A i \in DOMAIN fnEvents' : EventTrue(fnEvents'[i], fnAnswer')
  BY DEF FanInv
<1>6. fnAggregate' = Aggregate(fnStates') /\ (fnAggregator' = "ended" /\ ~fnCancelled' => AllDone(fnStates'))
  BY <1>2 DEF FanInv
<1> QED BY <1>1, <1>3, <1>4, <1>5, <1>6 DEF FanInv

(* An event joins the others. *)
LEMMA Emitted ==
  ASSUME NEW events \in Seq(FanEvent), NEW event \in FanEvent, NEW answers,
         \A i \in DOMAIN events : EventTrue(events[i], answers), EventTrue(event, answers)
  PROVE  /\ Append(events, event) \in Seq(FanEvent)
         /\ Len(Append(events, event)) = Len(events) + 1 /\ Len(events) \in Nat
         /\ \A i \in DOMAIN Append(events, event) : EventTrue(Append(events, event)[i], answers)
         /\ \A r : Told(r, events) => Told(r, Append(events, event))
         /\ event.update.state # "loading" => Told(event.region, Append(events, event))
<1> DEFINE after == Append(events, event)
<1>1. /\ after \in Seq(FanEvent) /\ Len(after) = Len(events) + 1 /\ Len(events) \in Nat
      /\ DOMAIN events = 1..Len(events) /\ DOMAIN after = 1..Len(events) + 1
      /\ \A i \in 1..Len(events) : after[i] = events[i]
      /\ after[Len(events) + 1] = event
  OBVIOUS
<1> HIDE DEF after
<1>2. \A i \in DOMAIN after : EventTrue(after[i], answers)
  <2> SUFFICES ASSUME NEW i \in DOMAIN after PROVE EventTrue(after[i], answers)
    OBVIOUS
  <2>1. CASE i \in 1..Len(events)
    BY <1>1, <2>1
  <2>2. CASE i = Len(events) + 1
    BY <1>1, <2>2
  <2> QED BY <1>1, <2>1, <2>2
<1>3. \A r : Told(r, events) => Told(r, after)
  <2> SUFFICES ASSUME NEW r, Told(r, events) PROVE Told(r, after)
    OBVIOUS
  <2>1. PICK i \in DOMAIN events : events[i].region = r /\ events[i].update.state # "loading"
    BY DEF Told
  <2>2. i \in DOMAIN after /\ after[i] = events[i]
    BY <1>1
  <2> QED BY <2>1, <2>2 DEF Told
<1>4. ASSUME event.update.state # "loading" PROVE Told(event.region, after)
  <2>1. Len(events) + 1 \in DOMAIN after
    BY <1>1
  <2> QED BY <1>1, <1>4, <2>1 DEF Told
<1> QED BY <1>1, <1>2, <1>3, <1>4 DEF after

(* A worker that goes on and says so: of something that loads, or how it has ended. *)
LEMMA SaysKeeps ==
  ASSUME FanInv, NEW r \in FanRegions, NEW w \in Working \cup {"done"}, fnWorker[r] # "done",
         fnWorker' = [fnWorker EXCEPT ![r] = w], fnReady' \in BOOLEAN, fnReady => fnReady',
         fnReady' \/ r = FanCurrent \/ w = "done",
         w \in {"subscribe", "updates"} => r \in FanHolding \/ Cardinality(FanHolding) < FanSlots,
         fnUpdates' \in [FanRegions -> 0..MaxFanUpdates], AggregatorKeeps, Room,
         NEW update \in FanUpdates, Emit(r, update),
         NEW answer \in {"none", "read", "failed", "cancelled"},
         fnAnswer' = [fnAnswer EXCEPT ![r] = answer],
         w = "done" <=> answer # "none", w = "done" <=> update.state # "loading",
         update.state = "empty" => answer = "read"
  PROVE  FanInv'
<1>1. /\ fnWorker' \in [FanRegions -> Working \cup {"done"}] /\ CurrentAskedFirst'
      /\ fnWorker'[r] = w /\ \A s \in FanRegions \ {r} : fnWorker'[s] = fnWorker[s]
      /\ fnAnswer[r] = "none" /\ ~fnStates[r].done
  BY WorkerGoes
<1>2. UNCHANGED <<fnStates, fnAggregator, fnAggregate, fnBuffer, fnCancelled>>
  BY DEF AggregatorKeeps
<1>3. /\ fnAnswer \in [FanRegions -> {"none", "read", "failed", "cancelled"}]
      /\ fnEvents \in Seq(FanEvent)
  BY DEF FanInv, FanTypeOK, FanEvent
<1>4. /\ fnAnswer' \in [FanRegions -> {"none", "read", "failed", "cancelled"}]
      /\ fnAnswer'[r] = answer /\ \A s \in FanRegions \ {r} : fnAnswer'[s] = fnAnswer[s]
  BY <1>3
<1> DEFINE event == [region |-> r, update |-> update]
<1>5. event \in FanEvent /\ event.region = r /\ event.update = update
  BY DEF FanEvent
<1>6. fnEvents' = Append(fnEvents, event)
  BY DEF Emit
<1> HIDE DEF event
<1>7. \A i \in DOMAIN fnEvents : EventTrue(fnEvents[i], fnAnswer')
  <2> SUFFICES ASSUME NEW i \in DOMAIN fnEvents PROVE EventTrue(fnEvents[i], fnAnswer')
    OBVIOUS
  <2>1. EventTrue(fnEvents[i], fnAnswer)
    BY DEF FanInv
  <2>2. fnEvents[i] \in FanEvent
    BY <1>3
  <2>3. fnEvents[i].region \in FanRegions
    BY <2>2 DEF FanEvent
  <2> QED BY <1>1, <1>4, <2>1, <2>3 DEF EventTrue
<1>8. EventTrue(event, fnAnswer')
  BY <1>4, <1>5 DEF EventTrue
<1>9. /\ fnEvents' \in Seq(FanEvent) /\ Len(fnEvents') = Len(fnEvents) + 1 /\ Len(fnEvents) \in Nat
      /\ \A i \in DOMAIN fnEvents' : EventTrue(fnEvents'[i], fnAnswer')
      /\ \A s : Told(s, fnEvents) => Told(s, fnEvents')
      /\ update.state # "loading" => Told(r, fnEvents')
  BY <1>3, <1>5, <1>6, <1>7, <1>8, Emitted
<1>10. FanTypeOK'
  <2>1. Len(fnEvents') <= 2 * Cardinality(FanRegions)
    <3>1. Cardinality(FanRegions) \in Nat
      BY FanAssumption, FS_CardinalityType
    <3> QED BY <1>9, <3>1 DEF Room
  <2> QED BY <1>1, <1>2, <1>4, <1>9, <2>1 DEF FanInv, FanTypeOK, FanEvent
<1>11. ASSUME NEW s \in FanRegions
       PROVE  /\ fnAnswer'[s] # "none" => fnWorker'[s] = "done"
              /\ fnStates'[s].done => fnAnswer'[s] # "none"
              /\ ~fnCancelled' /\ fnAggregator' # "ended" /\ fnWorker'[s] = "done" =>
                    fnStates'[s].done \/ Told(s, fnEvents')
  <2>1. CASE s = r
    BY <1>1, <1>2, <1>4, <1>9, <2>1
  <2>2. CASE s # r
    BY <1>1, <1>2, <1>4, <1>9, <2>2 DEF FanInv
  <2> QED BY <2>1, <2>2
<1>12. fnAggregate' = Aggregate(fnStates') /\ (fnAggregator' = "ended" /\ ~fnCancelled' => AllDone(fnStates'))
  BY <1>2 DEF FanInv
<1> QED BY <1>1, <1>9, <1>10, <1>11, <1>12 DEF FanInv

LEMMA UpdatesAre ==
  /\ \A found \in BOOLEAN : FanLoading(found) \in FanUpdates /\ FanLoading(found).state = "loading"
  /\ [state |-> "failed", found |-> FALSE] \in FanUpdates
  /\ \A update \in FanUpdates : update.state = "empty" => update \in Answers
  /\ \A update \in FanUpdates : update.found \in BOOLEAN
<1>1. \A found \in BOOLEAN : FanLoading(found) \in FanUpdates /\ FanLoading(found).state = "loading"
  BY DEF FanUpdates, FanLoading
<1>2. [state |-> "failed", found |-> FALSE] \in FanUpdates
  BY DEF FanUpdates, Failures
<1>3. ASSUME NEW update \in FanUpdates, update.state = "empty" PROVE update \in Answers
  BY <1>3 DEF FanUpdates, FanLoading, CancelledQuery, Failures
<1>4. ASSUME NEW update \in FanUpdates PROVE update.found \in BOOLEAN
  <2>1. CASE update \in Failures
    BY <2>1 DEF Failures
  <2>2. CASE update \in Answers
    <3>1. /\ [state |-> "ready", found |-> TRUE].found = TRUE
          /\ [state |-> "empty", found |-> FALSE].found = FALSE
      OBVIOUS
    <3> QED BY <2>2, <3>1, Zenon DEF Answers
  <2>3. CASE update \in {FanLoading(TRUE), FanLoading(FALSE), CancelledQuery}
    <3>1. FanLoading(TRUE).found = TRUE /\ FanLoading(FALSE).found = FALSE /\ CancelledQuery.found = FALSE
      BY DEF FanLoading, CancelledQuery
    <3> QED BY <2>3, <3>1, Zenon
  <2> QED BY <2>1, <2>2, <2>3 DEF FanUpdates
<1> QED BY <1>1, <1>2, <1>3, <1>4

LEMMA WorkerKeepsFan == ASSUME FanInv, NEW r \in FanRegions, WorkerSteps(r) PROVE FanInv'
<1>0. /\ fnReady \in BOOLEAN /\ fnUpdates \in [FanRegions -> 0..MaxFanUpdates]
      /\ fnWorker \in [FanRegions -> Working \cup {"done"}]
      /\ fnAnswer \in [FanRegions -> {"none", "read", "failed", "cancelled"}]
      /\ {"slot", "subscribe", "updates", "done"} \subseteq Working \cup {"done"}
  BY DEF FanInv, FanTypeOK, Working
<1>1. ~fnReady => r = FanCurrent \/ fnWorker[r] \in {"waits", "done"}
  BY DEF FanInv, CurrentAskedFirst
<1>2. CASE WorkerWaits(r)
  <2>1. fnReady
    BY <1>2 DEF WorkerWaits, CurrentFirst
  <2> QED BY <1>0, <1>2, <2>1, QuietKeeps DEF WorkerWaits
<1>3. CASE TakeSlot(r)
  BY <1>0, <1>1, <1>3, QuietKeeps DEF TakeSlot
<1>4. CASE WorkerCancelled(r)
  BY <1>0, <1>4, QuietKeeps DEF WorkerCancelled
<1>5. CASE RegionCloses(r)
  <2> DEFINE update == [state |-> "failed", found |-> FALSE]
  <2>1. update \in FanUpdates /\ update.state = "failed"
    BY UpdatesAre
  <2>2. Emit(r, update) /\ Room /\ fnWorker[r] = "updates" /\ fnWorker' = [fnWorker EXCEPT ![r] = "done"]
        /\ fnAnswer' = [fnAnswer EXCEPT ![r] = "failed"] /\ UNCHANGED <<fnReady, fnUpdates>> /\ AggregatorKeeps
    BY <1>5 DEF RegionCloses, LastEvent
  <2> HIDE DEF update
  <2> QED BY <1>0, <2>1, <2>2, SaysKeeps
<1>6. ASSUME NEW succeeds \in BOOLEAN, FanSubscribe(r, succeeds) PROVE FanInv'
  <2>1. /\ fnWorker[r] = "subscribe" /\ fnReady' = (fnReady \/ r = FanCurrent)
        /\ UNCHANGED fnUpdates /\ AggregatorKeeps
    BY <1>6 DEF FanSubscribe, ReadyAfter
  <2>2. fnReady' \in BOOLEAN /\ fnReady' /\ r \in FanHolding
    BY <1>0, <1>1, <2>1 DEF FanHolding
  <2>3. CASE succeeds
    <3>1. fnWorker' = [fnWorker EXCEPT ![r] = "updates"] /\ UNCHANGED <<fnAnswer, fnEvents>>
      BY <1>6, <2>3 DEF FanSubscribe
    <3> QED BY <1>0, <2>1, <2>2, <3>1, QuietKeeps
  <2>4. CASE ~succeeds
    <3> DEFINE update == [state |-> "failed", found |-> FALSE]
    <3>1. update \in FanUpdates /\ update.state = "failed"
      BY UpdatesAre
    <3>2. fnWorker' = [fnWorker EXCEPT ![r] = "done"] /\ Room /\ Emit(r, update)
          /\ fnAnswer' = [fnAnswer EXCEPT ![r] = "failed"]
      BY <1>6, <2>4 DEF FanSubscribe
    <3> HIDE DEF update
    <3> QED BY <1>0, <2>1, <2>2, <3>1, <3>2, SaysKeeps
  <2> QED BY <2>3, <2>4
<1>7. ASSUME NEW found \in BOOLEAN, RegionLoads(r, found) PROVE FanInv'
  <2> DEFINE update == FanLoading(found)
  <2>1. update \in FanUpdates /\ update.state = "loading"
    BY UpdatesAre
  <2>2. /\ fnWorker[r] = "updates" /\ fnUpdates[r] < MaxFanUpdates /\ Room
        /\ fnUpdates' = [fnUpdates EXCEPT ![r] = @ + 1] /\ Emit(r, update)
        /\ UNCHANGED <<fnWorker, fnReady, fnAnswer>> /\ AggregatorKeeps
    BY <1>7 DEF RegionLoads
  <2> HIDE DEF update
  <2>3. fnUpdates' \in [FanRegions -> 0..MaxFanUpdates]
    BY <1>0, <2>2, FanAssumption
  <2>4. fnWorker' = [fnWorker EXCEPT ![r] = "updates"] /\ r \in FanHolding
    BY <1>0, <2>2 DEF FanHolding
  <2>5. fnAnswer[r] = "none"
    BY <2>2 DEF FanInv
  <2>6. fnAnswer' = [fnAnswer EXCEPT ![r] = "none"]
    BY <1>0, <2>2, <2>5
  <2> QED BY <1>0, <1>1, <2>1, <2>2, <2>3, <2>4, <2>6, SaysKeeps
<1>8. ASSUME NEW update \in FanUpdates, RegionEnds(r, update) PROVE FanInv'
  <2> DEFINE answer == IF update \in Answers THEN "read"
                       ELSE IF update \in Failures THEN "failed" ELSE "cancelled"
  <2>1. /\ fnWorker[r] = "updates" /\ Room /\ update.state # "loading"
        /\ fnWorker' = [fnWorker EXCEPT ![r] = "done"] /\ Emit(r, update)
        /\ fnAnswer' = [fnAnswer EXCEPT ![r] = answer]
        /\ UNCHANGED <<fnReady, fnUpdates>> /\ AggregatorKeeps
    BY <1>8 DEF RegionEnds
  <2>2. answer \in {"read", "failed", "cancelled"} /\ (update.state = "empty" => answer = "read")
    BY UpdatesAre
  <2> HIDE DEF answer
  <2> QED BY <1>0, <2>1, <2>2, SaysKeeps
<1> QED BY <1>2, <1>3, <1>4, <1>5, <1>6, <1>7, <1>8 DEF WorkerSteps

(* The aggregator's next event, and what it makes of it. *)
LEMMA TakesEvent ==
  ASSUME FanInv, TakeEvent
  PROVE  \E r \in FanRegions, update \in FanUpdates,
            state \in [done : BOOLEAN, found : BOOLEAN, failed : BOOLEAN] :
           /\ fnEvents # <<>> /\ fnEvents[1] = [region |-> r, update |-> update]
           /\ EventTrue(fnEvents[1], fnAnswer)
           /\ fnStates' = [fnStates EXCEPT ![r] = state] /\ fnAggregate' = Aggregate(fnStates')
           /\ fnAggregator = "events" /\ fnAggregator' = "send" /\ fnEvents' = Tail(fnEvents)
           /\ UNCHANGED <<fnWorker, fnReady, fnUpdates, fnAnswer, fnBuffer, fnCancelled>>
           /\ state.done <=> fnStates[r].done \/ update.state # "loading"
           /\ fnStates[r].found /\ ~state.found => update.state = "empty"
<1> DEFINE r == Head(fnEvents).region
           update == Head(fnEvents).update
           done == fnStates[r].done \/ update.state # "loading"
           found == KeptResult(fnStates[r], update)
           failed == update.state = "failed"
           state == [done |-> done, found |-> found, failed |-> failed]
<1>1. /\ fnEvents # <<>> /\ fnStates' = [fnStates EXCEPT ![r] = state]
      /\ fnAggregate' = Aggregate(fnStates')
      /\ fnAggregator = "events" /\ fnAggregator' = "send" /\ fnEvents' = Tail(fnEvents)
      /\ UNCHANGED <<fnWorker, fnReady, fnUpdates, fnAnswer, fnBuffer, fnCancelled>>
  BY DEF TakeEvent
<1>2. fnEvents \in Seq(FanEvent)
  BY DEF FanInv, FanTypeOK, FanEvent
<1>3. Head(fnEvents) = fnEvents[1] /\ fnEvents[1] \in FanEvent /\ 1 \in DOMAIN fnEvents
  BY <1>1, <1>2
<1>4. r \in FanRegions /\ update \in FanUpdates /\ fnEvents[1] = [region |-> r, update |-> update]
  BY <1>3 DEF FanEvent
<1>5. EventTrue(fnEvents[1], fnAnswer)
  BY <1>3 DEF FanInv
<1>6. fnStates[r] \in [done : BOOLEAN, found : BOOLEAN, failed : BOOLEAN]
  BY <1>4 DEF FanInv, FanTypeOK
<1>7. update.found \in BOOLEAN
  BY <1>4, UpdatesAre
<1> HIDE DEF r, update
<1>8. fnStates[r].found \in BOOLEAN
  BY <1>6
<1>9. found \in BOOLEAN /\ (fnStates[r].found /\ ~found => update.state = "empty")
  BY <1>7, <1>8 DEF KeptResult
<1>10. done \in BOOLEAN /\ failed \in BOOLEAN
  OBVIOUS
<1> DEFINE judged(d) == d <=> fnStates[r].done \/ update.state # "loading"
<1>11. judged(done)
  OBVIOUS
<1> HIDE DEF done, found, failed, judged
<1>12. PICK d \in BOOLEAN, g \in BOOLEAN, h \in BOOLEAN : d = done /\ g = found /\ h = failed
  BY <1>9, <1>10
<1>13. /\ [done |-> d, found |-> g, failed |-> h] \in [done : BOOLEAN, found : BOOLEAN, failed : BOOLEAN]
       /\ state = [done |-> d, found |-> g, failed |-> h]
  BY <1>12
<1>14. state.done = d /\ state.found = g
  BY <1>13
<1>15. judged(state.done) /\ (fnStates[r].found /\ ~state.found => update.state = "empty")
  BY <1>9, <1>11, <1>12, <1>14
<1> HIDE DEF state
<1> QED BY <1>1, <1>4, <1>5, <1>13, <1>15, Zenon DEF judged

LEMMA TakeEventKeeps == ASSUME FanInv, TakeEvent PROVE FanInv'
<1>1. PICK r \in FanRegions, update \in FanUpdates,
           state \in [done : BOOLEAN, found : BOOLEAN, failed : BOOLEAN] :
        /\ fnEvents # <<>> /\ fnEvents[1] = [region |-> r, update |-> update]
        /\ EventTrue(fnEvents[1], fnAnswer)
        /\ fnStates' = [fnStates EXCEPT ![r] = state] /\ fnAggregate' = Aggregate(fnStates')
        /\ fnAggregator = "events" /\ fnAggregator' = "send" /\ fnEvents' = Tail(fnEvents)
        /\ UNCHANGED <<fnWorker, fnReady, fnUpdates, fnAnswer, fnBuffer, fnCancelled>>
        /\ state.done <=> fnStates[r].done \/ update.state # "loading"
        /\ fnStates[r].found /\ ~state.found => update.state = "empty"
  BY TakesEvent
<1>2. fnEvents \in Seq(FanEvent) /\ fnStates \in RegionStates
      /\ Len(fnEvents) <= 2 * Cardinality(FanRegions)
  BY DEF FanInv, FanTypeOK, FanEvent, RegionStates
<1>3. /\ fnEvents' \in Seq(FanEvent) /\ Len(fnEvents') = Len(fnEvents) - 1 /\ Len(fnEvents) \in Nat
      /\ DOMAIN fnEvents = 1..Len(fnEvents) /\ DOMAIN fnEvents' = 1..Len(fnEvents) - 1
      /\ \A i \in DOMAIN fnEvents' : i + 1 \in DOMAIN fnEvents /\ fnEvents'[i] = fnEvents[i + 1]
  BY <1>1, <1>2
<1>4. fnStates' \in RegionStates /\ fnStates'[r] = state
      /\ \A s \in FanRegions \ {r} : fnStates'[s] = fnStates[s]
  BY <1>1, <1>2 DEF RegionStates
<1>5. fnAggregate' \in [coverage : [FanRegions -> FanStatuses], done : BOOLEAN,
                        state : {"loading", "ready", "empty", "failed"}]
  BY <1>1, <1>4, AggregateType, Zenon
<1>6. FanTypeOK'
  <2>1. Len(fnEvents') <= 2 * Cardinality(FanRegions)
    <3>1. Cardinality(FanRegions) \in Nat
      BY FanAssumption, FS_CardinalityType
    <3> QED BY <1>2, <1>3, <3>1
  <2> QED BY <1>1, <1>3, <1>4, <1>5, <2>1 DEF FanInv, FanTypeOK, FanEvent, RegionStates
<1>7. CurrentAskedFirst'
  BY <1>1 DEF FanInv, CurrentAskedFirst, FanHolding
<1>8. \A i \in DOMAIN fnEvents' : EventTrue(fnEvents'[i], fnAnswer')
  BY <1>1, <1>3 DEF FanInv
<1>9. ASSUME NEW s \in FanRegions PROVE fnStates'[s].done => fnAnswer[s] # "none"
  <2>1. CASE s = r
    <3>1. fnEvents[1].region = r /\ fnEvents[1].update = update
      BY <1>1
    <3> QED BY <1>1, <1>4, <2>1, <3>1 DEF EventTrue, FanInv
  <2>2. CASE s # r
    BY <1>4, <2>2 DEF FanInv
  <2> QED BY <2>1, <2>2
<1>10. ASSUME NEW s \in FanRegions, ~fnCancelled, fnWorker[s] = "done"
       PROVE  fnStates'[s].done \/ Told(s, fnEvents')
  <2>1. fnStates[s].done \/ Told(s, fnEvents)
    BY <1>1, <1>10 DEF FanInv
  <2>2. CASE fnStates[s].done
    BY <1>1, <1>4, <2>2
  <2>3. CASE Told(s, fnEvents)
    <3>1. PICK i \in DOMAIN fnEvents : fnEvents[i].region = s /\ fnEvents[i].update.state # "loading"
      BY <2>3 DEF Told
    <3>2. CASE i = 1
      <4>1. s = r /\ update.state # "loading"
        BY <1>1, <3>1, <3>2
      <4> QED BY <1>1, <1>4, <4>1
    <3>3. CASE i # 1
      <4>1. i - 1 \in DOMAIN fnEvents' /\ (i - 1) + 1 = i
        BY <1>3, <3>3
      <4>2. fnEvents'[i - 1] = fnEvents[i]
        BY <1>3, <4>1
      <4> QED BY <3>1, <4>1, <4>2 DEF Told
    <3> QED BY <3>2, <3>3
  <2> QED BY <2>1, <2>2, <2>3
<1> QED BY <1>1, <1>6, <1>7, <1>8, <1>9, <1>10 DEF FanInv

LEMMA FanKeeps == FanInv /\ [FanNext]_fanVars => FanInv'
<1> SUFFICES ASSUME FanInv, [FanNext]_fanVars PROVE FanInv'
  OBVIOUS
<1>0. fnStates \in RegionStates
  BY DEF FanInv, FanTypeOK, RegionStates
<1>1. CASE SendAggregate
  <2>1. /\ fnAggregator = "send" /\ fnAggregator' \in {"events", "ended"} /\ fnBuffer' \in {TRUE, fnBuffer}
        /\ fnAggregator' = "ended" => fnAggregate.done \/ fnCancelled
        /\ UNCHANGED <<fnWorker, fnReady, fnUpdates, fnAnswer, fnEvents, fnStates, fnAggregate, fnCancelled>>
    BY <1>1 DEF SendAggregate
  <2>2. fnAggregate.done <=> AllDone(fnStates)
    BY <1>0, AggregateType DEF FanInv
  <2>3. FanTypeOK' /\ CurrentAskedFirst'
    BY <2>1 DEF FanInv, FanTypeOK, CurrentAskedFirst, FanHolding
  <2> QED BY <2>1, <2>2, <2>3 DEF FanInv
<1>2. CASE EventsClosed
  <2>1. /\ fnAggregator = "events" /\ fnEvents = <<>> /\ \A r \in FanRegions : fnWorker[r] = "done"
        /\ fnAggregator' = "ended"
        /\ UNCHANGED <<fnWorker, fnReady, fnUpdates, fnAnswer, fnEvents, fnStates, fnAggregate, fnBuffer,
                       fnCancelled>>
    BY <1>2 DEF EventsClosed
  <2>2. ~fnCancelled => AllDone(fnStates)
    BY <2>1 DEF FanInv, AllDone, Told
  <2>3. FanTypeOK' /\ CurrentAskedFirst'
    BY <2>1 DEF FanInv, FanTypeOK, CurrentAskedFirst, FanHolding
  <2> QED BY <2>1, <2>2, <2>3 DEF FanInv
<1>3. CASE ReadAggregate
  <2>1. FanTypeOK' /\ CurrentAskedFirst'
    BY <1>3 DEF ReadAggregate, FanInv, FanTypeOK, CurrentAskedFirst, FanHolding
  <2> QED BY <1>3, <2>1 DEF ReadAggregate, FanInv
<1>4. CASE CancelFanout
  <2>1. FanTypeOK' /\ CurrentAskedFirst'
    BY <1>4 DEF CancelFanout, FanInv, FanTypeOK, CurrentAskedFirst, FanHolding
  <2> QED BY <1>4, <2>1 DEF CancelFanout, FanInv
<1>5. CASE UNCHANGED fanVars
  <2>1. FanTypeOK' /\ CurrentAskedFirst'
    BY <1>5 DEF fanVars, FanInv, FanTypeOK, CurrentAskedFirst, FanHolding
  <2> QED BY <1>5, <2>1 DEF fanVars, FanInv
<1> QED BY <1>1, <1>2, <1>3, <1>4, <1>5, WorkerKeepsFan, TakeEventKeeps DEF FanNext, AggregatorSteps

LEMMA FanInvIsEnough == FanInv => CurrentAskedFirst /\ EndsWithEveryRegion
<1> SUFFICES ASSUME FanInv PROVE CurrentAskedFirst /\ EndsWithEveryRegion
  OBVIOUS
<1>1. fnAggregate.done <=> AllDone(fnStates)
  BY AggregateType DEF FanInv, FanTypeOK, RegionStates
<1> QED BY <1>1 DEF FanInv, EndsWithEveryRegion, AllDone

(* Only an event that a region was read and is empty takes its resources away. *)
LEMMA ResultsKept ==
  ASSUME FanInv, [FanNext]_fanVars, NEW r \in FanRegions, fnStates[r].found, ~fnStates'[r].found
  PROVE  fnAnswer[r] = "read"
<1>1. CASE TakeEvent
  <2>1. PICK s \in FanRegions, update \in FanUpdates,
             state \in [done : BOOLEAN, found : BOOLEAN, failed : BOOLEAN] :
          /\ fnEvents # <<>> /\ fnEvents[1] = [region |-> s, update |-> update]
          /\ EventTrue(fnEvents[1], fnAnswer)
          /\ fnStates' = [fnStates EXCEPT ![s] = state] /\ fnAggregate' = Aggregate(fnStates')
          /\ fnAggregator = "events" /\ fnAggregator' = "send" /\ fnEvents' = Tail(fnEvents)
          /\ UNCHANGED <<fnWorker, fnReady, fnUpdates, fnAnswer, fnBuffer, fnCancelled>>
          /\ state.done <=> fnStates[s].done \/ update.state # "loading"
          /\ fnStates[s].found /\ ~state.found => update.state = "empty"
    BY <1>1, TakesEvent
  <2>2. fnStates \in RegionStates
    BY DEF FanInv, FanTypeOK, RegionStates
  <2>3. s = r /\ fnStates'[r] = state
    BY <2>1, <2>2 DEF RegionStates
  <2>4. fnEvents[1].region = s /\ fnEvents[1].update = update
    BY <2>1
  <2> QED BY <2>1, <2>3, <2>4 DEF EventTrue
<1>2. CASE UNCHANGED fnStates
  BY <1>2
<1>3. ASSUME NEW s \in FanRegions, WorkerSteps(s) PROVE UNCHANGED fnStates
  BY <1>3 DEF WorkerSteps, WorkerWaits, TakeSlot, WorkerCancelled, RegionCloses, FanSubscribe, RegionLoads,
              RegionEnds, AggregatorKeeps
<1>4. SendAggregate \/ EventsClosed \/ ReadAggregate \/ CancelFanout \/ UNCHANGED fanVars => UNCHANGED fnStates
  BY DEF SendAggregate, EventsClosed, ReadAggregate, CancelFanout, fanVars
<1> QED BY <1>1, <1>2, <1>3, <1>4 DEF FanNext, AggregatorSteps

-----------------------------------------------------------------------------
(* The engines together *)

(* Each step is one engine's, and leaves the others as they are. *)
LEMMA EngineSteps ==
  ASSUME [EnginesNext]_<<engine, vars, searchVars, traceVars, fanVars>>
  PROVE  [Next]_vars /\ [SearchNext]_searchVars /\ [TraceNext]_traceVars /\ [FanNext]_fanVars
<1>1. CASE Of("snapshot") /\ Next /\ UNCHANGED <<searchVars, traceVars, fanVars>>
  BY <1>1
<1>2. CASE Of("search") /\ SearchNext /\ UNCHANGED <<vars, traceVars, fanVars>>
  BY <1>2
<1>3. CASE Of("trace") /\ TraceNext /\ UNCHANGED <<vars, searchVars, fanVars>>
  BY <1>3
<1>4. CASE Of("fanout") /\ FanNext /\ UNCHANGED <<vars, searchVars, traceVars>>
  BY <1>4
<1>5. CASE UNCHANGED <<engine, vars, searchVars, traceVars, fanVars>>
  BY <1>5
<1> QED BY <1>1, <1>2, <1>3, <1>4, <1>5, Zenon DEF EnginesNext

EnginesInv == IInv /\ SearchInv /\ TraceInv /\ FanInv

LEMMA EnginesBegin == EnginesInit => EnginesInv
  BY InitIInv, SearchBegins, TraceBegins, FanBegins, Zenon DEF EnginesInit, EnginesInv

LEMMA EnginesStep ==
  EnginesInv /\ [EnginesNext]_<<engine, vars, searchVars, traceVars, fanVars>> => EnginesInv'
<1> SUFFICES ASSUME EnginesInv, [EnginesNext]_<<engine, vars, searchVars, traceVars, fanVars>>
             PROVE  EnginesInv'
  OBVIOUS
<1>1. [Next]_vars /\ [SearchNext]_searchVars /\ [TraceNext]_traceVars /\ [FanNext]_fanVars
  BY EngineSteps
<1> QED BY <1>1, NextIInv, SearchKeeps, TraceKeeps, FanKeeps, Zenon DEF EnginesInv

LEMMA EnginesInvariant == EnginesSpec => []EnginesInv
  BY EnginesBegin, EnginesStep, PTL DEF EnginesSpec

(* The state of each engine keeps its types: what a search, a trace or a read *)
(* of several regions holds, and the snapshots and those who update them      *)
(* (search.go:152, aws_runtime.go:549, 712, aws_snapshot_runtime.go:298).     *)
THEOREM EnginesTyped == EnginesSpec => []EnginesTypeOK
<1>1. EnginesInv => EnginesTypeOK
  BY InvariantTypes, Zenon DEF EnginesInv, EnginesTypeOK, SearchInv, TraceInv, FanInv
<1> QED BY <1>1, EnginesInvariant, PTL

(* A search reports what it has searched: matched or not found is said only of *)
(* a profile all of which was read, no slot stays with one that is done, and   *)
(* the one terminal update covers every profile that was begun and is there    *)
(* for its reader, whatever fails and whenever it is cancelled (search.go:166, *)
(* 303, 405).                                                                  *)
THEOREM SearchesReportTruly == EnginesSpec => []SearchReportsWhatItSearched
  BY SearchInvIsEnough, EnginesInvariant, PTL DEF EnginesInv

(* A trace keeps to its number of queries and of resources and asks about no   *)
(* target twice, whatever cycles the relations make, and ends with a failure   *)
(* when targets are left in its queue (aws_runtime.go:570, 640). What the last *)
(* page overruns is not in the queue, and is left out in silence.              *)
THEOREM TracesKeepToTheirLimits == EnginesSpec => []TraceKeepsToItsLimits
  BY TraceInvIsEnough, EnginesInvariant, PTL DEF EnginesInv

(* A read of several regions asks the current one first and no more at once    *)
(* than there are slots, ends only with the last word of each region, and lets *)
(* nothing but a read that found none take a region's resources out of view    *)
(* (aws_runtime.go:712-810).                                                   *)
THEOREM FanoutsCoverEveryRegion == EnginesSpec => FanoutCoversEveryRegion
<1>1. FanInv /\ [FanNext]_fanVars =>
         [\A r \in FanRegions :
             fnStates[r].found /\ ~fnStates'[r].found => fnAnswer[r] = "read"]_fanVars
  BY ResultsKept
<1>2. [EnginesNext]_<<engine, vars, searchVars, traceVars, fanVars>> => [FanNext]_fanVars
  BY EngineSteps
<1>3. FanInv => CurrentAskedFirst /\ EndsWithEveryRegion
  BY FanInvIsEnough
<1>4. EnginesInv => FanInv
  BY DEF EnginesInv
<1> QED BY <1>1, <1>2, <1>3, <1>4, EnginesInvariant, PTL
     DEF EnginesSpec, FanoutCoversEveryRegion, RegionResultsKept

=============================================================================
