-------------------------- MODULE WadseekerProofs ---------------------------
(***************************************************************************)
(* A seek loses no file, always has something under way or a call posted   *)
(* that ends it, and keeps SeekService's promise: for any files, URLs,     *)
(* sites, hosts and limits.                                                *)
(***************************************************************************)
EXTENDS Wadseeker, FiniteSetTheorems, SequenceTheorems, TLAPS

USE DownloadsAssumption, QueriesAssumption, SeekAssumption

-----------------------------------------------------------------------------
(* The inductive invariant                                                 *)

(* TypeOK, one part for the state of each object.                          *)
RetrieverTypeOK ==
  /\ wads \subseteq Files
  /\ urls \in [Files -> SUBSET Urls]
  /\ had \in [Files -> SUBSET Urls]
  /\ mirrors \in [Files -> SUBSET Urls]
  /\ used \subseteq Urls
  /\ reply \in [Files -> Urls \cup {NoUrl}]
  /\ timers \in Nat
  /\ silent \in BOOLEAN

SeekerTypeOK ==
  /\ wwwWorking \in BOOLEAN
  /\ seekedFiles \subseteq Files
  /\ sitesUrls \subseteq Sites
  /\ visitedUrls \subseteq Sites
  /\ networkQueries \subseteq Sites

ServiceTypeOK ==
  /\ idgamesClients \subseteq Files
  /\ idgamesFile \in Files \cup {NoFile}
  /\ idgamesPage \in BOOLEAN
  /\ archiveQueue \subseteq Files
  /\ archiveFile \in Files \cup {NoFile}

SeekTypeOK ==
  /\ seeking \in BOOLEAN
  /\ bIsAborting \in BOOLEAN
  /\ told \in {"none", "success", "failure"}
  /\ posted \in Seq(Calls)
  /\ asked \subseteq Files
  /\ installed \subseteq Files

(* A service works on a file exactly while it has files.                   *)
ServicesAsk ==
  /\ idgamesFile \in idgamesClients \cup {NoFile}
  /\ idgamesFile = NoFile => idgamesClients = {}
  /\ archiveFile = NoFile => archiveQueue = {}

SitesAsk == wwwWorking <=> networkQueries # {}

(* Without a seek nothing works.                                           *)
IdleMeansIdle ==
  ~seeking => ~bIsAborting /\ ~wwwWorking /\ ~ServicesWork

(* An abort leaves nothing but the call that ends the seek.                *)
AbortedIsOver ==
  bIsAborting =>
    /\ wads = {}
    /\ ~wwwWorking
    /\ ~ServicesWork
    /\ HasWakeUp(posted)

DownloadsGoOn ==
  isAnyDownloadWorking => timers > 0 \/ Running(wads, reply) # {}

(* In a form that needs no look at the files wanted after an abort.        *)
Accounts ==
  seeking =>
    /\ wads \cap installed = {}
    /\ ~bIsAborting => wads \cup installed = asked
    /\ wwwWorking => seekedFiles = wads

IInv ==
  /\ RetrieverTypeOK
  /\ SeekerTypeOK
  /\ ServiceTypeOK
  /\ SeekTypeOK
  /\ ServicesAsk
  /\ SitesAsk
  /\ IdleMeansIdle
  /\ AbortedIsOver
  /\ seeking => DownloadsGoOn
  /\ Accounts
  /\ EndIsNoticed

-----------------------------------------------------------------------------
(* Posted calls                                                            *)

LEMMA PostedIsTyped ==
  ASSUME NEW s \in Seq(Calls), NEW t \in Seq(Calls)
  PROVE  /\ s \o t \in Seq(Calls)
         /\ HasWakeUp(s) \/ HasWakeUp(t) => HasWakeUp(s \o t)
<1>1. s \o t \in Seq(Calls) /\ Len(s \o t) = Len(s) + Len(t)
  BY ConcatProperties
<1>2. ASSUME NEW i \in DOMAIN s
      PROVE  i \in DOMAIN (s \o t) /\ (s \o t)[i] = s[i]
  BY <1>1, ConcatProperties
<1>3. ASSUME NEW i \in DOMAIN t
      PROVE  Len(s) + i \in DOMAIN (s \o t) /\ (s \o t)[Len(s) + i] = t[i]
  BY <1>1, ConcatProperties
<1> QED
  BY <1>1, <1>2, <1>3 DEF HasWakeUp

LEMMA TailIsTyped ==
  ASSUME NEW s \in Seq(Calls), s # <<>>
  PROVE  /\ Tail(s) \in Seq(Calls)
         /\ Head(s) \in Calls
         /\ HasWakeUp(s) /\ Head(s)[1] = "linkFound" => HasWakeUp(Tail(s))
<1>1. /\ Tail(s) \in Seq(Calls)
      /\ Head(s) \in Calls
      /\ Len(Tail(s)) = Len(s) - 1
      /\ Head(s) = s[1]
  BY HeadTailProperties
<1>2. ASSUME NEW i \in DOMAIN s, i # 1
      PROVE  i - 1 \in DOMAIN Tail(s) /\ Tail(s)[i - 1] = s[i]
  <2>1. i \in 2..Len(s) /\ i - 1 \in 1..Len(Tail(s))
    BY <1>1, <1>2
  <2> QED
    BY <1>1, <2>1
<1>3. ASSUME Head(s)[1] = "linkFound"
      PROVE  s[1] \notin {<<"wwwFinished">>, <<"finished">>, <<"pendingUrls">>}
  BY <1>1, <1>3
<1> QED
  BY <1>1, <1>2, <1>3 DEF HasWakeUp

LEMMA LinksAreCalls ==
  ASSUME NEW files \in SUBSET Files, NEW links \in LinkSeqs(files)
  PROVE  links \in Seq(Calls)
BY DEF LinkSeqs, Calls

LEMMA OneCall ==
  ASSUME NEW call \in {<<"wwwFinished">>, <<"finished">>, <<"pendingUrls">>}
  PROVE  <<call>> \in Seq(Calls) /\ HasWakeUp(<<call>>)
<1>1. call \in Calls
  BY DEF Calls
<1>2. <<call>> \in Seq(Calls)
  BY <1>1
<1>3. 1 \in DOMAIN <<call>> /\ <<call>>[1] = call
  OBVIOUS
<1> QED
  BY <1>2, <1>3 DEF HasWakeUp

LEMMA WwwFinishedIsCall ==
  ASSUME NEW b \in BOOLEAN
  PROVE  /\ WwwFinished(b) \in Seq(Calls)
         /\ b => HasWakeUp(WwwFinished(b))
<1>1. CASE b
  BY <1>1, OneCall DEF WwwFinished
<1>2. CASE ~b
  BY <1>2 DEF WwwFinished
<1> QED
  BY <1>1, <1>2

LEMMA AnnouncedIsCall ==
  ASSUME NEW W, NEW A, NEW R
  PROVE  /\ Announced(W, A, R) \in Seq(Calls)
         /\ W = {} \/ Pending(W, A, R) => HasWakeUp(Announced(W, A, R))
<1>1. CASE W = {}
  BY <1>1, OneCall DEF Announced
<1>2. CASE W # {} /\ Pending(W, A, R)
  BY <1>2, OneCall DEF Announced
<1>3. CASE W # {} /\ ~Pending(W, A, R)
  BY <1>3 DEF Announced
<1> QED
  BY <1>1, <1>2, <1>3

-----------------------------------------------------------------------------
(* startNextDownloads()                                                    *)

(* When it returns a download runs, unless none has a URL left; and that   *)
(* was announced, unless the URLs were dropped by the call itself.         *)
LEMMA StartsSomething ==
  ASSUME NEW W \in SUBSET Files,
         NEW A \in [Files -> SUBSET Urls],
         NEW R \in [Files -> Urls \cup {NoUrl}],
         NEW U \in SUBSET Urls,
         silent \in BOOLEAN,
         startNextDownloads(W, A, R, U)
  PROVE  /\ wads' = W
         /\ urls' \in [Files -> SUBSET Urls]
         /\ reply' \in [Files -> Urls \cup {NoUrl}]
         /\ used' \in SUBSET Urls
         /\ silent' \in BOOLEAN
         /\ silent => silent'
         /\ isAnyDownloadWorking' => Running(wads', reply') # {}
         /\ isAnyDownloadWorking' \/ silent' \/ W = {} \/ Pending(W, A, R)
<1>1. CASE W = {} \/ Pending(W, A, R)
  BY <1>1 DEF startNextDownloads, Pending, isAnyDownloadWorking
<1>2. CASE ~(W = {} \/ Pending(W, A, R))
  <2>1. PICK choice \in Choices(W, A, R, U) :
          /\ reply' = [f \in Files |->
                         IF f \in DOMAIN choice THEN choice[f] ELSE R[f]]
          /\ used' = U \cup {choice[f] : f \in DOMAIN choice}
          /\ urls' \in [Files -> SUBSET Urls]
          /\ Extracted(W, A, R, U, choice, urls')
          /\ silent' = (silent \/ Pending(wads', urls', reply'))
    BY <1>2 DEF startNextDownloads
  <2>2. wads' = W
    BY DEF startNextDownloads
  <2>3. PICK S \in SUBSET (W \ Running(W, R)) : choice \in [S -> Urls]
    BY DEF Choices
  <2>4. DOMAIN choice = S /\ S \subseteq Files
    BY <2>3 DEF Running
  <2>5. /\ reply' \in [Files -> Urls \cup {NoUrl}]
        /\ used' \in SUBSET Urls
    BY <2>1, <2>3, <2>4
  <2>6. ASSUME Running(wads', reply') = {}
        PROVE  ~isAnyDownloadWorking'
    <3>1. S = {} /\ Running(W, R) = {}
      BY <2>1, <2>2, <2>3, <2>4, <2>6 DEF Running
    <3>2. \A f \in W : \A u \in A[f] : u \in U
      <4>1. Cardinality(Running(W, R) \cup DOMAIN choice) < MaxDownloads
        BY <2>4, <3>1, FS_EmptySet
      <4>2. \A f \in W \ (Running(W, R) \cup DOMAIN choice) : \A u \in A[f] :
               \/ u \in U \cup {choice[g] : g \in DOMAIN choice}
               \/ Host[u] \in {Host[R[g]] : g \in Running(W, R)}
                    \cup {Host[v] : v \in {choice[g] : g \in DOMAIN choice}}
        BY <4>1 DEF Choices
      <4> QED
        BY <2>4, <3>1, <4>2
    <3>3. \A f \in W : urls'[f] = {}
      <4>1. Cardinality(Running(W, R) \cup DOMAIN choice) < MaxDownloads
        BY <2>4, <3>1, FS_EmptySet
      <4>2. \A f \in W \ Running(W, R) :
              /\ urls'[f] \subseteq A[f]
              /\ f \notin DOMAIN choice => urls'[f] \cap U = {}
        BY <2>1, <4>1 DEF Extracted
      <4> QED
        BY <2>4, <3>1, <3>2, <4>2
    <3> QED
      BY <2>2, <2>6, <3>3 DEF isAnyDownloadWorking, Running
  <2>7. isAnyDownloadWorking' \/ Pending(wads', urls', reply')
    BY <1>2, <2>2 DEF isAnyDownloadWorking, Pending
  <2> QED
    BY <2>1, <2>2, <2>5, <2>6, <2>7 DEF Pending
<1> QED
  BY <1>1, <1>2

-----------------------------------------------------------------------------
(* The retriever's operations                                              *)

LEMMA SetWadsStep ==
  ASSUME NEW files \in SUBSET Files, setWads(files)
  PROVE  RetrieverTypeOK' /\ wads' = files /\ ~isAnyDownloadWorking' /\ ~silent'
BY DEF setWads, RetrieverTypeOK, isAnyDownloadWorking

LEMMA AddUrlStep ==
  ASSUME RetrieverTypeOK, NEW f \in Files, NEW u \in Urls, addUrl(f, u)
  PROVE  /\ RetrieverTypeOK'
         /\ wads' = wads
         /\ silent' = silent
         /\ timers' >= timers
         /\ DownloadsGoOn => DownloadsGoOn'
         /\ isAnyDownloadWorking => isAnyDownloadWorking'
<1>1. CASE f \in wads /\ u \notin had[f] \cup used
  <2>1. /\ urls' = [urls EXCEPT ![f] = @ \cup {u}]
        /\ had' = [had EXCEPT ![f] = @ \cup {u}]
        /\ timers' = timers + 1
        /\ UNCHANGED <<wads, mirrors, used, reply, silent>>
    BY <1>1 DEF addUrl
  <2>2. RetrieverTypeOK' /\ timers' > 0 /\ timers' >= timers
    BY <2>1 DEF RetrieverTypeOK
  <2>3. isAnyDownloadWorking => isAnyDownloadWorking'
    BY <2>1 DEF isAnyDownloadWorking, RetrieverTypeOK
  <2> QED
    BY <2>1, <2>2, <2>3 DEF DownloadsGoOn
<1>2. CASE ~(f \in wads /\ u \notin had[f] \cup used)
  <2>1. UNCHANGED retrieverVars
    BY <1>2 DEF addUrl
  <2> QED
    BY <2>1 DEF retrieverVars, RetrieverTypeOK, DownloadsGoOn,
                isAnyDownloadWorking, Running
<1> QED
  BY <1>1, <1>2

LEMMA DelayedStartStep ==
  ASSUME RetrieverTypeOK, delayedStart
  PROVE  /\ RetrieverTypeOK'
         /\ wads' = wads
         /\ silent => silent'
         /\ DownloadsGoOn'
         /\ \/ isAnyDownloadWorking'
            \/ silent'
            \/ HasWakeUp(Announced(wads, urls, reply))
<1>1. startNextDownloads(wads, urls, reply, used)
  BY DEF delayedStart
<1>2. timers' \in Nat /\ UNCHANGED <<had, mirrors>>
  BY DEF delayedStart, RetrieverTypeOK
<1> QED
  BY <1>1, <1>2, StartsSomething, AnnouncedIsCall
     DEF RetrieverTypeOK, DownloadsGoOn

LEMMA DownloadFailedStep ==
  ASSUME RetrieverTypeOK, NEW f \in Files, downloadFailed(f)
  PROVE  /\ RetrieverTypeOK'
         /\ f \in wads
         /\ wads' = wads
         /\ silent => silent'
         /\ DownloadsGoOn'
         /\ \/ isAnyDownloadWorking'
            \/ silent'
            \/ HasWakeUp(Announced(wads, urls, [reply EXCEPT ![f] = NoUrl]))
<1>1. startNextDownloads(wads, urls, [reply EXCEPT ![f] = NoUrl], used)
  BY DEF downloadFailed
<1> DEFINE R == [reply EXCEPT ![f] = NoUrl]
<1>2. R \in [Files -> Urls \cup {NoUrl}]
  BY DEF RetrieverTypeOK
<1>3. f \in wads /\ UNCHANGED <<had, mirrors, timers>>
  BY DEF downloadFailed
<1> HIDE DEF R
<1>4. /\ wads' = wads
      /\ urls' \in [Files -> SUBSET Urls]
      /\ reply' \in [Files -> Urls \cup {NoUrl}]
      /\ used' \in SUBSET Urls
      /\ silent' \in BOOLEAN
      /\ silent => silent'
      /\ isAnyDownloadWorking' => Running(wads', reply') # {}
      /\ isAnyDownloadWorking' \/ silent' \/ wads = {} \/ Pending(wads, urls, R)
  <2>1. startNextDownloads(wads, urls, R, used)
    BY <1>1 DEF R
  <2>2. /\ wads \in SUBSET Files
        /\ urls \in [Files -> SUBSET Urls]
        /\ used \in SUBSET Urls
        /\ silent \in BOOLEAN
    BY DEF RetrieverTypeOK
  <2> QED
    BY <1>2, <2>1, <2>2, StartsSomething
<1>5. HasWakeUp(Announced(wads, urls, R)) \/ ~(wads = {} \/ Pending(wads, urls, R))
  BY AnnouncedIsCall
<1> QED
  BY <1>3, <1>4, <1>5 DEF RetrieverTypeOK, DownloadsGoOn, R

(* What is left for each file when some are installed.                     *)
LEMMA ForgetIsTyped ==
  ASSUME RetrieverTypeOK, NEW f \in Files, NEW gone
  PROVE  /\ WithoutMirrors(f) \in [Files -> SUBSET Urls]
         /\ Forget(WithoutMirrors(f), gone, {}) \in [Files -> SUBSET Urls]
         /\ Forget([reply EXCEPT ![f] = NoUrl], gone, NoUrl)
              \in [Files -> Urls \cup {NoUrl}]
         /\ Forget(had, gone, {}) \in [Files -> SUBSET Urls]
         /\ Forget(mirrors, gone, {}) \in [Files -> SUBSET Urls]
<1>1. WithoutMirrors(f) \in [Files -> SUBSET Urls]
  BY DEF WithoutMirrors, RetrieverTypeOK
<1>2. [reply EXCEPT ![f] = NoUrl] \in [Files -> Urls \cup {NoUrl}]
  BY DEF RetrieverTypeOK
<1>3. ASSUME NEW fn \in [Files -> SUBSET Urls]
      PROVE  Forget(fn, gone, {}) \in [Files -> SUBSET Urls]
  BY DEF Forget
<1>4. ASSUME NEW fn \in [Files -> Urls \cup {NoUrl}]
      PROVE  Forget(fn, gone, NoUrl) \in [Files -> Urls \cup {NoUrl}]
  BY DEF Forget
<1> QED
  BY <1>1, <1>2, <1>3, <1>4 DEF RetrieverTypeOK

LEMMA DownloadInstallsStep ==
  ASSUME RetrieverTypeOK, NEW f \in Files, NEW files \in SUBSET Files,
         downloadInstalls(f, files)
  PROVE  /\ RetrieverTypeOK'
         /\ files \subseteq wads
         /\ wads # {}
         /\ wads' = wads \ files
         /\ silent => silent'
         /\ DownloadsGoOn'
         /\ \/ isAnyDownloadWorking'
            \/ silent'
            \/ HasWakeUp(Announced(
                 wads \ files,
                 Forget(WithoutMirrors(f), files, {}),
                 Forget([reply EXCEPT ![f] = NoUrl], files, NoUrl)))
<1>1. startNextDownloads(
        wads \ files,
        Forget(WithoutMirrors(f), files, {}),
        Forget([reply EXCEPT ![f] = NoUrl], files, NoUrl),
        used)
  BY DEF downloadInstalls
<1>2. /\ f \in wads
      /\ files \subseteq wads
      /\ had' = Forget(had, files, {})
      /\ mirrors' = Forget(mirrors, files, {})
      /\ UNCHANGED timers
  BY DEF downloadInstalls
<1>3. wads \ files \in SUBSET Files
  BY DEF RetrieverTypeOK
<1> DEFINE W == wads \ files
           A == Forget(WithoutMirrors(f), files, {})
           R == Forget([reply EXCEPT ![f] = NoUrl], files, NoUrl)
<1>4. /\ A \in [Files -> SUBSET Urls]
      /\ R \in [Files -> Urls \cup {NoUrl}]
      /\ had' \in [Files -> SUBSET Urls]
      /\ mirrors' \in [Files -> SUBSET Urls]
  BY <1>2, ForgetIsTyped
<1> HIDE DEF W, A, R
<1>5. /\ wads' = W
      /\ urls' \in [Files -> SUBSET Urls]
      /\ reply' \in [Files -> Urls \cup {NoUrl}]
      /\ used' \in SUBSET Urls
      /\ silent' \in BOOLEAN
      /\ silent => silent'
      /\ isAnyDownloadWorking' => Running(wads', reply') # {}
      /\ isAnyDownloadWorking' \/ silent' \/ W = {} \/ Pending(W, A, R)
  <2>1. startNextDownloads(W, A, R, used)
    BY <1>1 DEF W, A, R
  <2>2. W \in SUBSET Files /\ used \in SUBSET Urls /\ silent \in BOOLEAN
    BY <1>3 DEF RetrieverTypeOK, W
  <2> QED
    BY <1>4, <2>1, <2>2, StartsSomething
<1>6. HasWakeUp(Announced(W, A, R)) \/ ~(W = {} \/ Pending(W, A, R))
  BY AnnouncedIsCall
<1>7. HasWakeUp(Announced(W, A, R)) \/ isAnyDownloadWorking' \/ silent'
  BY <1>5, <1>6
<1>8. RetrieverTypeOK' /\ DownloadsGoOn' /\ wads # {} /\ wads' = wads \ files
  BY <1>2, <1>3, <1>4, <1>5 DEF RetrieverTypeOK, DownloadsGoOn, W
<1> QED
  BY <1>2, <1>5, <1>7, <1>8 DEF W, A, R

LEMMA InstallFailsStep ==
  ASSUME RetrieverTypeOK, NEW f \in Files, NEW files \in SUBSET Files,
         NEW acts \in BOOLEAN, installFailsCritically(f, files, acts)
  PROVE  /\ RetrieverTypeOK'
         /\ files \subseteq wads
         /\ wads # files
         /\ wads' = IF acts THEN {} ELSE wads \ files
         /\ silent' = (silent \/ ~acts)
         /\ isAnyDownloadWorking' => ~acts /\ WorksAfter(f, files)
<1>1. /\ files \subseteq wads
      /\ files # wads
      /\ f \in wads
      /\ wads' = IF acts THEN {} ELSE wads \ files
      /\ silent' = (silent \/ ~acts)
      /\ UNCHANGED <<used, timers>>
  BY DEF installFailsCritically
<1> DEFINE gone == IF acts THEN Files ELSE files
<1>2. /\ urls' = Forget(WithoutMirrors(f), gone, {})
      /\ reply' = Forget([reply EXCEPT ![f] = NoUrl], gone, NoUrl)
      /\ had' = Forget(had, gone, {})
      /\ mirrors' = Forget(mirrors, gone, {})
  BY DEF installFailsCritically
<1> HIDE DEF gone
<1>3. RetrieverTypeOK'
  BY <1>1, <1>2, ForgetIsTyped DEF RetrieverTypeOK
<1>4. ASSUME isAnyDownloadWorking' PROVE ~acts /\ WorksAfter(f, files)
  <2>1. PICK g \in wads' : reply'[g] # NoUrl \/ urls'[g] # {}
    BY <1>4 DEF isAnyDownloadWorking
  <2>2. ~acts /\ g \in wads \ files /\ g \in Files
    BY <1>1, <2>1 DEF RetrieverTypeOK
  <2>3. gone = files
    BY <2>2 DEF gone
  <2>4. /\ urls'[g] = WithoutMirrors(f)[g]
        /\ reply'[g] = [reply EXCEPT ![f] = NoUrl][g]
    BY <1>2, <2>2, <2>3 DEF Forget
  <2>5. g = f => reply'[g] = NoUrl
    BY <2>2, <2>4 DEF RetrieverTypeOK
  <2>6. g # f => reply'[g] = reply[g]
    BY <2>2, <2>4 DEF RetrieverTypeOK
  <2> QED
    BY <2>1, <2>2, <2>4, <2>5, <2>6 DEF WorksAfter
<1> QED
  BY <1>1, <1>3, <1>4

LEMMA AddMirrorUrlsStep ==
  ASSUME RetrieverTypeOK, NEW f \in Files, NEW found \in SUBSET Urls,
         addMirrorUrls(f, found)
  PROVE  /\ RetrieverTypeOK'
         /\ wads' = wads
         /\ silent => silent'
         /\ timers' = timers
         /\ DownloadsGoOn => DownloadsGoOn'
         /\ IF f \in wads /\ ~(found \subseteq used)
            THEN \/ isAnyDownloadWorking'
                 \/ silent'
                 \/ HasWakeUp(Announced(
                      wads,
                      [urls EXCEPT ![f] = @ \cup (found \ (used \cup had[f]))],
                      reply))
            ELSE UNCHANGED retrieverVars
<1>1. CASE f \in wads /\ ~(found \subseteq used)
  <2> DEFINE new == found \ (used \cup had[f])
             A == [urls EXCEPT ![f] = @ \cup new]
  <2>1. startNextDownloads(wads, A, reply, used) /\ UNCHANGED timers
    BY <1>1 DEF addMirrorUrls
  <2>2. /\ had' = [had EXCEPT ![f] = @ \cup new]
        /\ mirrors' = [mirrors EXCEPT ![f] = @ \cup new]
    BY <1>1 DEF addMirrorUrls
  <2>3. /\ A \in [Files -> SUBSET Urls]
        /\ had' \in [Files -> SUBSET Urls]
        /\ mirrors' \in [Files -> SUBSET Urls]
    BY <2>2 DEF RetrieverTypeOK
  <2>4. /\ wads \in SUBSET Files
        /\ reply \in [Files -> Urls \cup {NoUrl}]
        /\ used \in SUBSET Urls
        /\ silent \in BOOLEAN
        /\ timers \in Nat
    BY DEF RetrieverTypeOK
  <2> HIDE DEF A
  <2>5. /\ wads' = wads
        /\ urls' \in [Files -> SUBSET Urls]
        /\ reply' \in [Files -> Urls \cup {NoUrl}]
        /\ used' \in SUBSET Urls
        /\ silent' \in BOOLEAN
        /\ silent => silent'
        /\ isAnyDownloadWorking' => Running(wads', reply') # {}
        /\ isAnyDownloadWorking' \/ silent' \/ wads = {} \/ Pending(wads, A, reply)
    BY <2>1, <2>3, <2>4, StartsSomething
  <2>6. HasWakeUp(Announced(wads, A, reply)) \/ ~(wads = {} \/ Pending(wads, A, reply))
    BY AnnouncedIsCall
  <2>7. RetrieverTypeOK' /\ DownloadsGoOn'
    BY <2>1, <2>3, <2>4, <2>5 DEF RetrieverTypeOK, DownloadsGoOn
  <2>8. isAnyDownloadWorking' \/ silent' \/ HasWakeUp(Announced(wads, A, reply))
    BY <2>5, <2>6
  <2> QED
    BY <1>1, <2>1, <2>5, <2>7, <2>8 DEF A
<1>2. CASE ~(f \in wads /\ ~(found \subseteq used))
  <2>1. UNCHANGED retrieverVars
    BY <1>2 DEF addMirrorUrls
  <2> QED
    BY <1>2, <2>1 DEF retrieverVars, RetrieverTypeOK, DownloadsGoOn,
                isAnyDownloadWorking, Running
<1> QED
  BY <1>1, <1>2

LEMMA AbortDownloadsStep ==
  ASSUME RetrieverTypeOK, abortDownloads
  PROVE  /\ RetrieverTypeOK'
         /\ wads' = {}
         /\ silent' = silent
         /\ timers' = timers
         /\ ~isAnyDownloadWorking'
BY DEF abortDownloads, RetrieverTypeOK, isAnyDownloadWorking

LEMMA RedirectedStep ==
  ASSUME RetrieverTypeOK, NEW f \in Files, NEW u \in Urls,
         downloadRedirected(f, u)
  PROVE  /\ RetrieverTypeOK'
         /\ wads' = wads
         /\ silent' = silent
         /\ timers' = timers
         /\ DownloadsGoOn'
         /\ isAnyDownloadWorking'
<1>1. /\ f \in wads
      /\ reply' = [reply EXCEPT ![f] = u]
      /\ used' = used \cup {u}
      /\ UNCHANGED <<wads, urls, had, mirrors, timers, silent>>
  BY DEF downloadRedirected
<1>2. RetrieverTypeOK'
  BY <1>1 DEF RetrieverTypeOK
<1>3. f \in wads' /\ reply'[f] = u /\ u # NoUrl
  BY <1>1 DEF RetrieverTypeOK
<1>4. isAnyDownloadWorking'
  BY <1>3 DEF isAnyDownloadWorking
<1>5. Running(wads', reply') # {}
  BY <1>3 DEF Running
<1> QED
  BY <1>1, <1>2, <1>4, <1>5 DEF DownloadsGoOn

-----------------------------------------------------------------------------
(* The seekers' operations                                                 *)

LEMMA StartNextSitesStep ==
  ASSUME NEW F \in SUBSET Files, NEW S \in SUBSET Sites,
         NEW V \in SUBSET Sites, NEW Q \in SUBSET Sites, NEW direct,
         startNextSites(F, S, V, Q, direct)
  PROVE  SeekerTypeOK' /\ SitesAsk' /\ seekedFiles' = F
BY DEF startNextSites, SeekerTypeOK, SitesAsk

LEMMA AbortSitesStep ==
  ASSUME SeekerTypeOK, abortSites
  PROVE  SeekerTypeOK' /\ SitesAsk' /\ ~wwwWorking'
BY DEF abortSites, SeekerTypeOK, SitesAsk

LEMMA RemoveSeekedFilesStep ==
  ASSUME SeekerTypeOK, SitesAsk, NEW files, removeSeekedFiles(files)
  PROVE  /\ SeekerTypeOK'
         /\ SitesAsk'
         /\ StopsWith(files) \in BOOLEAN
         /\ wwwWorking' <=> wwwWorking /\ ~StopsWith(files)
         /\ wwwWorking' => seekedFiles' = seekedFiles \ files
<1>1. CASE StopsWith(files)
  BY <1>1, AbortSitesStep DEF removeSeekedFiles, StopsWith
<1>2. CASE ~StopsWith(files)
  BY <1>2 DEF removeSeekedFiles, SeekerTypeOK, SitesAsk, StopsWith
<1> QED
  BY <1>1, <1>2

-----------------------------------------------------------------------------
(* The steps                                                               *)

PromisedStep == [Promised!Next]_(Promised!vars)

(* A handler that ends with cleanUpIfAllFinished() and changes neither the *)
(* wanted files nor, but for stopping them, what is searched.              *)
LEMMA AfterCleanUp ==
  ASSUME IInv,
         CleanUpIfAllFinished,
         UNCHANGED historyVars,
         RetrieverTypeOK', SeekerTypeOK', ServiceTypeOK',
         posted' \in Seq(Calls),
         ServicesAsk', SitesAsk',
         seeking => DownloadsGoOn',
         wads' = wads,
         wwwWorking' => wwwWorking /\ seekedFiles' = seekedFiles,
         bIsAborting => ~Works',
         ~seeking => ~ServicesWork'
  PROVE  IInv' /\ PromisedStep
<1> USE DEF IInv
<1>1. CASE seeking /\ ~Works'
  <2>1. /\ seeking' = FALSE /\ bIsAborting' = FALSE
        /\ told' \in {"success", "failure"}
        /\ told' = "success" => ~isAnyWadPendingUrl' /\ ~bIsAborting
    BY <1>1 DEF CleanUpIfAllFinished, SeekTypeOK
  <2>2. IInv'
    <3>1. SeekTypeOK'
      BY <2>1 DEF historyVars, SeekTypeOK
    <3>2. IdleMeansIdle'
      BY <1>1, <2>1 DEF IdleMeansIdle, Works
    <3> QED
      BY <2>1, <3>1, <3>2 DEF AbortedIsOver, Accounts, EndIsNoticed
  <2>3. told' = "success" => wads' = {}
    BY <1>1, <2>1 DEF isAnyWadPendingUrl, isAnyDownloadWorking, Works
  <2>4. told' = "success" => installed' = asked
    BY <1>1, <2>1, <2>3 DEF Accounts, historyVars
  <2>5. Promised!Done({})
    BY <1>1, <2>1, <2>4 DEF Promised!Done, historyVars
  <2>6. Promised!Next
    BY <2>5 DEF Promised!Next
  <2> QED
    BY <2>2, <2>6 DEF PromisedStep
<1>2. CASE ~(seeking /\ ~Works')
  <2>1. UNCHANGED <<seeking, bIsAborting, told>>
    BY <1>2 DEF CleanUpIfAllFinished, seekVars
  <2>2. SeekTypeOK' /\ IdleMeansIdle'
    BY <1>2, <2>1 DEF historyVars, SeekTypeOK, IdleMeansIdle
  <2>3. AbortedIsOver' /\ EndIsNoticed'
    BY <1>2, <2>1 DEF AbortedIsOver, EndIsNoticed, IdleMeansIdle
  <2>4. Accounts'
    BY <1>2, <2>1 DEF Accounts, historyVars
  <2>5. UNCHANGED Promised!vars
    BY <2>1 DEF Promised!vars, historyVars
  <2> QED
    BY <2>1, <2>2, <2>3, <2>4, <2>5 DEF PromisedStep
<1> QED
  BY <1>1, <1>2

(* A step of a seek that goes on, while its services do.                   *)
LEMMA GoesOn ==
  ASSUME IInv,
         seeking,
         UNCHANGED <<serviceVars, seekVars, asked>>,
         RetrieverTypeOK', SeekerTypeOK',
         posted' \in Seq(Calls),
         SitesAsk', DownloadsGoOn', EndIsNoticed', Accounts',
         bIsAborting => wads' = {} /\ ~wwwWorking' /\ HasWakeUp(posted'),
         installed' = installed \/ installed' \subseteq asked,
         installed \subseteq installed'
  PROVE  IInv' /\ PromisedStep
<1>1. ServiceTypeOK' /\ ServicesAsk' /\ ServicesWork' = ServicesWork
  BY DEF IInv, serviceVars, ServiceTypeOK, ServicesAsk, ServicesWork
<1>2. SeekTypeOK'
  BY DEF IInv, seekVars, SeekTypeOK
<1>3. IdleMeansIdle' /\ AbortedIsOver'
  BY <1>1 DEF IInv, IdleMeansIdle, AbortedIsOver, seekVars
<1>4. IInv'
  BY <1>1, <1>2, <1>3 DEF IInv
<1>5. PromisedStep
  <2>1. CASE installed' = installed
    BY <2>1 DEF PromisedStep, Promised!vars, seekVars
  <2>2. CASE installed' # installed
    <3> DEFINE new == installed' \ installed
    <3>1. Promised!Install(new)
      BY <2>2 DEF Promised!Install, seekVars
    <3>2. new \in SUBSET Files
      BY <1>2 DEF SeekTypeOK
    <3> QED
      BY <3>1, <3>2 DEF PromisedStep, Promised!Next
  <2> QED
    BY <2>1, <2>2
<1> QED
  BY <1>4, <1>5

LEMMA DiesStep ==
  ASSUME Dies
  PROVE  IInv' /\ PromisedStep
<1>1. /\ setWads({})
      /\ wwwWorking' = FALSE
      /\ seekedFiles' = {}
      /\ sitesUrls' = {}
      /\ visitedUrls' = {}
      /\ networkQueries' = {}
      /\ StopServices
      /\ seeking' = FALSE
      /\ bIsAborting' = FALSE
      /\ told' = "none"
      /\ posted' = <<>>
      /\ asked' = {}
      /\ installed' = {}
  BY DEF Dies
<1>2. RetrieverTypeOK' /\ ~isAnyDownloadWorking'
  BY <1>1, SetWadsStep
<1>3. ServiceTypeOK' /\ ServicesAsk' /\ ~ServicesWork'
  BY <1>1 DEF StopServices, ServiceTypeOK, ServicesAsk, ServicesWork
<1>4. SeekTypeOK' /\ SeekerTypeOK' /\ SitesAsk'
  <2>1. posted' \in Seq(Calls)
    BY <1>1
  <2> QED
    BY <1>1, <2>1 DEF SeekTypeOK, SeekerTypeOK, SitesAsk
<1>5. IInv'
  BY <1>1, <1>2, <1>3, <1>4
     DEF IInv, IdleMeansIdle, AbortedIsOver, Accounts, EndIsNoticed
<1>6. Promised!Next
  BY <1>1 DEF Promised!Next, Promised!Vanish
<1> QED
  BY <1>5, <1>6 DEF PromisedStep

(* An invariant says what is not so of a seek that was aborted.            *)
LEMMA NotAborting ==
  ASSUME IInv, wads # {} \/ wwwWorking \/ ServicesWork
  PROVE  ~bIsAborting
BY DEF IInv, AbortedIsOver

LEMMA StartSeekStep ==
  ASSUME IInv, NEW files \in SUBSET Files, NEW sites \in SUBSET Sites,
         NEW direct, NEW idgames \in BOOLEAN, NEW archive \in BOOLEAN,
         StartSeek(files, sites, direct, idgames, archive)
  PROVE  IInv' /\ PromisedStep
<1>1. /\ ~seeking
      /\ files # {}
      /\ seeking' = TRUE
      /\ bIsAborting' = FALSE
      /\ told' = "none"
      /\ asked' = files
      /\ installed' = {}
      /\ setWads(files)
      /\ startNextSites(files, sites, {}, {}, direct)
  BY DEF StartSeek, startSearch
<1>2. RetrieverTypeOK' /\ wads' = files /\ ~isAnyDownloadWorking'
  BY <1>1, SetWadsStep
<1>3. SeekerTypeOK' /\ SitesAsk' /\ seekedFiles' = files
  BY <1>1, StartNextSitesStep
<1>4. ServiceTypeOK' /\ ServicesAsk'
  BY DEF StartSeek, ServiceTypeOK, ServicesAsk
<1>5. /\ posted' \in Seq(Calls)
      /\ wwwWorking' \/ HasWakeUp(posted')
  <2>1. PICK links \in LinkSeqs(files) :
          posted' = posted \o (links \o WwwFinished(~wwwWorking'))
    BY DEF StartSeek, Post
  <2>2. links \in Seq(Calls)
    BY LinksAreCalls
  <2>3. /\ WwwFinished(~wwwWorking') \in Seq(Calls)
        /\ wwwWorking' \/ HasWakeUp(WwwFinished(~wwwWorking'))
    BY WwwFinishedIsCall
  <2>4. /\ links \o WwwFinished(~wwwWorking') \in Seq(Calls)
        /\ wwwWorking' \/ HasWakeUp(links \o WwwFinished(~wwwWorking'))
    BY <2>2, <2>3, PostedIsTyped
  <2>5. posted \in Seq(Calls)
    BY DEF IInv, SeekTypeOK
  <2> QED
    BY <2>1, <2>4, <2>5, PostedIsTyped
<1>6. SeekTypeOK'
  BY <1>1, <1>5 DEF SeekTypeOK
<1>7. IdleMeansIdle' /\ AbortedIsOver' /\ Accounts' /\ DownloadsGoOn'
  BY <1>1, <1>2, <1>3
     DEF IdleMeansIdle, AbortedIsOver, Accounts, DownloadsGoOn
<1>8. EndIsNoticed'
  BY <1>5 DEF EndIsNoticed, Works
<1>9. Promised!Start(files)
  BY <1>1 DEF Promised!Start
<1> QED
  BY <1>2, <1>3, <1>4, <1>6, <1>7, <1>8, <1>9
     DEF IInv, PromisedStep, Promised!Next

LEMMA AbortStep ==
  ASSUME IInv, Abort
  PROVE  IInv' /\ PromisedStep
<1>1. /\ seeking
      /\ ~bIsAborting
      /\ StopServices
      /\ UNCHANGED historyVars
  BY DEF Abort
<1>2. ServiceTypeOK' /\ ServicesAsk' /\ ~ServicesWork'
  BY <1>1 DEF StopServices, ServiceTypeOK, ServicesAsk, ServicesWork
<1>3. CASE wwwWorking \/ isAnyDownloadWorking
  <2>1. /\ bIsAborting' = TRUE
        /\ abortSites
        /\ abortDownloads
        /\ posted' = posted \o WwwFinished(TRUE)
        /\ UNCHANGED <<seeking, told>>
    BY <1>3 DEF Abort, Post
  <2>2. /\ RetrieverTypeOK' /\ wads' = {} /\ ~isAnyDownloadWorking'
        /\ SeekerTypeOK' /\ SitesAsk' /\ ~wwwWorking'
    BY <2>1, AbortDownloadsStep, AbortSitesStep DEF IInv
  <2>3. posted' \in Seq(Calls) /\ HasWakeUp(posted')
    BY <2>1, WwwFinishedIsCall, PostedIsTyped DEF IInv, SeekTypeOK
  <2>4. SeekTypeOK'
    BY <1>1, <2>1, <2>3 DEF IInv, SeekTypeOK, historyVars
  <2>5. /\ IdleMeansIdle' /\ AbortedIsOver' /\ Accounts'
        /\ DownloadsGoOn' /\ EndIsNoticed'
    BY <1>1, <1>2, <2>1, <2>2, <2>3
       DEF IdleMeansIdle, AbortedIsOver, Accounts, DownloadsGoOn, EndIsNoticed
  <2>6. UNCHANGED Promised!vars
    BY <1>1, <2>1 DEF Promised!vars, historyVars
  <2> QED
    BY <1>2, <2>2, <2>4, <2>5, <2>6 DEF IInv, PromisedStep
<1>4. CASE ~(wwwWorking \/ isAnyDownloadWorking)
  <2>1. /\ seeking' = FALSE
        /\ bIsAborting' = FALSE
        /\ told' = "failure"
        /\ UNCHANGED <<retrieverVars, wwwVars, posted>>
    BY <1>4 DEF Abort
  <2>2. RetrieverTypeOK' /\ SeekerTypeOK' /\ SitesAsk'
    BY <2>1 DEF IInv, retrieverVars, wwwVars, RetrieverTypeOK, SeekerTypeOK,
                SitesAsk
  <2>3. SeekTypeOK'
    BY <1>1, <2>1 DEF IInv, SeekTypeOK, historyVars
  <2>4. /\ IdleMeansIdle' /\ AbortedIsOver' /\ Accounts' /\ EndIsNoticed'
    BY <1>2, <1>4, <2>1
       DEF IdleMeansIdle, AbortedIsOver, Accounts, EndIsNoticed, wwwVars
  <2>5. Promised!Done({})
    BY <1>1, <2>1 DEF Promised!Done, historyVars
  <2> QED
    BY <1>2, <2>1, <2>2, <2>3, <2>4, <2>5 DEF IInv, PromisedStep, Promised!Next
<1> QED
  BY <1>3, <1>4

LEMMA SkipIdgamesStep ==
  ASSUME IInv, SkipIdgames
  PROVE  IInv' /\ PromisedStep
<1>1. /\ idgamesClients # {}
      /\ idgamesClients' = {}
      /\ idgamesFile' = NoFile
      /\ idgamesPage' = FALSE
      /\ UNCHANGED <<archiveQueue, archiveFile, retrieverVars, wwwVars, posted>>
      /\ CleanUpIfAllFinished
      /\ UNCHANGED historyVars
  BY DEF SkipIdgames
<1>2. seeking /\ ~bIsAborting
  BY <1>1, NotAborting DEF IInv, IdleMeansIdle, ServicesWork
<1>3. RetrieverTypeOK' /\ SeekerTypeOK' /\ SitesAsk' /\ DownloadsGoOn'
  BY <1>1, <1>2 DEF IInv, retrieverVars, wwwVars, RetrieverTypeOK, SeekerTypeOK,
                    SitesAsk, DownloadsGoOn, isAnyDownloadWorking, Running
<1>4. ServiceTypeOK' /\ ServicesAsk'
  BY <1>1 DEF IInv, ServiceTypeOK, ServicesAsk
<1> QED
  BY <1>1, <1>2, <1>3, <1>4, AfterCleanUp
     DEF IInv, SeekTypeOK, retrieverVars, wwwVars

LEMMA SkipWadArchiveStep ==
  ASSUME IInv, SkipWadArchive
  PROVE  IInv' /\ PromisedStep
<1>1. /\ archiveFile # NoFile
      /\ archiveQueue' = {}
      /\ archiveFile' = NoFile
      /\ UNCHANGED <<idgamesClients, idgamesFile, idgamesPage>>
      /\ UNCHANGED <<retrieverVars, wwwVars, posted>>
      /\ CleanUpIfAllFinished
      /\ UNCHANGED historyVars
  BY DEF SkipWadArchive
<1>2. seeking /\ ~bIsAborting
  BY <1>1, NotAborting DEF IInv, IdleMeansIdle, ServicesWork
<1>3. RetrieverTypeOK' /\ SeekerTypeOK' /\ SitesAsk' /\ DownloadsGoOn'
  BY <1>1, <1>2 DEF IInv, retrieverVars, wwwVars, RetrieverTypeOK, SeekerTypeOK,
                    SitesAsk, DownloadsGoOn, isAnyDownloadWorking, Running
<1>4. ServiceTypeOK' /\ ServicesAsk'
  BY <1>1 DEF IInv, ServiceTypeOK, ServicesAsk
<1> QED
  BY <1>1, <1>2, <1>3, <1>4, AfterCleanUp
     DEF IInv, SeekTypeOK, retrieverVars, wwwVars

(* The next client is one that is left.                                    *)
LEMMA NextIdgamesClientStep ==
  ASSUME ServiceTypeOK, ServicesAsk, NextIdgamesClient,
         UNCHANGED <<archiveQueue, archiveFile>>
  PROVE  ServiceTypeOK' /\ ServicesAsk'
<1>1. /\ idgamesClients' = idgamesClients \ {idgamesFile}
      /\ idgamesFile' \in IF idgamesClients' = {} THEN {NoFile} ELSE idgamesClients'
      /\ idgamesPage' = FALSE
  BY DEF NextIdgamesClient
<1>2. NoFile \notin idgamesClients'
  BY <1>1 DEF ServiceTypeOK
<1>3. CASE idgamesClients' = {}
  BY <1>1, <1>3 DEF ServiceTypeOK, ServicesAsk
<1>4. CASE idgamesClients' # {}
  BY <1>1, <1>2, <1>4 DEF ServiceTypeOK, ServicesAsk
<1> QED
  BY <1>3, <1>4

LEMMA IdgamesApiAnswersStep ==
  ASSUME IInv, IdgamesApiAnswers
  PROVE  IInv' /\ PromisedStep
<1>1. /\ idgamesFile # NoFile
      /\ UNCHANGED <<archiveQueue, archiveFile, retrieverVars, wwwVars, posted>>
      /\ CleanUpIfAllFinished
      /\ UNCHANGED historyVars
  BY DEF IdgamesApiAnswers
<1>2. seeking /\ ~bIsAborting
  BY <1>1, NotAborting DEF IInv, IdleMeansIdle, ServicesWork, ServicesAsk
<1>3. RetrieverTypeOK' /\ SeekerTypeOK' /\ SitesAsk' /\ DownloadsGoOn'
  BY <1>1, <1>2 DEF IInv, retrieverVars, wwwVars, RetrieverTypeOK, SeekerTypeOK,
                    SitesAsk, DownloadsGoOn, isAnyDownloadWorking, Running
<1>4. ServiceTypeOK' /\ ServicesAsk'
  <2>1. CASE idgamesPage' = TRUE /\ UNCHANGED <<idgamesClients, idgamesFile>>
    BY <1>1, <2>1 DEF IInv, ServiceTypeOK, ServicesAsk
  <2>2. CASE NextIdgamesClient
    BY <1>1, <2>2, NextIdgamesClientStep DEF IInv
  <2> QED
    BY <2>1, <2>2 DEF IdgamesApiAnswers
<1> QED
  BY <1>1, <1>2, <1>3, <1>4, AfterCleanUp
     DEF IInv, SeekTypeOK, retrieverVars, wwwVars

LEMMA IdgamesPageFinishedStep ==
  ASSUME IInv, NEW found \in SUBSET Urls, IdgamesPageFinished(found)
  PROVE  IInv' /\ PromisedStep
<1>1. /\ idgamesFile # NoFile
      /\ NextIdgamesClient
      /\ UNCHANGED <<archiveQueue, archiveFile, wwwVars>>
      /\ CleanUpIfAllFinished
      /\ UNCHANGED historyVars
  BY DEF IdgamesPageFinished
<1>2. seeking /\ ~bIsAborting /\ idgamesFile \in Files
  BY <1>1, NotAborting
     DEF IInv, IdleMeansIdle, ServicesWork, ServicesAsk, ServiceTypeOK
<1>3. SeekerTypeOK' /\ SitesAsk'
  BY <1>1 DEF IInv, wwwVars, SeekerTypeOK, SitesAsk
<1>4. ServiceTypeOK' /\ ServicesAsk'
  BY <1>1, NextIdgamesClientStep DEF IInv
<1>5. /\ RetrieverTypeOK' /\ DownloadsGoOn' /\ wads' = wads
      /\ posted' \in Seq(Calls)
  <2>1. CASE found = {}
    <3>1. UNCHANGED <<retrieverVars, posted>>
      BY <2>1 DEF IdgamesPageFinished
    <3> QED
      BY <1>2, <3>1 DEF IInv, retrieverVars, RetrieverTypeOK, DownloadsGoOn,
                        isAnyDownloadWorking, Running, SeekTypeOK
  <2>2. CASE found # {}
    <3> DEFINE calls ==
          IF idgamesFile \in wads /\ ~(found \subseteq used)
          THEN Announced(
                 wads,
                 [urls EXCEPT ![idgamesFile] =
                    @ \cup (found \ (used \cup had[idgamesFile]))],
                 reply)
          ELSE <<>>
    <3>1. addMirrorUrls(idgamesFile, found) /\ posted' = posted \o calls
      BY <2>2 DEF IdgamesPageFinished, Post
    <3>2. calls \in Seq(Calls)
      BY AnnouncedIsCall
    <3> HIDE DEF calls
    <3>3. posted' \in Seq(Calls)
      BY <3>1, <3>2, PostedIsTyped DEF IInv, SeekTypeOK
    <3> QED
      BY <1>2, <3>1, <3>3, AddMirrorUrlsStep DEF IInv
  <2> QED
    BY <2>1, <2>2
<1> QED
  BY <1>1, <1>2, <1>3, <1>4, <1>5, AfterCleanUp DEF wwwVars

LEMMA ArchiveAnswersStep ==
  ASSUME IInv, ArchiveAnswers
  PROVE  IInv' /\ PromisedStep
<1>1. /\ archiveFile # NoFile
      /\ archiveFile' \in IF archiveQueue = {} THEN {NoFile} ELSE archiveQueue
      /\ archiveQueue' = archiveQueue \ {archiveFile'}
      /\ UNCHANGED <<idgamesClients, idgamesFile, idgamesPage, wwwVars, posted>>
      /\ CleanUpIfAllFinished
      /\ UNCHANGED historyVars
  BY DEF ArchiveAnswers
<1>2. seeking /\ ~bIsAborting /\ archiveFile \in Files
  BY <1>1, NotAborting DEF IInv, IdleMeansIdle, ServicesWork, ServiceTypeOK
<1>3. SeekerTypeOK' /\ SitesAsk'
  BY <1>1 DEF IInv, wwwVars, SeekerTypeOK, SitesAsk
<1>4. ServiceTypeOK' /\ ServicesAsk'
  <2>1. CASE archiveQueue = {}
    BY <1>1, <2>1 DEF IInv, ServiceTypeOK, ServicesAsk
  <2>2. CASE archiveQueue # {}
    BY <1>1, <2>2 DEF IInv, ServiceTypeOK, ServicesAsk
  <2> QED
    BY <2>1, <2>2
<1>5. RetrieverTypeOK' /\ DownloadsGoOn' /\ wads' = wads
  <2>1. CASE UNCHANGED retrieverVars
    BY <1>2, <2>1 DEF IInv, retrieverVars, RetrieverTypeOK, DownloadsGoOn,
                      isAnyDownloadWorking, Running
  <2>2. CASE \E u \in Urls : addUrl(archiveFile, u)
    BY <1>2, <2>2, AddUrlStep DEF IInv
  <2> QED
    BY <2>1, <2>2 DEF ArchiveAnswers
<1> QED
  BY <1>1, <1>2, <1>3, <1>4, <1>5, AfterCleanUp DEF IInv, SeekTypeOK, wwwVars

LEMMA DeliverWwwFinishedStep ==
  ASSUME IInv, DeliverWwwFinished
  PROVE  IInv' /\ PromisedStep
<1>1. /\ posted # <<>>
      /\ posted' = Tail(posted)
      /\ UNCHANGED <<retrieverVars, wwwVars, serviceVars>>
      /\ CleanUpIfAllFinished
      /\ UNCHANGED historyVars
  BY DEF DeliverWwwFinished, Delivers
<1>2. posted' \in Seq(Calls)
  BY <1>1, TailIsTyped DEF IInv, SeekTypeOK
<1>3. /\ RetrieverTypeOK' /\ SeekerTypeOK' /\ ServiceTypeOK'
      /\ SitesAsk' /\ ServicesAsk'
  BY <1>1 DEF IInv, retrieverVars, wwwVars, serviceVars, RetrieverTypeOK,
              SeekerTypeOK, ServiceTypeOK, SitesAsk, ServicesAsk
<1>4. /\ ServicesWork' = ServicesWork
      /\ isAnyDownloadWorking' = isAnyDownloadWorking
      /\ seeking => DownloadsGoOn'
  BY <1>1 DEF IInv, retrieverVars, serviceVars, ServicesWork,
              isAnyDownloadWorking, DownloadsGoOn, Running
<1>5. bIsAborting => ~Works'
  BY <1>1, <1>4
     DEF IInv, AbortedIsOver, Works, wwwVars, isAnyDownloadWorking
<1>6. ~seeking => ~ServicesWork'
  BY <1>4 DEF IInv, IdleMeansIdle
<1> QED
  BY <1>1, <1>2, <1>3, <1>4, <1>5, <1>6, AfterCleanUp DEF retrieverVars, wwwVars

LEMMA DeliverRetrieverSignalStep ==
  ASSUME IInv, DeliverRetrieverSignal
  PROVE  IInv' /\ PromisedStep
<1>1. /\ posted # <<>>
      /\ UNCHANGED retrieverVars
      /\ CleanUpIfAllFinished
      /\ UNCHANGED historyVars
  BY DEF DeliverRetrieverSignal, Delivers
<1>2. Tail(posted) \in Seq(Calls)
  BY <1>1, TailIsTyped DEF IInv, SeekTypeOK
<1>3. /\ RetrieverTypeOK'
      /\ wads' = wads
      /\ isAnyDownloadWorking' = isAnyDownloadWorking
      /\ seeking => DownloadsGoOn'
  BY <1>1 DEF IInv, retrieverVars, RetrieverTypeOK, isAnyDownloadWorking,
              DownloadsGoOn, Running
<1>4. CASE seeking /\ Works /\ ~areAllWadsPendingUrls
  <2>1. /\ StopServices
        /\ \/ abortSites /\ posted' = Tail(posted) \o WwwFinished(TRUE)
           \/ UNCHANGED wwwVars /\ posted' = Tail(posted)
    BY <1>4 DEF DeliverRetrieverSignal
  <2>2. posted' \in Seq(Calls)
    BY <1>2, <2>1, WwwFinishedIsCall, PostedIsTyped
  <2>3. ServiceTypeOK' /\ ServicesAsk'
    BY <2>1 DEF StopServices, ServiceTypeOK, ServicesAsk
  <2>4. SeekerTypeOK' /\ SitesAsk' /\ (wwwWorking' =>
           wwwWorking /\ seekedFiles' = seekedFiles)
    <3>1. CASE abortSites
      BY <3>1, AbortSitesStep DEF IInv
    <3>2. CASE UNCHANGED wwwVars
      BY <3>2 DEF IInv, wwwVars, SeekerTypeOK, SitesAsk
    <3> QED
      BY <2>1, <3>1, <3>2
  <2>5. ~bIsAborting
    BY <1>4 DEF IInv, AbortedIsOver, Works, isAnyDownloadWorking
  <2> QED
    BY <1>1, <1>3, <1>4, <2>2, <2>3, <2>4, <2>5, AfterCleanUp
<1>5. CASE ~(seeking /\ Works /\ ~areAllWadsPendingUrls)
  <2>1. UNCHANGED <<serviceVars, wwwVars>> /\ posted' = Tail(posted)
    BY <1>5 DEF DeliverRetrieverSignal
  <2>2. /\ SeekerTypeOK' /\ ServiceTypeOK' /\ SitesAsk' /\ ServicesAsk'
        /\ ServicesWork' = ServicesWork
    BY <2>1 DEF IInv, wwwVars, serviceVars, SeekerTypeOK, ServiceTypeOK,
                SitesAsk, ServicesAsk, ServicesWork
  <2>3. bIsAborting => ~Works'
    BY <1>3, <2>1, <2>2
       DEF IInv, AbortedIsOver, Works, wwwVars, isAnyDownloadWorking
  <2>4. ~seeking => ~ServicesWork'
    BY <2>2 DEF IInv, IdleMeansIdle
  <2> QED
    BY <1>1, <1>2, <1>3, <2>1, <2>2, <2>3, <2>4, AfterCleanUp DEF wwwVars
<1> QED
  BY <1>4, <1>5

LEMMA PageFinishedStep ==
  ASSUME IInv, NEW s \in Sites, NEW more \in SUBSET Sites, NEW direct,
         PageFinished(s, more, direct)
  PROVE  IInv' /\ PromisedStep
<1>1. /\ s \in networkQueries
      /\ startNextSites(seekedFiles, sitesUrls \cup more, visitedUrls,
                        networkQueries \ {s}, direct)
      /\ UNCHANGED <<retrieverVars, serviceVars, seekVars, historyVars>>
  BY DEF PageFinished, pageFinished
<1>2. wwwWorking /\ seeking /\ ~bIsAborting
  BY <1>1, NotAborting DEF IInv, SitesAsk, IdleMeansIdle
<1>3. SeekerTypeOK' /\ SitesAsk' /\ seekedFiles' = seekedFiles
  <2>1. /\ seekedFiles \in SUBSET Files
        /\ sitesUrls \cup more \in SUBSET Sites
        /\ visitedUrls \in SUBSET Sites
        /\ networkQueries \ {s} \in SUBSET Sites
    BY DEF IInv, SeekerTypeOK
  <2> QED
    BY <1>1, <2>1, StartNextSitesStep
<1>4. RetrieverTypeOK' /\ DownloadsGoOn' /\ wads' = wads
  BY <1>1, <1>2 DEF IInv, retrieverVars, RetrieverTypeOK, DownloadsGoOn,
                    isAnyDownloadWorking, Running
<1>5. /\ posted' \in Seq(Calls)
      /\ wwwWorking' \/ HasWakeUp(posted')
  <2>1. PICK links \in LinkSeqs(seekedFiles) :
          posted' = posted \o (links \o WwwFinished(~wwwWorking'))
    BY DEF PageFinished, Post
  <2>2. links \in Seq(Calls)
    BY LinksAreCalls DEF IInv, SeekerTypeOK
  <2>3. /\ WwwFinished(~wwwWorking') \in Seq(Calls)
        /\ wwwWorking' \/ HasWakeUp(WwwFinished(~wwwWorking'))
    BY WwwFinishedIsCall
  <2>4. /\ links \o WwwFinished(~wwwWorking') \in Seq(Calls)
        /\ wwwWorking' \/ HasWakeUp(links \o WwwFinished(~wwwWorking'))
    BY <2>2, <2>3, PostedIsTyped
  <2>5. posted \in Seq(Calls)
    BY DEF IInv, SeekTypeOK
  <2> QED
    BY <2>1, <2>4, <2>5, PostedIsTyped
<1>6. EndIsNoticed'
  BY <1>5 DEF EndIsNoticed, Works
<1>7. Accounts' /\ installed' \subseteq asked /\ installed \subseteq installed'
  BY <1>1, <1>2, <1>3, <1>4 DEF IInv, Accounts, historyVars, seekVars
<1>8. UNCHANGED <<serviceVars, seekVars, asked>>
  BY <1>1 DEF historyVars
<1> QED
  BY <1>2, <1>3, <1>4, <1>5, <1>6, <1>7, <1>8, GoesOn

LEMMA DownloadRedirectedStep ==
  ASSUME IInv, NEW f \in Files, NEW u \in Urls, DownloadRedirected(f, u)
  PROVE  IInv' /\ PromisedStep
<1>1. /\ seeking
      /\ f \in wads
      /\ downloadRedirected(f, u)
      /\ UNCHANGED <<wwwVars, serviceVars, seekVars, posted, historyVars>>
  BY DEF DownloadRedirected, downloadRedirected
<1>2. ~bIsAborting
  BY <1>1, NotAborting
<1>3. /\ RetrieverTypeOK' /\ wads' = wads
      /\ DownloadsGoOn' /\ isAnyDownloadWorking'
  BY <1>1, RedirectedStep DEF IInv
<1>4. SeekerTypeOK' /\ SitesAsk' /\ posted' \in Seq(Calls)
  BY <1>1 DEF IInv, wwwVars, SeekerTypeOK, SitesAsk, SeekTypeOK
<1>5. EndIsNoticed'
  BY <1>3 DEF EndIsNoticed, Works
<1>6. Accounts' /\ installed' \subseteq asked /\ installed \subseteq installed'
  BY <1>1, <1>2, <1>3 DEF IInv, Accounts, historyVars, seekVars, wwwVars
<1>7. UNCHANGED <<serviceVars, seekVars, asked>>
  BY <1>1 DEF historyVars
<1> QED
  BY <1>1, <1>2, <1>3, <1>4, <1>5, <1>6, <1>7, GoesOn

LEMMA DownloadFailsStep ==
  ASSUME IInv, NEW f \in Files, DownloadFailed(f)
  PROVE  IInv' /\ PromisedStep
<1> DEFINE calls == Announced(wads, urls, [reply EXCEPT ![f] = NoUrl])
<1>1. /\ seeking
      /\ downloadFailed(f)
      /\ posted' = posted \o calls
      /\ UNCHANGED <<wwwVars, serviceVars, seekVars, historyVars>>
  BY DEF DownloadFailed, Post
<1>2. /\ RetrieverTypeOK' /\ f \in wads /\ wads' = wads /\ DownloadsGoOn'
      /\ isAnyDownloadWorking' \/ silent' \/ HasWakeUp(calls)
  BY <1>1, DownloadFailedStep DEF IInv
<1>3. ~bIsAborting
  BY <1>2, NotAborting
<1>4. SeekerTypeOK' /\ SitesAsk'
  BY <1>1 DEF IInv, wwwVars, SeekerTypeOK, SitesAsk
<1>5. calls \in Seq(Calls)
  BY AnnouncedIsCall
<1> HIDE DEF calls
<1>6. posted' \in Seq(Calls) /\ (HasWakeUp(calls) => HasWakeUp(posted'))
  BY <1>1, <1>5, PostedIsTyped DEF IInv, SeekTypeOK
<1>7. EndIsNoticed'
  BY <1>2, <1>6 DEF EndIsNoticed, Works
<1>8. Accounts' /\ installed' \subseteq asked /\ installed \subseteq installed'
  BY <1>1, <1>2, <1>3 DEF IInv, Accounts, historyVars, seekVars, wwwVars
<1>9. UNCHANGED <<serviceVars, seekVars, asked>>
  BY <1>1 DEF historyVars
<1> QED
  BY <1>1, <1>2, <1>3, <1>4, <1>6, <1>7, <1>8, <1>9, GoesOn

LEMMA DelayedStartsStep ==
  ASSUME IInv, DelayedStart
  PROVE  IInv' /\ PromisedStep
<1> DEFINE calls == Announced(wads, urls, reply)
<1>1. /\ seeking
      /\ delayedStart
      /\ posted' = posted \o calls
      /\ UNCHANGED <<wwwVars, serviceVars, seekVars, historyVars>>
  BY DEF DelayedStart, Post
<1>2. /\ RetrieverTypeOK' /\ wads' = wads /\ DownloadsGoOn'
      /\ isAnyDownloadWorking' \/ silent' \/ HasWakeUp(calls)
  BY <1>1, DelayedStartStep DEF IInv
<1>3. SeekerTypeOK' /\ SitesAsk'
  BY <1>1 DEF IInv, wwwVars, SeekerTypeOK, SitesAsk
<1>4. calls \in Seq(Calls)
  BY AnnouncedIsCall
<1> HIDE DEF calls
<1>5. /\ posted' \in Seq(Calls)
      /\ HasWakeUp(calls) \/ HasWakeUp(posted) => HasWakeUp(posted')
  BY <1>1, <1>4, PostedIsTyped DEF IInv, SeekTypeOK
<1>6. EndIsNoticed'
  BY <1>2, <1>5 DEF EndIsNoticed, Works
<1>7. bIsAborting => wads' = {} /\ ~wwwWorking' /\ HasWakeUp(posted')
  BY <1>1, <1>2, <1>5 DEF IInv, AbortedIsOver, wwwVars
<1>8. Accounts' /\ installed' = installed
  BY <1>1, <1>2 DEF IInv, Accounts, historyVars, seekVars, wwwVars
<1>9. UNCHANGED <<serviceVars, seekVars, asked>>
  BY <1>1 DEF historyVars
<1> QED
  BY <1>1, <1>2, <1>3, <1>5, <1>6, <1>7, <1>8, <1>9, GoesOn

LEMMA DeliverLinkStep ==
  ASSUME IInv, DeliverLink
  PROVE  IInv' /\ PromisedStep
<1>1. CASE seeking
  <2>1. /\ posted # <<>>
        /\ Head(posted)[1] = "linkFound"
        /\ addUrl(Head(posted)[2], Head(posted)[3])
        /\ posted' = Tail(posted)
        /\ UNCHANGED <<wwwVars, serviceVars, seekVars, historyVars>>
    BY <1>1 DEF DeliverLink, Delivers
  <2>2. /\ posted' \in Seq(Calls)
        /\ Head(posted) \in Calls
        /\ HasWakeUp(posted) => HasWakeUp(posted')
    BY <2>1, TailIsTyped DEF IInv, SeekTypeOK
  <2>3. Head(posted)[2] \in Files /\ Head(posted)[3] \in Urls
    BY <2>1, <2>2 DEF Calls
  <2>4. /\ RetrieverTypeOK' /\ wads' = wads /\ silent' = silent
        /\ timers' >= timers /\ DownloadsGoOn'
        /\ isAnyDownloadWorking => isAnyDownloadWorking'
    BY <1>1, <2>1, <2>3, AddUrlStep DEF IInv
  <2>5. SeekerTypeOK' /\ SitesAsk'
    BY <2>1 DEF IInv, wwwVars, SeekerTypeOK, SitesAsk
  <2>6. EndIsNoticed'
    <3>1. Works => Works'
      BY <2>1, <2>4 DEF Works, wwwVars, serviceVars, ServicesWork
    <3>2. timers > 0 => timers' > 0
      BY <2>4 DEF IInv, RetrieverTypeOK
    <3> QED
      BY <1>1, <2>2, <2>4, <3>1, <3>2 DEF IInv, EndIsNoticed
  <2>7. bIsAborting => wads' = {} /\ ~wwwWorking' /\ HasWakeUp(posted')
    BY <2>1, <2>2, <2>4 DEF IInv, AbortedIsOver, wwwVars
  <2>8. Accounts' /\ installed' = installed
    BY <1>1, <2>1, <2>4 DEF IInv, Accounts, historyVars, seekVars, wwwVars
  <2>9. UNCHANGED <<serviceVars, seekVars, asked>>
    BY <2>1 DEF historyVars
  <2> QED
    BY <1>1, <2>2, <2>4, <2>5, <2>6, <2>7, <2>8, <2>9, GoesOn
<1>2. CASE ~seeking
  BY <1>2, DiesStep DEF DeliverLink
<1> QED
  BY <1>1, <1>2

LEMMA DownloadInstalledStep ==
  ASSUME IInv, NEW f \in Files, NEW files \in SUBSET Files,
         DownloadInstalls(f, files)
  PROVE  IInv' /\ PromisedStep
<1> DEFINE calls == Announced(
                      wads \ files,
                      Forget(WithoutMirrors(f), files, {}),
                      Forget([reply EXCEPT ![f] = NoUrl], files, NoUrl))
           stopped == WwwFinished(StopsWith(files))
<1>1. /\ seeking
      /\ downloadInstalls(f, files)
      /\ removeSeekedFiles(files)
      /\ posted' = posted \o (stopped \o calls)
      /\ installed' = installed \cup files
      /\ UNCHANGED <<asked, serviceVars, seekVars>>
  BY DEF DownloadInstalls, Post
<1>2. /\ RetrieverTypeOK' /\ DownloadsGoOn'
      /\ files \subseteq wads /\ wads # {} /\ wads' = wads \ files
      /\ isAnyDownloadWorking' \/ silent' \/ HasWakeUp(calls)
  BY <1>1, DownloadInstallsStep DEF IInv
<1>3. ~bIsAborting
  BY <1>2, NotAborting
<1>4. /\ SeekerTypeOK' /\ SitesAsk'
      /\ StopsWith(files) \in BOOLEAN
      /\ wwwWorking' <=> wwwWorking /\ ~StopsWith(files)
      /\ wwwWorking' => seekedFiles' = seekedFiles \ files
  BY <1>1, RemoveSeekedFilesStep DEF IInv
<1>5. calls \in Seq(Calls) /\ stopped \in Seq(Calls)
  BY <1>4, AnnouncedIsCall, WwwFinishedIsCall
<1> HIDE DEF calls, stopped
<1>6. /\ stopped \o calls \in Seq(Calls)
      /\ HasWakeUp(calls) => HasWakeUp(stopped \o calls)
  BY <1>5, PostedIsTyped
<1>7. /\ posted' \in Seq(Calls)
      /\ HasWakeUp(calls) => HasWakeUp(posted')
  BY <1>1, <1>6, PostedIsTyped DEF IInv, SeekTypeOK
<1>8. EndIsNoticed'
  BY <1>2, <1>7 DEF EndIsNoticed, Works
<1>9. Accounts' /\ installed' \subseteq asked /\ installed \subseteq installed'
  BY <1>1, <1>2, <1>3, <1>4 DEF IInv, Accounts, seekVars
<1> QED
  BY <1>1, <1>2, <1>3, <1>4, <1>7, <1>8, <1>9, GoesOn

LEMMA InstallFailsCriticallyStep ==
  ASSUME IInv, NEW f \in Files, NEW files \in SUBSET Files,
         InstallFailsCritically(f, files)
  PROVE  IInv' /\ PromisedStep
<1> DEFINE wwwGoesOn == wwwWorking /\ ~StopsWith(files)
           downloads == WorksAfter(f, files)
           acts == wwwGoesOn \/ downloads \/ ServicesWork
           ends == acts /\ ~wwwGoesOn /\ ~downloads
<1>1. /\ seeking
      /\ installFailsCritically(f, files, acts)
      /\ installed' = installed \cup files
      /\ IF acts /\ ~ends THEN abortSites ELSE removeSeekedFiles(files)
      /\ posted' = posted \o
           (WwwFinished(StopsWith(files)) \o WwwFinished(acts /\ ~ends))
      /\ IF acts THEN StopServices ELSE UNCHANGED serviceVars
      /\ seeking' = ~ends
      /\ bIsAborting' = (acts /\ ~ends)
      /\ told' = IF ends THEN "failure" ELSE told
      /\ UNCHANGED asked
  BY DEF InstallFailsCritically, Post
<1>2. /\ acts \in BOOLEAN /\ ends \in BOOLEAN /\ StopsWith(files) \in BOOLEAN
      /\ wwwGoesOn \in BOOLEAN /\ downloads \in BOOLEAN
  BY DEF StopsWith, WorksAfter, ServicesWork, IInv, SeekerTypeOK
<1>3. /\ wwwGoesOn <=> wwwWorking /\ ~StopsWith(files)
      /\ acts <=> wwwGoesOn \/ downloads \/ ServicesWork
      /\ ends <=> acts /\ ~wwwGoesOn /\ ~downloads
      /\ downloads <=> WorksAfter(f, files)
  OBVIOUS
<1> HIDE DEF wwwGoesOn, downloads, acts, ends
<1>4. /\ RetrieverTypeOK'
      /\ files \subseteq wads
      /\ wads # files
      /\ wads' = IF acts THEN {} ELSE wads \ files
      /\ silent' = (silent \/ ~acts)
      /\ isAnyDownloadWorking' => ~acts /\ downloads
  BY <1>1, <1>2, <1>3, InstallFailsStep DEF IInv
<1>5. ~isAnyDownloadWorking' /\ DownloadsGoOn'
  BY <1>3, <1>4 DEF DownloadsGoOn
<1>6. ~bIsAborting /\ files \subseteq asked \ installed
  BY <1>1, <1>4, NotAborting DEF IInv, Accounts
<1>7. /\ posted' \in Seq(Calls)
      /\ acts /\ ~ends => HasWakeUp(posted')
  <2> DEFINE s == WwwFinished(StopsWith(files))
             t == WwwFinished(acts /\ ~ends)
  <2>1. s \in Seq(Calls) /\ t \in Seq(Calls) /\ (acts /\ ~ends => HasWakeUp(t))
    BY <1>2, WwwFinishedIsCall
  <2> HIDE DEF s, t
  <2>2. s \o t \in Seq(Calls) /\ (acts /\ ~ends => HasWakeUp(s \o t))
    BY <2>1, PostedIsTyped
  <2>3. posted' = posted \o (s \o t) /\ posted \in Seq(Calls)
    BY <1>1 DEF s, t, IInv, SeekTypeOK
  <2> QED
    BY <2>2, <2>3, PostedIsTyped
<1>8. SeekTypeOK'
  BY <1>1, <1>2, <1>6, <1>7 DEF IInv, SeekTypeOK
<1>9. /\ SeekerTypeOK' /\ SitesAsk'
      /\ wwwWorking' => ~(acts /\ ~ends) /\ wwwGoesOn
  <2>1. CASE acts /\ ~ends
    BY <1>1, <2>1, AbortSitesStep DEF IInv
  <2>2. CASE ~(acts /\ ~ends)
    BY <1>1, <1>3, <2>2, RemoveSeekedFilesStep DEF IInv
  <2> QED
    BY <2>1, <2>2
<1>10. ~wwwWorking'
  BY <1>3, <1>9
<1>11. ServiceTypeOK' /\ ServicesAsk' /\ ~ServicesWork'
  <2>1. CASE acts
    BY <1>1, <2>1 DEF StopServices, ServiceTypeOK, ServicesAsk, ServicesWork
  <2>2. CASE ~acts
    BY <1>1, <1>3, <2>2
       DEF IInv, serviceVars, ServiceTypeOK, ServicesAsk, ServicesWork
  <2> QED
    BY <2>1, <2>2
<1>12. IdleMeansIdle' /\ AbortedIsOver'
  BY <1>1, <1>2, <1>3, <1>4, <1>7, <1>10, <1>11 DEF IdleMeansIdle, AbortedIsOver
<1>13. Accounts'
  BY <1>1, <1>3, <1>4, <1>6, <1>10 DEF IInv, Accounts
<1>14. EndIsNoticed'
  BY <1>1, <1>3, <1>4, <1>7 DEF EndIsNoticed
<1>15. IInv'
  BY <1>4, <1>5, <1>8, <1>9, <1>11, <1>12, <1>13, <1>14 DEF IInv
<1>16. PromisedStep
  <2>1. CASE ends
    <3>1. Promised!Done(files)
      BY <1>1, <1>6, <2>1 DEF Promised!Done
    <3> QED
      BY <3>1 DEF PromisedStep, Promised!Next
  <2>2. CASE ~ends /\ files # {}
    <3>1. Promised!Install(files)
      BY <1>1, <1>6, <2>2 DEF Promised!Install
    <3> QED
      BY <3>1 DEF PromisedStep, Promised!Next
  <2>3. CASE ~ends /\ files = {}
    BY <1>1, <1>2, <2>3 DEF PromisedStep, Promised!vars
  <2> QED
    BY <2>1, <2>2, <2>3
<1> QED
  BY <1>15, <1>16

-----------------------------------------------------------------------------
(* The theorems                                                            *)

LEMMA InitIInv == Init => IInv /\ Promised!Init
<1> SUFFICES ASSUME Init PROVE IInv /\ Promised!Init
  OBVIOUS
<1>1. <<>> \in Seq(Calls)
  OBVIOUS
<1>2. posted \in Seq(Calls)
  BY <1>1 DEF Init
<1>3. RetrieverTypeOK /\ SeekerTypeOK /\ ServiceTypeOK
  BY DEF Init, RetrieverTypeOK, SeekerTypeOK, ServiceTypeOK
<1>4. SeekTypeOK
  BY <1>2 DEF Init, SeekTypeOK
<1>5. ServicesAsk /\ SitesAsk /\ IdleMeansIdle
  BY DEF Init, ServicesAsk, SitesAsk, IdleMeansIdle, ServicesWork
<1>6. AbortedIsOver /\ Accounts /\ EndIsNoticed /\ (seeking => DownloadsGoOn)
  BY DEF Init, AbortedIsOver, Accounts, EndIsNoticed
<1> QED
  BY <1>3, <1>4, <1>5, <1>6 DEF IInv, Init, Promised!Init

LEMMA StutterStep ==
  ASSUME IInv, UNCHANGED vars
  PROVE  IInv' /\ PromisedStep
<1>1. UNCHANGED <<retrieverVars, wwwVars, serviceVars, seekVars, posted, historyVars>>
  BY DEF vars
<1>2. RetrieverTypeOK' /\ (seeking' => DownloadsGoOn')
  BY <1>1 DEF IInv, retrieverVars, seekVars, RetrieverTypeOK, DownloadsGoOn,
              isAnyDownloadWorking, Running
<1>3. SeekerTypeOK' /\ ServiceTypeOK' /\ SeekTypeOK'
  BY <1>1 DEF IInv, wwwVars, serviceVars, seekVars, historyVars, SeekerTypeOK,
              ServiceTypeOK, SeekTypeOK
<1>4. ServicesAsk' /\ SitesAsk' /\ IdleMeansIdle' /\ AbortedIsOver'
  BY <1>1 DEF IInv, retrieverVars, wwwVars, serviceVars, seekVars, ServicesAsk,
              SitesAsk, IdleMeansIdle, AbortedIsOver, ServicesWork, HasWakeUp
<1>5. Accounts'
  BY <1>1 DEF IInv, retrieverVars, wwwVars, seekVars, historyVars, Accounts
<1>6. EndIsNoticed'
  BY <1>1 DEF IInv, retrieverVars, wwwVars, serviceVars, seekVars, EndIsNoticed,
              Works, ServicesWork, isAnyDownloadWorking, HasWakeUp
<1>7. UNCHANGED Promised!vars
  BY <1>1 DEF Promised!vars, seekVars, historyVars
<1> QED
  BY <1>2, <1>3, <1>4, <1>5, <1>6, <1>7 DEF IInv, PromisedStep

LEMMA NextStep == IInv /\ [Next]_vars => IInv' /\ PromisedStep
<1> SUFFICES ASSUME IInv, [Next]_vars PROVE IInv' /\ PromisedStep
  OBVIOUS
<1>1. CASE \E files \in SUBSET Files, sites \in SUBSET Sites,
              idgames, archive \in BOOLEAN :
             \E direct \in SUBSET sites :
               StartSeek(files, sites, direct, idgames, archive)
  BY <1>1, StartSeekStep
<1>2. CASE StartSeekOfNothing \/ Destroyed
  BY <1>2, DiesStep DEF StartSeekOfNothing, Destroyed
<1>3. CASE Abort
  BY <1>3, AbortStep
<1>4. CASE SkipIdgames
  BY <1>4, SkipIdgamesStep
<1>5. CASE SkipWadArchive
  BY <1>5, SkipWadArchiveStep
<1>6. CASE SomePageFinished
  BY <1>6, PageFinishedStep DEF SomePageFinished
<1>7. CASE IdgamesApiAnswers
  BY <1>7, IdgamesApiAnswersStep
<1>8. CASE SomeIdgamesPageFinished
  BY <1>8, IdgamesPageFinishedStep DEF SomeIdgamesPageFinished
<1>9. CASE ArchiveAnswers
  BY <1>9, ArchiveAnswersStep
<1>10. CASE \E f \in Files : DownloadEnds(f)
  BY <1>10, DownloadFailsStep, DownloadInstalledStep, InstallFailsCriticallyStep
     DEF DownloadEnds
<1>11. CASE \E f \in Files, u \in Urls : DownloadRedirected(f, u)
  BY <1>11, DownloadRedirectedStep
<1>12. CASE DelayedStart
  BY <1>12, DelayedStartsStep
<1>13. CASE Deliver
  BY <1>13, DeliverWwwFinishedStep, DeliverLinkStep, DeliverRetrieverSignalStep
     DEF Deliver
<1>14. CASE UNCHANGED vars
  BY <1>14, StutterStep
<1> QED
  BY <1>1, <1>2, <1>3, <1>4, <1>5, <1>6, <1>7, <1>8, <1>9, <1>10, <1>11,
     <1>12, <1>13, <1>14 DEF Next

LEMMA Inductive == Spec => []IInv
<1>1. Init => IInv
  BY InitIInv
<1>2. IInv /\ [Next]_vars => IInv'
  BY NextStep
<1> QED
  BY <1>1, <1>2, PTL DEF Spec

(* The state of the retriever, the seekers and the seek has its type.      *)
THEOREM TypeCorrect == Spec => []TypeOK
<1>1. IInv => TypeOK
  BY DEF IInv, TypeOK, RetrieverTypeOK, SeekerTypeOK, ServiceTypeOK, SeekTypeOK
<1> QED
  BY <1>1, Inductive, PTL

(* Whatever is found, fails or is installed, in any order: the files still *)
(* wanted, those searched for and those installed stay those asked for.    *)
THEOREM FilesAccounted == Spec => []NoFileForgotten
<1>1. IInv => NoFileForgotten
  BY DEF IInv, Accounts, NoFileForgotten
<1> QED
  BY <1>1, Inductive, PTL

(* A seek never waits for something that is not under way.                 *)
THEOREM WorkContinues == Spec => []WorkGoesOn
<1>1. IInv => WorkGoesOn
  BY DEF IInv, SitesAsk, ServicesAsk, DownloadsGoOn, WorkGoesOn
<1> QED
  BY <1>1, Inductive, PTL

(* When nothing works any more, what makes Wadseeker see it is on its way, *)
(* but for the two ends nobody is told of.                                 *)
THEOREM EndsAreNoticed == Spec => []EndIsNoticed
<1>1. IInv => EndIsNoticed
  BY DEF IInv
<1> QED
  BY <1>1, Inductive, PTL

(* Wadseeker implements SeekService: it installs only files it was asked   *)
(* for, none twice, and allDone() says success only when all are there.    *)
THEOREM KeepsPromise == Spec => Promise
<1>1. Init => Promised!Init
  BY InitIInv
<1>2. IInv /\ [Next]_vars => [Promised!Next]_(Promised!vars)
  BY NextStep DEF PromisedStep
<1> QED
  BY <1>1, <1>2, Inductive, PTL DEF Spec, Promise, Promised!Spec

=============================================================================
