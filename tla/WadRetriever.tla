---------------------------- MODULE WadRetriever ----------------------------
(***************************************************************************)
(* Wadseeker's downloads: WadRetriever and the URLProvider of each file.   *)
(*                                                                         *)
(* Every operation is an action on the variables declared here.  Those     *)
(* that may announce finished() or pendingUrls() do so by startNextDown-   *)
(* loads(); Announced is what it says.  The module Wadseeker joins these   *)
(* actions with what its slots do of their own.                            *)
(*                                                                         *)
(* Left open, because users and sites choose it: the order in which wads   *)
(* and the URLs of a wad are listed, hence the order of every loop.        *)
(* abort() deletes every download, so that bIsAborting needs no variable:  *)
(* with no wad left none of its tests is reached.                          *)
(***************************************************************************)
EXTENDS Integers, FiniteSets, Sequences

CONSTANTS
  Files,         \* wads one can ask for
  Urls,          \* links to files
  NoUrl,
  Host,          \* the host of each URL
  MaxDownloads   \* maxConcurrentWadDownloads

ASSUME DownloadsAssumption ==
  /\ NoUrl \notin Urls
  /\ MaxDownloads \in Nat \ {0}
  /\ DOMAIN Host = Urls

VARIABLES
  wads,     \* files still wanted (d.wads)
  urls,     \* for each file: downloadUrls->allAvailableUrls()
  had,      \* for each file: URLs ever in downloadUrls (hasOrHadUrl)
  mirrors,  \* for each file: the MirrorStorage with more than one URL
  used,     \* d.usedDownloadUrls
  reply,    \* for each file: the URL being downloaded (pNetworkReply)
  timers,   \* QTimer::singleShot()s of addUrl() that are still to fire
  silent    \* history: the downloads ended in a way nobody was told of

retrieverVars == <<wads, urls, had, mirrors, used, reply, timers, silent>>

Running(W, R) == {f \in W : R[f] # NoUrl}

(* areAllWadsPendingUrls(), for given wads, URLs and replies.              *)
Pending(W, A, R) == W # {} /\ \A f \in W : R[f] = NoUrl /\ A[f] = {}

areAllWadsPendingUrls == Pending(wads, urls, reply)

isAnyWadPendingUrl == \E f \in wads : reply[f] = NoUrl /\ urls[f] = {}

isAnyDownloadWorking == \E f \in wads : reply[f] # NoUrl \/ urls[f] # {}

-----------------------------------------------------------------------------
(* startNextDownloads()                                                    *)

(* Mutant: downloads that lack URLs are waited for in silence.             *)
AnnouncedFinishOnly(W, A, R) == IF W = {} THEN <<<<"finished">>>> ELSE <<>>

(* What it announces, as soon as it is called: calls that are queued.      *)
Announced(W, A, R) ==
  IF W = {} THEN <<<<"finished">>>>
  ELSE IF Pending(W, A, R) THEN <<<<"pendingUrls">>>>
  ELSE <<>>

(* The choices the loop can make: a URL, not used and on a host nothing is *)
(* downloaded from, for as many files as there is room for.                *)
Choices(W, A, R, U) ==
  {choice \in UNION {[S -> Urls] : S \in SUBSET (W \ Running(W, R))} :
     LET S == DOMAIN choice
         room == Cardinality(Running(W, R) \cup S) < MaxDownloads
         taken == {choice[f] : f \in S}
         busy == {Host[R[f]] : f \in Running(W, R)} \cup {Host[u] : u \in taken}
     IN /\ \A f \in S :
             /\ choice[f] \in A[f] \ U
             /\ \A g \in S \ {f} : Host[choice[g]] # Host[choice[f]]
             /\ \A g \in Running(W, R) : Host[R[g]] # Host[choice[f]]
        /\ S = {} \/ Cardinality(Running(W, R) \cup S) <= MaxDownloads
        /\ room => \A f \in W \ (Running(W, R) \cup S) : \A u \in A[f] :
                      u \in U \cup taken \/ Host[u] \in busy}

(* extractNextValidUrl() drops the used URLs it meets before the one it    *)
(* returns: any of them where it returns one, and where the loop stopped   *)
(* at the limit before the file's turn; otherwise all.                     *)
Extracted(W, A, R, U, choice, A2) ==
  LET S == DOMAIN choice
      taken == {choice[f] : f \in S}
      room == Cardinality(Running(W, R) \cup S) < MaxDownloads
  IN /\ \A f \in Files \ (W \ Running(W, R)) : A2[f] = A[f]
     /\ \A f \in S : A2[f] \subseteq A[f] \ {choice[f]}
     /\ \A f \in W \ Running(W, R) :
          /\ A2[f] \subseteq A[f]
          /\ A[f] \ A2[f] \subseteq U \cup taken
          /\ room /\ f \notin S => A2[f] \cap U = {}

(* The whole call, on the values its caller has left.  When the loop drops *)
(* the last URLs there are, it announces nothing.                          *)
startNextDownloads(W, A, R, U) ==
  /\ wads' = W
  /\ IF W = {} \/ Pending(W, A, R)
     THEN urls' = A /\ reply' = R /\ used' = U /\ UNCHANGED silent
     ELSE \E choice \in Choices(W, A, R, U) :
            /\ reply' = [f \in Files |->
                           IF f \in DOMAIN choice THEN choice[f] ELSE R[f]]
            /\ used' = U \cup {choice[f] : f \in DOMAIN choice}
            /\ urls' \in [Files -> SUBSET Urls]
            /\ Extracted(W, A, R, U, choice, urls')
            /\ silent' = (silent \/ Pending(wads', urls', reply'))

-----------------------------------------------------------------------------
(* The operations                                                          *)

setWads(asked) ==
  /\ wads' = asked
  /\ urls' = [f \in Files |-> {}]
  /\ had' = [f \in Files |-> {}]
  /\ mirrors' = [f \in Files |-> {}]
  /\ used' = {}
  /\ reply' = [f \in Files |-> NoUrl]
  /\ timers' = 0
  /\ silent' = FALSE

addUrl(f, u) ==
  IF f \in wads /\ u \notin had[f] \cup used
  THEN /\ urls' = [urls EXCEPT ![f] = @ \cup {u}]
       /\ had' = [had EXCEPT ![f] = @ \cup {u}]
       /\ timers' = timers + 1
       /\ UNCHANGED <<wads, mirrors, used, reply, silent>>
  ELSE UNCHANGED retrieverVars

(* The singleShot() of addUrl().                                           *)
delayedStart ==
  /\ timers > 0
  /\ timers' = timers - 1
  /\ startNextDownloads(wads, urls, reply, used)
  /\ UNCHANGED <<had, mirrors>>

(* URLs used for any file are filtered out, those this file had are left   *)
(* out by URLProvider, and the rest are mirrors of each other.             *)
addMirrorUrls(f, found) ==
  IF f \in wads /\ ~(found \subseteq used)
  THEN LET new == found \ (used \cup had[f])
       IN /\ startNextDownloads(wads, [urls EXCEPT ![f] = @ \cup new], reply, used)
          /\ had' = [had EXCEPT ![f] = @ \cup new]
          /\ mirrors' = [mirrors EXCEPT ![f] = @ \cup new]
          /\ UNCHANGED timers
  ELSE UNCHANGED retrieverVars

(* abort() deletes the downloads, and their replies with them.             *)
abortDownloads ==
  /\ wads' = {}
  /\ urls' = [f \in Files |-> {}]
  /\ had' = [f \in Files |-> {}]
  /\ mirrors' = [f \in Files |-> {}]
  /\ reply' = [f \in Files |-> NoUrl]
  /\ UNCHANGED <<used, timers, silent>>

(* networkQueryFinished() of a redirect: the new query asks neither for    *)
(* the host nor whether the URL was used.                                  *)
downloadRedirected(f, u) ==
  /\ f \in wads
  /\ reply[f] \notin {NoUrl, u}
  /\ reply' = [reply EXCEPT ![f] = u]
  /\ used' = used \cup {u}
  /\ UNCHANGED <<wads, urls, had, mirrors, timers, silent>>

(* Mutant: a failed download does not make room for the next one.          *)
downloadFailedIdly(f) ==
  /\ f \in wads
  /\ reply[f] # NoUrl
  /\ reply' = [reply EXCEPT ![f] = NoUrl]
  /\ UNCHANGED <<wads, urls, had, mirrors, used, timers, silent>>

(* networkQueryFinished() with an error, a timeout of NetworkReplyTimeout- *)
(* er and skipCurrentUrl() included, or with nothing in the reply.         *)
downloadFailed(f) ==
  /\ f \in wads
  /\ reply[f] # NoUrl
  /\ startNextDownloads(wads, urls, [reply EXCEPT ![f] = NoUrl], used)
  /\ UNCHANGED <<had, mirrors, timers>>

(* URLs left for a file when one of them gave it: its mirrors would give   *)
(* the same.                                                               *)
WithoutMirrors(f) ==
  IF reply[f] \in mirrors[f]
  THEN [urls EXCEPT ![f] = @ \ mirrors[f]]
  ELSE [urls EXCEPT ![f] = @ \ {reply[f]}]

(* removeWadRetrieverInfo() of installed files: what is known of them goes,*)
(* with the download that may be running.                                  *)
Forget(fn, gone, nothing) ==
  [f \in Files |-> IF f \in gone THEN nothing ELSE fn[f]]

(* A download that gave something: tryInstall() puts files into the target *)
(* directory, the one of the reply's name and, if it is an archive, those  *)
(* wanted ones that are in it.                                             *)
downloadInstalls(f, files) ==
  /\ f \in wads
  /\ reply[f] # NoUrl
  /\ files \subseteq wads
  /\ startNextDownloads(
       wads \ files,
       Forget(WithoutMirrors(f), files, {}),
       Forget([reply EXCEPT ![f] = NoUrl], files, NoUrl),
       used)
  /\ had' = Forget(had, files, {})
  /\ mirrors' = Forget(mirrors, files, {})
  /\ UNCHANGED timers

(* The directory or a file cannot be written: tryInstall() returns at      *)
(* once.  At most the file of the reply's name has been installed, and not *)
(* the last that was wanted.  "abort" says whether Wadseeker::abort(),     *)
(* called by the message, acted.                                           *)
installFailsCritically(f, files, abort) ==
  /\ f \in wads
  /\ reply[f] # NoUrl
  /\ files \subseteq wads
  /\ Cardinality(files) <= 1
  /\ files # wads
  /\ wads' = IF abort THEN {} ELSE wads \ files
  /\ LET gone == IF abort THEN Files ELSE files
     IN /\ urls' = Forget(WithoutMirrors(f), gone, {})
        /\ reply' = Forget([reply EXCEPT ![f] = NoUrl], gone, NoUrl)
        /\ had' = Forget(had, gone, {})
        /\ mirrors' = Forget(mirrors, gone, {})
  /\ silent' = (silent \/ ~abort)
  /\ UNCHANGED <<used, timers>>

(* Does something download, or is to, once f's reply has ended that way?   *)
WorksAfter(f, files) ==
  \E g \in wads \ files :
    \/ WithoutMirrors(f)[g] # {}
    \/ g # f /\ reply[g] # NoUrl

=============================================================================
