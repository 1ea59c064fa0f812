----------------------------- MODULE WWWSeeker ------------------------------
(***************************************************************************)
(* Wadseeker's search of web sites.  A site that is queried is named by    *)
(* the URL that was taken from the lists; a redirect, which replaces one   *)
(* query by another whatever was visited, is no step.  fileSiteUrls,       *)
(* sitesUrls and customSiteUrl are one set of URLs still to be visited.    *)
(* A timeout or skipSite() ends a query as an empty page does.             *)
(***************************************************************************)
EXTENDS Integers, FiniteSets, Sequences

CONSTANTS
  Sites,        \* URLs of pages
  MaxQueries    \* maxConcurrentSiteDownloads

ASSUME QueriesAssumption == MaxQueries \in Nat \ {0}

VARIABLES
  wwwWorking,      \* d.bIsWorking
  seekedFiles,
  sitesUrls,       \* pages still to be visited
  visitedUrls,
  networkQueries   \* pages being fetched

wwwVars == <<wwwWorking, seekedFiles, sitesUrls, visitedUrls, networkQueries>>

(* startNextSites(), for the files F, the lists S, the visited URLs V and  *)
(* the queries Q its caller has left: URLs are taken until no more queries *)
(* are allowed or there is nothing left.  "direct" are those that turn out *)
(* to be links to a wanted file; they are not queried.                     *)
startNextSites(F, S, V, Q, direct) ==
  /\ seekedFiles' = F
  /\ \E taken \in SUBSET (IF F = {} THEN {} ELSE S) :
       /\ direct \subseteq taken
       /\ sitesUrls' = S \ taken
       /\ visitedUrls' = V \cup taken
       /\ networkQueries' = Q \cup (taken \ direct)
       /\ Cardinality(networkQueries') <= MaxQueries
       /\ \/ F = {}
          \/ taken = S
          \/ Cardinality(networkQueries') = MaxQueries
  /\ wwwWorking' = (networkQueries' # {})

startSearch(files, sites, direct) ==
  startNextSites(files, sites, {}, {}, direct)

(* networkQueryFinished(): the page names further pages, and links, which  *)
(* are emitted and kept nowhere.                                           *)
pageFinished(s, more, direct) ==
  /\ s \in networkQueries
  /\ more \subseteq Sites \ visitedUrls
  /\ seekedFiles = {} => more = {}
  /\ startNextSites(seekedFiles, sitesUrls \cup more, visitedUrls,
                    networkQueries \ {s}, direct)

(* abort(): the replies are aborted one by one and each ends at once; the  *)
(* last one, or abort() itself if there is none, emits finished().         *)
abortSites ==
  /\ wwwWorking' = FALSE
  /\ seekedFiles' = {}
  /\ sitesUrls' = {}
  /\ networkQueries' = {}
  /\ UNCHANGED visitedUrls

(* removeSeekedFile() of each of some files.                               *)
StopsWith(files) == wwwWorking /\ seekedFiles \subseteq files

(* Mutant: only the last file's removal is seen.                           *)
removeSeekedFilesLast(files) ==
  IF StopsWith(files) THEN abortSites ELSE UNCHANGED wwwVars

removeSeekedFiles(files) ==
  IF StopsWith(files)
  THEN abortSites
  ELSE /\ seekedFiles' = seekedFiles \ files
       /\ UNCHANGED <<wwwWorking, sitesUrls, visitedUrls, networkQueries>>

=============================================================================
