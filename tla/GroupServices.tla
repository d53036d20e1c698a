----------------------------- MODULE GroupServices -----------------------------
(* src/internal/utils/instantsnapshotgroup and src/internal/utils/snapshotgroup:
   the REST services of the disk backup and restore.  A service remembers one URL
   (baseURL) between its calls; requests are repeated a bounded number of times,
   while Compute Engine works on the group. *)
EXTENDS Naturals

CONSTANTS MaxRetries,   \* repetitions of a request that failed
          MaxPages      \* pages of an answer to a list

ISGCalls == {"CreateISG", "ListInstantSnapshotGroups", "DescribeInstantSnapshots", "DeleteISG", "WaitForISGUpload"}
SGCalls == {"CreateSG", "BulkInsertFromSG", "GetSG", "ListSnapshotsFromSG", "ListDisksFromSnapshot", "DeleteSG",
            "WaitForSGCreation", "WaitForSGUpload", "ListSGs"}

VARIABLES
    kind,       \* which of the two services
    method,       \* the call that is made, "none" between calls
    phase,      \* its part: "wait" for the upload, "request", "pages", "poll" the operation
    baseURL,    \* the URL the service remembers, "" for none
    target,     \* the URL of the last request
    tries,      \* repetitions in this part
    pages,      \* pages read
    group,      \* the group as Compute Engine has it
    op,         \* the deletion it works on
    result      \* [of, is] of the last call

gsVars == <<kind, method, phase, baseURL, target, tries, pages, group, op, result>>

GroupInit ==
    /\ kind \in {"isg", "sg"}
    /\ method = "none" /\ phase = "none" /\ baseURL = "" /\ target = "" /\ tries = 0 /\ pages = 0
    /\ group = "none" /\ op = "none" /\ result = [of |-> "none", is |-> "none"]

Calls == IF kind = "isg" THEN ISGCalls ELSE SGCalls

(* The URL that a call is about. *)
Resource(c) ==
    CASE c \in {"CreateISG", "ListInstantSnapshotGroups", "CreateSG", "ListSGs"} -> "groups"
      [] c \in {"DescribeInstantSnapshots", "ListSnapshotsFromSG"} -> "snapshots"
      [] c = "BulkInsertFromSG" -> "bulkInsert"
      [] c = "ListDisksFromSnapshot" -> "disks"
      [] OTHER -> "group"

(* Every call of the instant snapshot service, ListSGs and DeleteSG take the URL that
   is remembered if there is one; the other calls of the snapshot service set it. *)
Remembered(c, url) == IF baseURL = "" \/ ~(c \in ISGCalls \cup {"ListSGs", "DeleteSG"}) THEN url ELSE baseURL

Waiting(c) == c \in {"WaitForISGUpload", "WaitForSGCreation", "WaitForSGUpload", "GetSG"}
Repeated(c) == c \in {"CreateISG", "CreateSG", "BulkInsertFromSG", "DeleteISG", "DeleteSG"}
Listing(c) == c \in {"ListInstantSnapshotGroups", "DescribeInstantSnapshots", "ListSnapshotsFromSG", "ListDisksFromSnapshot", "ListSGs"}

(* The caller begins; DeleteSG waits for the upload first, which remembers the URL of
   the group. *)
Begin(c) ==
    /\ method = "none" /\ c \in Calls
    /\ method' = c /\ result' = [of |-> c, is |-> "none"] /\ tries' = 0 /\ pages' = 0
    /\ phase' = IF c = "DeleteSG" THEN "wait" ELSE IF Waiting(c) THEN "status" ELSE "request"
    /\ UNCHANGED <<kind, baseURL, target, group, op>>

Return(how) == method' = "none" /\ phase' = "none" /\ result' = [of |-> method, is |-> how]

(* backoff.Retry: a failure is tried again until i = maxRetries. *)
Again == tries < MaxRetries /\ tries' = tries + 1 /\ UNCHANGED <<method, phase, result>>
GiveUp == tries' = tries /\ Return("error")

(* What the waits ask for. *)
Enough(c) ==
    CASE c \in {"WaitForISGUpload", "WaitForSGUpload", "DeleteSG"} -> group = "ready"
      [] c = "WaitForSGCreation" -> group \notin {"none", "creating"}
      [] OTHER -> group # "none"

(* getProcessStatus and GetSG: one look at the group; a wait goes on after any
   failure of the look itself.  The wait of the instant snapshot service is given
   the URL. *)
Look ==
    /\ phase \in {"wait", "status"}
    /\ target' = "group"
    /\ baseURL' = IF kind = "sg" THEN "group" ELSE baseURL
    /\ \/ /\ Enough(method)
          /\ IF phase = "wait" THEN phase' = "request" /\ tries' = 0 /\ UNCHANGED <<method, result>>
                               ELSE tries' = tries /\ Return("success")
       \/ method # "GetSG" /\ Again
       \/ GiveUp /\ (tries = MaxRetries \/ method = "GetSG")
    /\ UNCHANGED <<kind, pages, group, op>>

(* What Compute Engine does with a request at that URL. *)
Effect(url) ==
    \/ /\ method \in {"CreateISG", "CreateSG"} /\ url = "groups" /\ group = "none"
       /\ group' = "creating" /\ UNCHANGED op
    \/ /\ method = "BulkInsertFromSG" /\ url = "bulkInsert" /\ group = "ready" /\ UNCHANGED <<group, op>>
    \/ /\ method \in {"DeleteISG", "DeleteSG"} /\ url = "group" /\ group \notin {"none", "creating"} /\ op # "running"
       /\ op' = "running" /\ UNCHANGED group

(* The URL is forgotten when a call of the instant snapshot service, or the request
   of DeleteSG, ends one way or the other. *)
Forget(url) == baseURL' = IF kind = "isg" \/ method = "DeleteSG" THEN "" ELSE url

(* GetResponse of a request that changes something: it takes effect and is answered,
   its answer is lost, or it fails; an error in the answer is an error. *)
Request ==
    LET url == Remembered(method, Resource(method)) IN
    /\ phase = "request" /\ Repeated(method)
    /\ target' = url
    /\ \/ /\ Effect(url) /\ Forget(url)
          /\ IF method \in {"DeleteISG", "DeleteSG"}
               THEN phase' = "poll" /\ tries' = 0 /\ UNCHANGED <<method, result>>
               ELSE tries' = tries /\ Return("success")
       \/ /\ Effect(url) \/ UNCHANGED <<group, op>>
          /\ \/ Again /\ baseURL' = url
             \/ tries = MaxRetries /\ GiveUp /\ Forget(url)
    /\ UNCHANGED <<kind, pages>>

(* Mutant: one look at the operation is enough. *)
PollOnce ==
    /\ phase = "poll"
    /\ target' = "operation" /\ baseURL' = "" /\ tries' = tries
    /\ Return(IF op = "failed" THEN "error" ELSE "success")
    /\ UNCHANGED <<kind, pages, group, op>>

(* isgExists and sgExists: the operation, under a URL that is built, or given, anew;
   it may have failed, and an operation that failed is asked for again all the
   same. *)
Poll ==
    LET url == IF kind = "isg" /\ baseURL # "" THEN baseURL ELSE "operation" IN
    /\ phase = "poll"
    /\ target' = url /\ baseURL' = ""
    /\ \/ url = "operation" /\ op = "done" /\ tries' = tries /\ Return("success")
       \/ Again
       \/ tries = MaxRetries /\ GiveUp
    /\ UNCHANGED <<kind, pages, group, op>>

(* The lists: page after page at the same URL, nothing is repeated, and an error
   gives up what was read. *)
ReadPage ==
    LET url == IF phase = "pages" THEN target ELSE Remembered(method, Resource(method)) IN
    /\ phase \in {"request", "pages"} /\ Listing(method)
    /\ target' = url /\ Forget(url)
    /\ \/ /\ pages < MaxPages /\ pages' = pages + 1
          /\ \/ phase' = "pages" /\ pages' < MaxPages /\ UNCHANGED <<method, result>>
             \/ Return("success")
       \/ Return("error") /\ UNCHANGED pages
    /\ UNCHANGED <<kind, tries, group, op>>

(* Compute Engine finishes what it began. *)
Provider ==
    /\ \/ /\ group = "creating" /\ group' \in {"uploading", "failed"} /\ UNCHANGED op
       \/ /\ group = "uploading" /\ group' \in {"ready", "failed"} /\ UNCHANGED op
       \/ /\ op = "running"
          /\ \/ op' = "done" /\ group' = "none"
             \/ op' = "failed" /\ UNCHANGED group
    /\ UNCHANGED <<kind, method, phase, baseURL, target, tries, pages, result>>

GroupNext == (\E c \in ISGCalls \cup SGCalls : Begin(c)) \/ Look \/ Request \/ Poll \/ ReadPage \/ Provider

GroupSpec == GroupInit /\ [][GroupNext]_gsVars

------------------------------------------------------------------------------
(* A service keeps its URL between calls, and a call that finds one uses it: each
   request nevertheless goes to the resource of its own call (ListSGs, which nothing
   calls, does not keep this), and a call that succeeds has done what its name says,
   also when an answer was lost and the request repeated. *)
CallsReachTheirResource ==
    /\ (phase \in {"pages", "poll"} \/ tries > 0) /\ method \notin {"none", "ListSGs"} =>
         target \in {Resource(method), "operation"}
    /\ result.is = "success" =>
         IF result.of \in {"DeleteISG", "DeleteSG"} THEN target = "operation" /\ group = "none"
         ELSE /\ result.of # "ListSGs" => target = Resource(result.of)
              /\ result.of \in {"WaitForISGUpload", "WaitForSGUpload"} => group = "ready" \/ op = "done"
==============================================================================
