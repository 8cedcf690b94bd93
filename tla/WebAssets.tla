----------------------------- MODULE WebAssets -----------------------------
(***************************************************************************)
(* internal/web/web.go: the embedded frontend behind entity tags computed  *)
(* at start-up.  A browser loads one address again and again, keeps what   *)
(* it may in its cache, revalidates it with If-None-Match, and follows     *)
(* redirects, while instances of two builds answer it, in any order: a     *)
(* rolling deployment, a rollback, restarts.                               *)
(*                                                                         *)
(* A path is its segments; a URL adds whether it ends with a slash.        *)
(* http.FileServerFS and http.ServeContent are external.                   *)
(***************************************************************************)
EXTENDS Naturals, SequencesExt

CONSTANTS
  Builds,       \* the builds of the frontend that are deployed
  Contents,     \* what a file may contain
  None,         \* no tag, no content
  MaxRequests   \* bound on the requests of the browser

ASSUME MaxRequestsAssumption == MaxRequests \in Nat
ASSUME NoneAssumption == None \notin Contents

VARIABLES
  tree,      \* the files of each build: path -> content
  home,      \* the URL the browser loads
  url,       \* the URL it asks for next: home, or where it was redirected
  cache,     \* its stored responses, by URL
  last,      \* the last answer: who gave it, to what, what the browser used,
             \* and whether a body was transferred
  requests   \* requests made

vars == <<tree, home, url, cache, last, requests>>

Index == "index.html"
Files == {<<Index>>, <<"docs">>, <<"docs", Index>>, <<"docs", "x">>}
URLs  == [path : Files \cup {<<>>, <<"nope">>}, slash : BOOLEAN]

(* A name is a file or a directory, never both.                            *)
Trees ==
  {t \in UNION {[S -> Contents] : S \in SUBSET Files} :
     <<"docs">> \in DOMAIN t => \A p \in DOMAIN t : Len(p) = 1}

IsDir(t, p) == p = <<>> \/ (p = <<"docs">> /\ \E f \in DOMAIN t : Len(f) = 2)

Init ==
  /\ tree \in [Builds -> Trees]
  /\ home \in {u \in URLs : u.path = <<>> => u.slash}
  /\ url = home
  /\ cache = <<>>
  /\ last = None
  /\ requests = 0

-----------------------------------------------------------------------------
(* etags: one tag per file, half the digest of its content, which is taken *)
(* to tell contents apart.                                                 *)
(* Faulty variant: the name is hashed. *)
EtagsOfNames(t) == [p \in DOMAIN t |-> p]

Etags(t) == t

(* assetKey: a directory stands for its index file.                        *)
(* Faulty variant: the path as it is. *)
AssetKeyPlain(u) == u.path

AssetKey(u) == IF u.slash THEN Append(u.path, Index) ELSE u.path

Lookup(f, p) == IF p \in DOMAIN f THEN f[p] ELSE None

(* withAssetHeaders, as far as caches see it.                              *)
AssetHeaders(t, u) == [tag |-> Lookup(Etags(t), AssetKey(u)), cc |-> "no-cache"]

-----------------------------------------------------------------------------
(* http.FileServerFS: what it serves for a URL.                            *)
File(c)     == [is |-> "file", what |-> c]
Redirect(u) == [is |-> "redirect", what |-> u]
Listing(t, p) == [is |-> "listing", what |-> {f \in DOMAIN t : Front(f) = p}]
NotFound    == [is |-> "notfound", what |-> None]

FileServer(t, u) ==
  LET p == u.path
      index == Append(p, Index)
  IN  CASE p # <<>> /\ Last(p) = Index /\ ~u.slash ->
             Redirect([path |-> Front(p), slash |-> TRUE])
        [] p \in DOMAIN t /\ (u.slash \/ Last(p) # Index) ->
             IF u.slash THEN Redirect([path |-> p, slash |-> FALSE]) ELSE File(t[p])
        [] p \notin DOMAIN t /\ IsDir(t, p) ->
             IF ~u.slash THEN Redirect([path |-> p, slash |-> TRUE])
             ELSE IF index \in DOMAIN t THEN File(t[index]) ELSE Listing(t, p)
        [] OTHER -> NotFound

(* http.ServeContent compares If-None-Match with the tag already in the    *)
(* header map, and only for a file; an error drops the cache headers.      *)
Respond(t, u, ifNoneMatch) ==
  LET body == FileServer(t, u)
      h    == AssetHeaders(t, u)
  IN  IF body = NotFound THEN [body |-> body, tag |-> None, cc |-> "none", full |-> TRUE]
      ELSE [body |-> body, tag |-> h.tag, cc |-> h.cc,
            full |-> ~(body.is = "file" /\ ifNoneMatch # None /\ ifNoneMatch = h.tag)]

-----------------------------------------------------------------------------
(* The browser (external).  A stored response may be used without asking   *)
(* if nothing forbids it: a permanent redirect may, without no-cache.      *)
Fresh(u) == u \in DOMAIN cache /\ cache[u].cc = "none" /\ cache[u].body.is = "redirect"

StoredTag(u) == IF u \in DOMAIN cache THEN cache[u].tag ELSE None

(* The browser asks for url, an instance of build b is there to answer.    *)
Load(b) ==
  LET r == Respond(tree[b], url, StoredTag(url))
      used == IF Fresh(url) \/ ~r.full THEN cache[url].body ELSE r.body
      entry == [body |-> r.body, tag |-> r.tag, cc |-> r.cc]
  IN  /\ requests < MaxRequests
      /\ requests' = requests + 1
      /\ last' = [by |-> b, url |-> url, used |-> used, full |-> r.full,
                  had |-> Lookup(cache, url)]
      /\ cache' = IF Fresh(url) \/ ~r.full THEN cache
                  ELSE [v \in DOMAIN cache \cup {url} |-> IF v = url THEN entry ELSE cache[v]]
      /\ url' = IF used.is = "redirect" THEN used.what ELSE home
      /\ UNCHANGED <<tree, home>>

Over == requests = MaxRequests /\ UNCHANGED vars

Next == (\E b \in Builds : Load(b)) \/ Over

Spec == Init /\ [][Next]_vars

-----------------------------------------------------------------------------
(* Properties.                                                             *)

(* The cache cannot be seen: what the browser uses is what the instance it  *)
(* asked would have sent it in full, whichever build answered before.  No   *)
(* stale asset, and no redirect that outlives the directory it was for.     *)
CacheTransparent ==
  last # None => last.used = FileServer(tree[last.by], last.url)

(* An asset the browser still has is not sent again, whichever instance     *)
(* answers, after a restart or from another build that left it unchanged,   *)
(* and under a directory's URL as well as its own (AC-002.18).              *)
Revalidates ==
  last # None /\ last.had # None /\ last.used.is = "file"
    /\ last.had.body = last.used => ~last.full
=============================================================================
