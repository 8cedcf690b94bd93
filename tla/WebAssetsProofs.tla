-------------------------- MODULE WebAssetsProofs --------------------------
(***************************************************************************)
(* Proofs about WebAssets: any number of builds and of contents, any       *)
(* number of requests.                                                     *)
(*                                                                         *)
(* The invariant adds where a stored response comes from: some build sent  *)
(* it, in full, for the URL it is stored under.  What makes revalidation   *)
(* sound is that the tag of a URL belongs to the file served under it: if  *)
(* two builds have the same tag for a URL and one of them serves a file    *)
(* there, the other serves the same file.                                  *)
(***************************************************************************)
EXTENDS WebAssets, TLAPS

(* What is stored when build t answers for u in full.                      *)
Entry(t, u) ==
  IF FileServer(t, u) = NotFound
    THEN [body |-> FileServer(t, u), tag |-> None, cc |-> "none"]
    ELSE [body |-> FileServer(t, u), tag |-> Lookup(t, AssetKey(u)), cc |-> "no-cache"]

Cached == \A u \in DOMAIN cache : \E b \in Builds : cache[u] = Entry(tree[b], u)

IInv ==
  /\ tree \in [Builds -> Trees]
  /\ Cached
  /\ CacheTransparent
  /\ Revalidates

-----------------------------------------------------------------------------
(* What a tree may hold.                                                   *)
LEMMA TreeFacts ==
  ASSUME NEW t \in Trees
  PROVE  /\ <<>> \notin DOMAIN t
         /\ <<"docs">> \in DOMAIN t => \A p \in DOMAIN t : Len(p) = 1
         /\ \A p \in DOMAIN t : t[p] \in Contents
<1>1. PICK S \in SUBSET Files : t \in [S -> Contents]
  BY DEF Trees
<1>2. <<>> \notin Files
  BY DEF Files, Index
<1>3. <<"docs">> \in DOMAIN t => \A p \in DOMAIN t : Len(p) = 1
  BY DEF Trees
<1>. QED
  BY <1>1, <1>2, <1>3

(* A file is served only under the URL whose key is its own.               *)
LEMMA ServedByKey ==
  ASSUME NEW t \in Trees, NEW u, FileServer(t, u).is = "file"
  PROVE  /\ AssetKey(u) \in DOMAIN t
         /\ FileServer(t, u) = File(t[AssetKey(u)])
         /\ u.slash => IsDir(t, u.path)
         /\ ~u.slash => ~(u.path # <<>> /\ Last(u.path) = Index)
<1>. QED
  BY DEF FileServer, AssetKey, File, Redirect, Listing, NotFound

(* And a build that has that key serves its own file there.                *)
LEMMA ServedAlike ==
  ASSUME NEW t \in Trees, NEW v \in Trees, NEW u, FileServer(t, u).is = "file",
         AssetKey(u) \in DOMAIN v
  PROVE  FileServer(v, u) = File(v[AssetKey(u)])
<1>1. /\ u.slash => IsDir(t, u.path)
      /\ ~u.slash => ~(u.path # <<>> /\ Last(u.path) = Index)
  BY ServedByKey
<1>2. CASE ~u.slash
  <2>1. AssetKey(u) = u.path /\ u.path # <<>>
    BY <1>2, TreeFacts DEF AssetKey
  <2>. QED
    BY <1>1, <1>2, <2>1 DEF FileServer
<1>3. CASE u.slash
  <2>1. AssetKey(u) = Append(u.path, Index)
    BY <1>3 DEF AssetKey
  <2>2. u.path \notin DOMAIN v /\ IsDir(v, u.path)
    <3>1. CASE u.path = <<>>
      BY <3>1, TreeFacts DEF IsDir
    <3>2. CASE u.path = <<"docs">>
      <4>1. Len(AssetKey(u)) = 2
        BY <2>1, <3>2
      <4>. QED
        BY <3>2, <4>1, TreeFacts DEF IsDir
    <3>. QED
      BY <1>1, <1>3, <3>1, <3>2 DEF IsDir
  <2>. QED
    BY <1>3, <2>1, <2>2 DEF FileServer
<1>. QED
  BY <1>2, <1>3

-----------------------------------------------------------------------------
(* Before the first request.                                               *)
LEMMA InitHolds == Init => IInv
<1> SUFFICES ASSUME Init PROVE IInv
  OBVIOUS
<1>1. DOMAIN cache = {} /\ last = None /\ tree \in [Builds -> Trees]
  BY DEF Init
<1>. QED
  BY <1>1 DEF IInv, Cached, CacheTransparent, Revalidates

(* What the browser has under a URL, if it has anything, a build sent it.  *)
LEMMA StoredFrom ==
  ASSUME IInv, NEW u, u \in DOMAIN cache
  PROVE  \E v \in Trees : cache[u] = Entry(v, u)
  BY DEF IInv, Cached

(* No stored response may be used without asking.                          *)
LEMMA NeverFresh ==
  ASSUME IInv, NEW u
  PROVE  ~Fresh(u)
<1> SUFFICES ASSUME u \in DOMAIN cache
             PROVE  ~(cache[u].cc = "none" /\ cache[u].body.is = "redirect")
  BY DEF Fresh
<1>1. PICK v \in Trees : cache[u] = Entry(v, u)
  BY StoredFrom
<1>. QED
  BY <1>1 DEF Entry, NotFound

(* One request, whichever build answers it.                                *)
LEMMA LoadKeeps ==
  ASSUME IInv, NEW b \in Builds, Load(b)
  PROVE  IInv'
<1> DEFINE t == tree[b]
           r == Respond(t, url, StoredTag(url))
           body == FileServer(t, url)
           tag == Lookup(t, AssetKey(url))
           entry == [body |-> r.body, tag |-> r.tag, cc |-> r.cc]
           used == IF ~r.full THEN cache[url].body ELSE r.body
<1>0. t \in Trees
  BY DEF IInv
<1>1. /\ tree' = tree
      /\ last' = [by |-> b, url |-> url, used |-> used, full |-> r.full,
                  had |-> Lookup(cache, url)]
      /\ cache' = IF ~r.full THEN cache
                  ELSE [v \in DOMAIN cache \cup {url} |-> IF v = url THEN entry ELSE cache[v]]
  BY NeverFresh DEF Load
<1>2. /\ entry = Entry(t, url) /\ r.body = body
      /\ r.full <=> ~(body.is = "file" /\ StoredTag(url) # None /\ StoredTag(url) = tag)
  <2>1. r = IF body = NotFound THEN [body |-> body, tag |-> None, cc |-> "none", full |-> TRUE]
            ELSE [body |-> body, tag |-> tag, cc |-> "no-cache",
                  full |-> ~(body.is = "file" /\ StoredTag(url) # None /\ StoredTag(url) = tag)]
    BY DEF Respond, AssetHeaders, Etags
  <2>2. Entry(t, url) = IF body = NotFound THEN [body |-> body, tag |-> None, cc |-> "none"]
                        ELSE [body |-> body, tag |-> tag, cc |-> "no-cache"]
    BY DEF Entry
  <2> HIDE DEF r, body, t, tag
  <2>3. body = NotFound => body.is # "file"
    BY DEF NotFound
  <2>. QED
    BY <2>1, <2>2, <2>3
<1> HIDE DEF r, body, t, tag, entry
<1>3. ASSUME ~r.full PROVE cache[url].body = body
  <2>1. /\ url \in DOMAIN cache /\ body.is = "file"
        /\ cache[url].tag # None /\ cache[url].tag = tag
    BY <1>2, <1>3 DEF StoredTag
  <2>2. PICK v \in Trees : cache[url] = Entry(v, url)
    BY <2>1, StoredFrom
  <2>3. cache[url].body = FileServer(v, url) /\ cache[url].tag = Lookup(v, AssetKey(url))
    BY <2>1, <2>2 DEF Entry
  <2>4. AssetKey(url) \in DOMAIN v /\ AssetKey(url) \in DOMAIN t /\ v[AssetKey(url)] = t[AssetKey(url)]
    BY <2>1, <2>3 DEF Lookup, tag
  <2>5. body = File(t[AssetKey(url)])
    BY <1>0, <2>1, ServedByKey DEF body
  <2>6. FileServer(v, url) = File(v[AssetKey(url)])
    BY <1>0, <2>1, <2>4, ServedAlike DEF body
  <2>. QED
    BY <2>3, <2>4, <2>5, <2>6
<1>4. used = body
  BY <1>2, <1>3
<1> HIDE DEF used
<1>5. Cached'
  <2> SUFFICES ASSUME NEW u, u \in DOMAIN cache'
               PROVE  \E c \in Builds : cache'[u] = Entry(tree[c], u)
    BY <1>1 DEF Cached
  <2>1. CASE u \in DOMAIN cache /\ cache'[u] = cache[u]
    BY <2>1 DEF IInv, Cached
  <2>2. CASE u = url /\ cache'[u] = entry
    BY <1>2, <2>2 DEF t
  <2>. QED
    BY <1>1, <2>1, <2>2
<1>6. CacheTransparent'
  BY <1>1, <1>4 DEF CacheTransparent, body, t
<1>7. Revalidates'
  <2> SUFFICES ASSUME Lookup(cache, url) # None, used.is = "file",
                      Lookup(cache, url).body = used
               PROVE  ~r.full
    BY <1>1 DEF Revalidates
  <2>1. url \in DOMAIN cache /\ cache[url].body = body /\ body.is = "file"
    BY <1>4 DEF Lookup
  <2>2. PICK v \in Trees : cache[url] = Entry(v, url)
    BY <2>1, StoredFrom
  <2>3. FileServer(v, url) = body /\ cache[url].tag = Lookup(v, AssetKey(url))
    BY <2>1, <2>2 DEF Entry, NotFound
  <2>4. /\ AssetKey(url) \in DOMAIN v /\ body = File(v[AssetKey(url)])
        /\ AssetKey(url) \in DOMAIN t /\ body = File(t[AssetKey(url)])
    BY <1>0, <2>1, <2>3, ServedByKey DEF body
  <2>5. v[AssetKey(url)] = t[AssetKey(url)] /\ v[AssetKey(url)] \in Contents
    BY <2>4, TreeFacts DEF File
  <2>6. StoredTag(url) = tag /\ StoredTag(url) # None
    BY <2>1, <2>3, <2>4, <2>5, NoneAssumption DEF StoredTag, Lookup, tag
  <2>. QED
    BY <1>2, <2>1, <2>6
<1>. QED
  BY <1>1, <1>5, <1>6, <1>7 DEF IInv

(* One case per action.                                                    *)
THEOREM Inductive == Spec => []IInv
<1>1. ASSUME IInv, [Next]_vars PROVE IInv'
  <2>1. CASE UNCHANGED vars
    BY <1>1, <2>1 DEF vars, IInv, Cached, CacheTransparent, Revalidates
  <2>2. ASSUME NEW b \in Builds, Load(b) PROVE IInv'
    BY <1>1, <2>2, LoadKeeps
  <2>. QED
    BY <1>1, <2>1, <2>2 DEF Next, Over
<1>. QED
  BY <1>1, InitHolds, PTL DEF Spec

(* For any number of builds, whatever they contain and in whatever order   *)
(* their instances answer, withAssetHeaders and etags keep the browser's   *)
(* cache invisible.                                                        *)
THEOREM CacheAlwaysTransparent == Spec => []CacheTransparent
<1>1. IInv => CacheTransparent
  BY DEF IInv
<1>. QED
  BY <1>1, Inductive, PTL

(* And an asset the browser still has is never transferred again.          *)
THEOREM AlwaysRevalidates == Spec => []Revalidates
<1>1. IInv => Revalidates
  BY DEF IInv
<1>. QED
  BY <1>1, Inductive, PTL
=============================================================================
