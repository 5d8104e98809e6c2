--------------------------- MODULE MCVirusHandler ---------------------------
(* Small instances of VirusHandler: lengths below and above MemoryCache. *)
EXTENDS VirusHandler

(* Offsets of messages of the lengths in s, back to back. *)
StartOf(s, h) ==
  [k \in 1 .. Len(s) + 1 |->
     LET sum[i \in 0 .. Len(s)] == IF i = 0 THEN 0 ELSE sum[i - 1] + h + s[i]
     IN sum[k - 1]]

HeaderBytes == 2

(* Requests that reach MemoryCache, and one below it at the end. *)
LargeValues == <<2, 3, 2, 1>>
LargeStart == StartOf(LargeValues, HeaderBytes)

(* One request below MemoryCache and one that reaches it. *)
PairValues == <<1, 2>>
PairStart == StartOf(PairValues, HeaderBytes)

(* Two requests below MemoryCache. *)
SmallValues == <<1, 1>>
SmallStart == StartOf(SmallValues, HeaderBytes)
=============================================================================
