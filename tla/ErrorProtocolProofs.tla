------------------------ MODULE ErrorProtocolProofs ------------------------
(***************************************************************************)
(* Facts about the conversions of ErrorProtocol that hold for every value  *)
(* of the constants and every Lua value: pop_error resumes a panic exactly *)
(* when it is handed a WrappedPanic, and with that envelope's payload, and *)
(* error_traceback neither makes nor hides a WrappedPanic.                 *)
(***************************************************************************)
EXTENDS ErrorProtocol, SequenceTheorems, TLAPS

(* pop_error (util.rs 108-161) resumes a panic exactly when the value on  *)
(* top of the stack is a WrappedPanic, and resumes that envelope's         *)
(* payload; a WrappedError, a string or any other value gives an Error,    *)
(* whatever the status code.                                               *)
LEMMA PopErrorPanic ==
  ASSUME NEW v, NEW code
  PROVE  /\ PopError(v, code).k = "panic" <=> IsWrappedPanic(v)
         /\ IsWrappedPanic(v) => PopError(v, code).p = v.p
<1>1. CASE IsWrappedError(v)
  BY <1>1 DEF PopError, IsWrappedError, IsWrappedPanic
<1>2. CASE ~IsWrappedError(v) /\ IsWrappedPanic(v)
  BY <1>2 DEF PopError
<1>3. CASE ~IsWrappedError(v) /\ ~IsWrappedPanic(v)
  BY <1>3 DEF PopError
<1>. QED
  BY <1>1, <1>2, <1>3

(* error_traceback (util.rs 265-305) passes a WrappedPanic through and     *)
(* never turns anything else into one: a WrappedError becomes a            *)
(* WrappedError of CallbackError, a Lua value a string.                    *)
LEMMA TracebackKeepsPanic ==
  ASSUME NEW v
  PROVE  /\ IsWrappedPanic(ErrorTraceback(v)) <=> IsWrappedPanic(v)
         /\ IsWrappedPanic(v) => ErrorTraceback(v) = v
<1>1. CASE IsWrappedError(v)
  BY <1>1 DEF ErrorTraceback, IsWrappedError, IsWrappedPanic, WErr
<1>2. CASE IsWrappedPanic(v)
  BY <1>2 DEF ErrorTraceback, IsWrappedError, IsWrappedPanic
<1>3. CASE ~IsWrappedError(v) /\ ~IsWrappedPanic(v)
  BY <1>3 DEF ErrorTraceback, IsWrappedPanic, Str
<1>. QED
  BY <1>1, <1>2, <1>3

-----------------------------------------------------------------------------
(* The inductive invariant behind PanicNeverScriptVisible.                 *)

(* No value of the sequence s is a WrappedPanic. *)
NoPanic(s) == \A j \in DOMAIN s : ~IsWrappedPanic(s[j])

(* A result waiting in a frame: a success carries no WrappedPanic (it is  *)
(* what a script returned), a failure exactly one error value.            *)
ResOK(r) ==
  r /= NoRes =>
    /\ r.st = "ok" => NoPanic(r.vals)
    /\ r.st /= "ok" => Len(r.vals) = 1

(* The i-th frame of fs: the host at the bottom, the host's lua_pcall      *)
(* above it, every frame higher up linked to a protected call below it, a  *)
(* Rust lua_pcall only above a Rust callback, no WrappedPanic in a script  *)
(* frame and well-formed results.                                          *)
FrameOK(fs, i) ==
  LET f == fs[i] IN
  /\ i = 1 => f.kind = "rust" /\ f.tag = "root"
  /\ i = 2 => f.kind = "hcall"
  /\ i >= 3 => f.bnd \in 1..(i - 1)
  /\ (i >= 3 /\ f.kind = "hcall") => fs[i - 1].kind = "rust"
  /\ f.kind = "lua" => NoPanic(f.stk)
  /\ ResOK(f.res)

FramesInv(fs) ==
  /\ fs \in Seq(Frames)
  /\ 1 <= Len(fs)
  /\ \A i \in 1..Len(fs) : FrameOK(fs, i)

IInv ==
  /\ FramesInv(frames)
  /\ Len(frames) <= MaxDepth
  /\ outcome \in Outcomes
  /\ raised \subseteq Payloads

-----------------------------------------------------------------------------
(* Lemmas on values: what the code builds is a Lua value of the model, and *)
(* only WPanic builds a WrappedPanic.                                      *)
LEMMA ValueFacts ==
  /\ \A m \in AllMsgs, tb \in BOOLEAN :
        Str(m, tb) \in Values /\ ~IsWrappedPanic(Str(m, tb))
  /\ Nil \in Values /\ ~IsWrappedPanic(Nil)
  /\ \A b \in BOOLEAN : Bool(b) \in Values /\ ~IsWrappedPanic(Bool(b))
  /\ \A e \in Errors : WErr(e) \in Values /\ ~IsWrappedPanic(WErr(e))
  /\ \A p \in Payloads : WPanic(p) \in Values
  /\ \A v \in Values : IsWrappedPanic(v) => v.p \in Payloads
  /\ \A v \in ScriptValues : v \in Values /\ ~IsWrappedPanic(v)
<1>1. \A m \in AllMsgs, tb \in BOOLEAN :
        Str(m, tb) \in Values /\ ~IsWrappedPanic(Str(m, tb))
  BY DEF Str, IsWrappedPanic, Values, Strs
<1>2. Nil \in Values /\ ~IsWrappedPanic(Nil)
  BY DEF Nil, IsWrappedPanic, Values
<1>3. \A b \in BOOLEAN : Bool(b) \in Values /\ ~IsWrappedPanic(Bool(b))
  BY DEF Bool, IsWrappedPanic, Values
<1>4. \A e \in Errors : WErr(e) \in Values /\ ~IsWrappedPanic(WErr(e))
  BY DEF WErr, IsWrappedPanic, Values
<1>5. \A p \in Payloads : WPanic(p) \in Values
  BY DEF WPanic, Values
<1>6. \A v \in Values : IsWrappedPanic(v) => v.p \in Payloads
  BY DEF IsWrappedPanic, Values, Strs, Nil
<1>7. \A v \in ScriptValues : v \in Values /\ ~IsWrappedPanic(v)
  BY <1>1, <1>2 DEF ScriptValues, AllMsgs
<1>. QED
  BY <1>1, <1>2, <1>3, <1>4, <1>5, <1>6, <1>7

(* error_traceback returns a Lua value of the model.                       *)
LEMMA TracebackTyped ==
  ASSUME NEW v \in Values
  PROVE  ErrorTraceback(v) \in Values
<1>1. CASE IsWrappedError(v)
  <2>1. v.e \in Errors
    BY <1>1 DEF IsWrappedError, Values, Strs, Nil
  <2>2. v.e.wraps + 1 \in Nat
    BY <2>1 DEF Errors
  <2>3. CallbackErr(v.e) \in Errors
    BY <2>1, <2>2, Zenon DEF CallbackErr, Errors
  <2>. QED
    BY <1>1, <2>3, ValueFacts DEF ErrorTraceback
<1>2. CASE ~IsWrappedError(v) /\ IsWrappedPanic(v)
  BY <1>2 DEF ErrorTraceback
<1>3. CASE ~IsWrappedError(v) /\ ~IsWrappedPanic(v)
  <2>1. ToStr(v, "unprintable_lua").m \in AllMsgs
    BY DEF ToStr, Values, Strs, Str, Nil, AllMsgs, FixedMsgs
  <2>. QED
    BY <1>3, <2>1, ValueFacts DEF ErrorTraceback
<1>. QED
  BY <1>1, <1>2, <1>3

(* pop_error turns every Lua value into an outcome: an Error, or the       *)
(* resumption of a panic.                                                  *)
LEMMA PopErrorTyped ==
  ASSUME NEW v \in Values, NEW code
  PROVE  /\ PopError(v, code) \in Outcomes
         /\ PopError(v, code).k \in {"err", "panic"}
         /\ PopError(v, code).k = "err" => PopError(v, code).e \in Errors
<1>1. CASE IsWrappedError(v)
  <2>1. v.e \in Errors
    BY <1>1 DEF IsWrappedError, Values, Strs, Nil
  <2>. QED
    BY <1>1, <2>1 DEF PopError, Outcomes
<1>2. CASE ~IsWrappedError(v) /\ IsWrappedPanic(v)
  BY <1>2, ValueFacts DEF PopError, Outcomes
<1>3. CASE ~IsWrappedError(v) /\ ~IsWrappedPanic(v)
  <2>1. ToStr(v, "unprintable") \in Strs
    BY DEF ToStr, Values, Strs, Str, Nil, AllMsgs, FixedMsgs
  <2>2. Syntax(ToStr(v, "unprintable")) \in Errors
    BY <2>1, Zenon DEF Syntax, Err, Errors, ErrorKinds
  <2>3. Runtime(ToStr(v, "unprintable")) \in Errors
    BY <2>1 DEF Runtime, Err, Errors, ErrorKinds
  <2>. QED
    BY <1>3, <2>2, <2>3 DEF PopError, Outcomes
<1>. QED
  BY <1>1, <1>2, <1>3

(* A failed protected call's result: one error value.                     *)
LEMMA ErrResultOK ==
  ASSUME NEW st \in {"run", "errerr"}, NEW v \in Values
  PROVE  ErrResult(st, v) \in Results /\ ResOK(ErrResult(st, v))
<1>1. <<v>> \in Seq(Values) /\ Len(<<v>>) = 1
  OBVIOUS
<1>. QED
  BY <1>1 DEF ErrResult, Results, ResOK

(* A freshly pushed frame. *)
LEMMA FrameTyped ==
  ASSUME NEW kind \in {"rust", "lua"} \cup Boundaries,
         NEW tag \in {"root", "cb", "rcb", "fn", "handler", "tb", "plain", "-"},
         NEW b \in Nat
  PROVE  /\ Frame(kind, tag, b) \in Frames
         /\ Frame(kind, tag, b).kind = kind
         /\ Frame(kind, tag, b).bnd = b
         /\ Frame(kind, tag, b).stk = <<>>
         /\ ResOK(Frame(kind, tag, b).res)
<1>1. <<>> \in Seq(Values)
  BY EmptySeq
<1>. QED
  BY <1>1 DEF Frame, Frames, ResOK

(* Concatenating sequences without a WrappedPanic gives one without.       *)
LEMMA NoPanicConcat ==
  ASSUME NEW s \in Seq(Values), NEW t \in Seq(Values), NoPanic(s), NoPanic(t)
  PROVE  NoPanic(s \o t)
<1>1. PICK n \in Nat, m \in Nat : n = Len(s) /\ m = Len(t)
  BY LenProperties
<1>2. /\ DOMAIN (s \o t) = 1..(n + m)
      /\ \A i \in 1..(n + m) : (s \o t)[i] = IF i <= n THEN s[i] ELSE t[i - n]
  BY <1>1, ConcatProperties, LenProperties
<1>3. DOMAIN s = 1..n /\ DOMAIN t = 1..m
  BY <1>1, LenProperties
<1>. QED
  BY <1>1, <1>2, <1>3 DEF NoPanic

-----------------------------------------------------------------------------
(* Lemmas on the frame chain.                                              *)

(* Pushing a frame that is linked to a protected call below it (a Rust     *)
(* lua_pcall only above a Rust callback) keeps the chain well formed.      *)
LEMMA PushInv ==
  ASSUME NEW fs, FramesInv(fs), NEW g \in Frames,
         Len(fs) + 1 = 2 => g.kind = "hcall",
         Len(fs) + 1 >= 3 => g.bnd \in 1..Len(fs),
         (Len(fs) + 1 >= 3 /\ g.kind = "hcall") => fs[Len(fs)].kind = "rust",
         g.kind = "lua" => NoPanic(g.stk),
         ResOK(g.res)
  PROVE  FramesInv(Append(fs, g)) /\ Len(Append(fs, g)) = Len(fs) + 1
<1>1. PICK n \in Nat : n = Len(fs) /\ n >= 1
  BY LenProperties DEF FramesInv
<1>2. /\ Append(fs, g) \in Seq(Frames)
      /\ Len(Append(fs, g)) = n + 1
      /\ \A i \in 1..n : Append(fs, g)[i] = fs[i]
      /\ Append(fs, g)[n + 1] = g
  BY <1>1, AppendProperties DEF FramesInv
<1>3. \A i \in 1..n : FrameOK(Append(fs, g), i)
  <2> SUFFICES ASSUME NEW i \in 1..n PROVE FrameOK(Append(fs, g), i)
    OBVIOUS
  <2>1. FrameOK(fs, i)
    BY <1>1 DEF FramesInv
  <2>2. i >= 2 => Append(fs, g)[i - 1] = fs[i - 1]
    BY <1>1, <1>2
  <2>. QED
    BY <1>2, <2>1, <2>2 DEF FrameOK
<1>4. FrameOK(Append(fs, g), n + 1)
  BY <1>1, <1>2 DEF FrameOK
<1>. QED
  BY <1>1, <1>2, <1>3, <1>4 DEF FramesInv

(* Unwinding to frame k and replacing it by a frame of the same kind, tag  *)
(* and link keeps the chain well formed, k frames long.                    *)
LEMMA ReplaceInv ==
  ASSUME NEW fs, FramesInv(fs), NEW k \in 1..Len(fs), NEW g \in Frames,
         g.kind = fs[k].kind, g.tag = fs[k].tag, g.bnd = fs[k].bnd,
         g.kind = "lua" => NoPanic(g.stk),
         ResOK(g.res)
  PROVE  /\ FramesInv(Append(SubSeq(fs, 1, k - 1), g))
         /\ Len(Append(SubSeq(fs, 1, k - 1), g)) = k
<1> DEFINE new == Append(SubSeq(fs, 1, k - 1), g)
<1>1. PICK n \in Nat : n = Len(fs) /\ n >= 1
  BY LenProperties DEF FramesInv
<1>2. \A i \in 1..(k - 1) : fs[i] \in Frames
  BY <1>1, ElementOfSeq DEF FramesInv
<1>3. /\ SubSeq(fs, 1, k - 1) \in Seq(Frames)
      /\ Len(SubSeq(fs, 1, k - 1)) = IF 1 <= k - 1 THEN k - 1 ELSE 0
      /\ \A i \in 1..(k - 1) : SubSeq(fs, 1, k - 1)[i] = fs[i]
  BY <1>2, SubSeqProperties
<1>4. (IF 1 <= k - 1 THEN k - 1 ELSE 0) = k - 1
  BY <1>1
<1>5. /\ new \in Seq(Frames)
      /\ Len(new) = k
      /\ \A i \in 1..(k - 1) : new[i] = fs[i]
      /\ new[k] = g
  BY <1>3, <1>4, AppendProperties
<1>6. \A i \in 1..(k - 1) : FrameOK(new, i)
  <2> SUFFICES ASSUME NEW i \in 1..(k - 1) PROVE FrameOK(new, i)
    OBVIOUS
  <2>1. FrameOK(fs, i)
    BY <1>1 DEF FramesInv
  <2>2. i >= 2 => new[i - 1] = fs[i - 1]
    BY <1>5
  <2>. QED
    BY <1>5, <2>1, <2>2 DEF FrameOK
<1>7. FrameOK(new, k)
  <2>1. FrameOK(fs, k)
    BY <1>1 DEF FramesInv
  <2>2. k >= 2 => new[k - 1] = fs[k - 1]
    BY <1>5
  <2>. QED
    BY <1>5, <2>1, <2>2 DEF FrameOK
<1>. QED
  BY <1>5, <1>6, <1>7 DEF FramesInv

(* Replacing the value stack of the top frame keeps the chain well formed, *)
(* of the same length, kinds, tags and links.                              *)
LEMMA StkInv ==
  ASSUME NEW fs, FramesInv(fs), NEW s \in Seq(Values),
         fs[Len(fs)].kind = "lua" => NoPanic(s)
  PROVE  LET new == [fs EXCEPT ![Len(fs)].stk = s] IN
         /\ FramesInv(new)
         /\ Len(new) = Len(fs)
         /\ \A i \in 1..Len(fs) : /\ new[i].kind = fs[i].kind
                                  /\ new[i].tag = fs[i].tag
                                  /\ new[i].bnd = fs[i].bnd
<1> DEFINE new == [fs EXCEPT ![Len(fs)].stk = s]
<1>1. PICK n \in Nat : n = Len(fs) /\ n >= 1
  BY LenProperties DEF FramesInv
<1>2. fs[n] \in Frames
  BY <1>1, ElementOfSeq DEF FramesInv
<1>3. [fs[n] EXCEPT !.stk = s] \in Frames
  BY <1>2, Zenon DEF Frames
<1>4. /\ [fs EXCEPT ![n] = [fs[n] EXCEPT !.stk = s]] \in Seq(Frames)
      /\ Len([fs EXCEPT ![n] = [fs[n] EXCEPT !.stk = s]]) = n
      /\ \A j \in 1..n : [fs EXCEPT ![n] = [fs[n] EXCEPT !.stk = s]][j] =
                           IF j = n THEN [fs[n] EXCEPT !.stk = s] ELSE fs[j]
  BY <1>1, <1>3, ExceptSeq DEF FramesInv
<1>5. new = [fs EXCEPT ![n] = [fs[n] EXCEPT !.stk = s]]
  BY <1>1
<1>6. /\ new \in Seq(Frames)
      /\ Len(new) = n
      /\ \A j \in 1..(n - 1) : new[j] = fs[j]
      /\ new[n] = [fs[n] EXCEPT !.stk = s]
  BY <1>1, <1>4, <1>5
<1>7. /\ new[n].kind = fs[n].kind /\ new[n].tag = fs[n].tag
      /\ new[n].bnd = fs[n].bnd /\ new[n].res = fs[n].res /\ new[n].stk = s
  BY <1>2, <1>6 DEF Frames
<1>8. \A i \in 1..n : FrameOK(new, i)
  <2> SUFFICES ASSUME NEW i \in 1..n PROVE FrameOK(new, i)
    OBVIOUS
  <2>1. FrameOK(fs, i)
    BY <1>1 DEF FramesInv
  <2>2. i >= 2 => new[i - 1] = fs[i - 1]
    BY <1>6
  <2>3. CASE i < n
    BY <1>6, <2>1, <2>2, <2>3 DEF FrameOK
  <2>4. CASE i = n
    BY <1>1, <1>7, <2>1, <2>2, <2>4 DEF FrameOK
  <2>. QED
    BY <2>3, <2>4
<1>9. \A i \in 1..n : /\ new[i].kind = fs[i].kind
                      /\ new[i].tag = fs[i].tag
                      /\ new[i].bnd = fs[i].bnd
  BY <1>6, <1>7
<1>. QED
  BY <1>1, <1>6, <1>8, <1>9 DEF FramesInv

(* Unwinding to the protected call b and handing it the result r keeps the *)
(* chain well formed, b frames long.                                       *)
LEMMA DeliverInv ==
  ASSUME NEW fs, FramesInv(fs), NEW b \in 1..Len(fs), NEW r \in Results,
         ResOK(r), Deliver(fs, b, r)
  PROVE  FramesInv(frames') /\ Len(frames') = b
<1>1. fs[b] \in Frames /\ FrameOK(fs, b)
  BY ElementOfSeq DEF FramesInv
<1>2. /\ [fs[b] EXCEPT !.res = r] \in Frames
      /\ [fs[b] EXCEPT !.res = r].kind = fs[b].kind
      /\ [fs[b] EXCEPT !.res = r].tag = fs[b].tag
      /\ [fs[b] EXCEPT !.res = r].bnd = fs[b].bnd
      /\ [fs[b] EXCEPT !.res = r].stk = fs[b].stk
      /\ [fs[b] EXCEPT !.res = r].res = r
  BY <1>1, Zenon DEF Frames
<1>3. [fs[b] EXCEPT !.res = r].kind = "lua" => NoPanic([fs[b] EXCEPT !.res = r].stk)
  BY <1>1, <1>2 DEF FrameOK
<1>. QED
  BY <1>2, <1>3, ReplaceInv DEF Deliver

(* Two frames pushed at once are two Appends.                              *)
LEMMA PushTwo ==
  ASSUME NEW S, NEW fs \in Seq(S), NEW a \in S, NEW c \in S
  PROVE  fs \o <<a, c>> = Append(Append(fs, a), c)
<1>1. PICK n \in Nat : n = Len(fs)
  BY LenProperties
<1>2. /\ Append(Append(fs, a), c) \in Seq(S)
      /\ Len(Append(Append(fs, a), c)) = n + 2
      /\ \A i \in 1..n : Append(Append(fs, a), c)[i] = fs[i]
      /\ Append(Append(fs, a), c)[n + 1] = a
      /\ Append(Append(fs, a), c)[n + 2] = c
  BY <1>1, AppendProperties
<1>3. <<a, c>> \in Seq(S) /\ Len(<<a, c>>) = 2
  OBVIOUS
<1>4. /\ fs \o <<a, c>> \in Seq(S)
      /\ Len(fs \o <<a, c>>) = n + 2
      /\ \A i \in 1..(n + 2) : (fs \o <<a, c>>)[i] =
                                IF i <= n THEN fs[i] ELSE <<a, c>>[i - n]
  BY <1>1, <1>3, ConcatProperties
<1>5. \A i \in 1..(n + 2) : (fs \o <<a, c>>)[i] = Append(Append(fs, a), c)[i]
  BY <1>1, <1>2, <1>4
<1>. QED
  BY <1>2, <1>4, <1>5, SeqEqual

(* lua_error raised by the top frame of a well-formed chain: the message   *)
(* handler or the unwind to the protected call keeps the chain well formed *)
(* and within MaxDepth.                                                    *)
LEMMA RaiseInv ==
  ASSUME NEW fs, FramesInv(fs), Len(fs) >= 3, Len(fs) <= MaxDepth,
         NEW v \in Values, Raise(fs, v)
  PROVE  FramesInv(frames') /\ Len(frames') <= MaxDepth
<1>1. PICK n \in Nat : n = Len(fs)
  BY LenProperties DEF FramesInv
<1> DEFINE b == fs[n].bnd
<1>2. b \in 1..(n - 1)
  <2>1. FrameOK(fs, n)
    BY <1>1 DEF FramesInv
  <2>. QED
    BY <1>1, <2>1 DEF FrameOK
<1>3. NearestBoundary(fs) = b
  BY <1>1 DEF NearestBoundary
<1>4. CASE fs[b].kind = "xpcall" /\ ~IsWrappedPanic(v) /\ n < MaxDepth
  <2> DEFINE h == [Frame("lua", "handler", b) EXCEPT !.stk = <<v>>]
  <2>1. frames' = Append(fs, h)
    BY <1>1, <1>3, <1>4 DEF Raise
  <2>2. /\ Frame("lua", "handler", b) \in Frames
        /\ ResOK(Frame("lua", "handler", b).res)
    BY <1>2, FrameTyped
  <2>3. <<v>> \in Seq(Values) /\ NoPanic(<<v>>)
    BY <1>4 DEF NoPanic
  <2>4. /\ h \in Frames
        /\ h.kind = "lua" /\ h.bnd = b /\ h.stk = <<v>>
        /\ h.res = Frame("lua", "handler", b).res
    BY <2>2, <2>3, Zenon DEF Frame, Frames
  <2>5. /\ Len(fs) + 1 = 2 => h.kind = "hcall"
        /\ Len(fs) + 1 >= 3 => h.bnd \in 1..Len(fs)
        /\ (Len(fs) + 1 >= 3 /\ h.kind = "hcall") => fs[Len(fs)].kind = "rust"
        /\ h.kind = "lua" => NoPanic(h.stk)
        /\ ResOK(h.res)
    BY <1>1, <1>2, <2>2, <2>3, <2>4
  <2>6. FramesInv(Append(fs, h)) /\ Len(Append(fs, h)) = Len(fs) + 1
    BY <2>4, <2>5, PushInv
  <2>. QED
    BY <1>1, <1>4, <2>1, <2>6, DepthAssumption
<1>5. CASE fs[b].kind = "xpcall" /\ ~IsWrappedPanic(v) /\ ~(n < MaxDepth)
  <2>1. Deliver(fs, b, ErrResult("errerr", Str("errerr", FALSE)))
    BY <1>1, <1>3, <1>5 DEF Raise
  <2>2. ErrResult("errerr", Str("errerr", FALSE)) \in Results
        /\ ResOK(ErrResult("errerr", Str("errerr", FALSE)))
    BY ValueFacts, ErrResultOK DEF AllMsgs, FixedMsgs
  <2>3. \A r \in Results : ResOK(r) /\ Deliver(fs, b, r) =>
                              FramesInv(frames') /\ Len(frames') = b
    BY <1>1, <1>2, DeliverInv
  <2>4. FramesInv(frames') /\ Len(frames') = b
    BY <2>1, <2>2, <2>3
  <2>. QED
    BY <1>1, <1>2, <2>4, DepthAssumption
<1>6. CASE ~(fs[b].kind = "xpcall" /\ ~IsWrappedPanic(v))
             /\ fs[b].kind = "hcall" /\ fs[b].tag = "tb"
  <2>1. Deliver(fs, b, ErrResult("run", ErrorTraceback(v)))
    BY <1>3, <1>6 DEF Raise
  <2>2. ErrResult("run", ErrorTraceback(v)) \in Results
        /\ ResOK(ErrResult("run", ErrorTraceback(v)))
    BY TracebackTyped, ErrResultOK
  <2>3. FramesInv(frames') /\ Len(frames') = b
    BY <1>1, <1>2, <2>1, <2>2, DeliverInv
  <2>. QED
    BY <1>1, <1>2, <2>3, DepthAssumption
<1>7. CASE ~(fs[b].kind = "xpcall" /\ ~IsWrappedPanic(v))
             /\ ~(fs[b].kind = "hcall" /\ fs[b].tag = "tb")
  <2>1. Deliver(fs, b, ErrResult("run", v))
    BY <1>3, <1>7 DEF Raise
  <2>2. ErrResult("run", v) \in Results /\ ResOK(ErrResult("run", v))
    BY ErrResultOK
  <2>3. FramesInv(frames') /\ Len(frames') = b
    BY <1>1, <1>2, <2>1, <2>2, DeliverInv
  <2>. QED
    BY <1>1, <1>2, <2>3, DepthAssumption
<1>. QED
  BY <1>4, <1>5, <1>6, <1>7

-----------------------------------------------------------------------------
(* The steps of the protocol preserve IInv, one lemma per action.          *)

(* What IInv says of the running frame and of the frame below it: only    *)
(* the host runs at the bottom, only its lua_pcall sits directly above,    *)
(* so a callback, a script or a safe_pcall runs at depth 3 or more.        *)
LEMMA TopFacts ==
  ASSUME IInv
  PROVE  /\ TopIdx \in Nat /\ 1 <= TopIdx /\ TopIdx <= MaxDepth
         /\ TopFrame \in Frames /\ FrameOK(frames, TopIdx)
         /\ (\/ TopFrame.kind \in {"lua", "pcall", "xpcall"}
             \/ TopFrame.kind = "rust" /\ TopFrame.tag \in {"cb", "rcb"})
              => TopIdx >= 3
         /\ TopIdx >= 2 => /\ frames[TopIdx - 1] \in Frames
                           /\ FrameOK(frames, TopIdx - 1)
<1>1. PICK n \in Nat : n = Len(frames) /\ n >= 1
  BY LenProperties DEF IInv, FramesInv
<1>2. frames[n] \in Frames /\ FrameOK(frames, n)
  BY <1>1, ElementOfSeq DEF IInv, FramesInv
<1>3. n >= 2 => frames[n - 1] \in Frames /\ FrameOK(frames, n - 1)
  BY <1>1, ElementOfSeq DEF IInv, FramesInv
<1>4. n = 1 => frames[n].kind = "rust" /\ frames[n].tag = "root"
  BY <1>2 DEF FrameOK
<1>5. n = 2 => frames[n].kind = "hcall"
  BY <1>2 DEF FrameOK
<1>. QED
  BY <1>1, <1>2, <1>3, <1>4, <1>5 DEF IInv, TopIdx, TopFrame

(* The errors a callback returns of its own accord are Errors.             *)
LEMMA OwnErrorsTyped == OwnErrors \subseteq Errors
<1>1. \A m \in Msgs : Runtime(Str(m, FALSE)) \in Errors
  BY DEF Runtime, Err, Str, Errors, ErrorKinds, Strs, AllMsgs
<1>2. StackErr \in Errors /\ Destructed \in Errors
  BY DEF StackErr, Destructed, Err, Str, Errors, ErrorKinds, Strs, AllMsgs,
         FixedMsgs
<1>. QED
  BY <1>1, <1>2 DEF OwnErrors

LEMMA InitInv == Init => IInv
<1> SUFFICES ASSUME Init PROVE IInv
  OBVIOUS
<1>1. /\ Frame("rust", "root", 0) \in Frames
      /\ Frame("rust", "root", 0).kind = "rust"
      /\ ResOK(Frame("rust", "root", 0).res)
  BY FrameTyped
<1>2. Frame("rust", "root", 0).tag = "root"
  BY DEF Frame
<1>3. frames \in Seq(Frames) /\ Len(frames) = 1 /\ frames[1] = Frame("rust", "root", 0)
  BY <1>1 DEF Init
<1>4. FrameOK(frames, 1)
  BY <1>1, <1>2, <1>3 DEF FrameOK
<1>5. NoOutcome \in Outcomes
  BY DEF NoOutcome, Outcomes
<1>. QED
  BY <1>3, <1>4, <1>5, DepthAssumption DEF Init, IInv, FramesInv

(* The host's lua_pcall: two frames above the host.                        *)
LEMMA HostCallInv ==
  ASSUME IInv, NEW tag \in {"tb", "plain"}, HostCall(tag)
  PROVE  IInv'
<1> DEFINE h == Frame("hcall", tag, TopFrame.bnd)
           f == Frame("lua", "fn", TopIdx + 1)
<1>1. TopIdx = 1 /\ TopFrame.bnd \in Nat
  BY TopFacts DEF HostCall, Frames, TopIdx
<1>2. /\ h \in Frames /\ h.kind = "hcall" /\ ResOK(h.res)
      /\ f \in Frames /\ f.kind = "lua" /\ f.bnd = 2 /\ f.stk = <<>> /\ ResOK(f.res)
  BY <1>1, FrameTyped DEF Boundaries
<1>3. FramesInv(Append(frames, h)) /\ Len(Append(frames, h)) = 2
  <2>1. /\ Len(frames) + 1 = 2 => h.kind = "hcall"
        /\ Len(frames) + 1 >= 3 => h.bnd \in 1..Len(frames)
        /\ (Len(frames) + 1 >= 3 /\ h.kind = "hcall") => frames[Len(frames)].kind = "rust"
        /\ h.kind = "lua" => NoPanic(h.stk)
        /\ ResOK(h.res)
    BY <1>1, <1>2 DEF TopIdx
  <2>2. FramesInv(Append(frames, h)) /\ Len(Append(frames, h)) = Len(frames) + 1
    BY <1>2, <2>1, PushInv DEF IInv
  <2>. QED
    BY <1>1, <2>2 DEF TopIdx
<1>4. FramesInv(Append(Append(frames, h), f)) /\ Len(Append(Append(frames, h), f)) = 3
  <2>1. /\ Len(Append(frames, h)) + 1 = 2 => f.kind = "hcall"
        /\ Len(Append(frames, h)) + 1 >= 3 => f.bnd \in 1..Len(Append(frames, h))
        /\ (Len(Append(frames, h)) + 1 >= 3 /\ f.kind = "hcall")
             => Append(frames, h)[Len(Append(frames, h))].kind = "rust"
        /\ f.kind = "lua" => NoPanic(f.stk)
        /\ ResOK(f.res)
    BY <1>2, <1>3 DEF NoPanic
  <2>2. /\ FramesInv(Append(Append(frames, h), f))
        /\ Len(Append(Append(frames, h), f)) = Len(Append(frames, h)) + 1
    BY <1>2, <1>3, <2>1, PushInv
  <2>. QED
    BY <1>3, <2>2
<1>5. frames' = Append(Append(frames, h), f)
  BY <1>2, PushTwo DEF HostCall, IInv, FramesInv
<1>. QED
  BY <1>4, <1>5, DepthAssumption DEF HostCall, IInv

LEMMA HostLoadFailsInv ==
  ASSUME IInv, NEW m \in Msgs, HostLoadFails(m)
  PROVE  IInv'
<1>1. Str(m, FALSE) \in Values
  BY ValueFacts DEF AllMsgs
<1>. QED
  BY <1>1, PopErrorTyped DEF HostLoadFails, IInv

LEMMA HostNextInv ==
  ASSUME IInv, HostNext
  PROVE  IInv'
<1>1. NoOutcome \in Outcomes
  BY DEF NoOutcome, Outcomes
<1>. QED
  BY <1>1 DEF HostNext, IInv

(* The host's lua_pcall returns: the host alone is left.                   *)
LEMMA HostResumeInv ==
  ASSUME IInv, HostResume
  PROVE  IInv'
<1>1. Len(frames) = 2 /\ TopFrame.res /= NoRes
  BY DEF HostResume
<1>2. /\ frames[1] \in Frames /\ FrameOK(frames, 1)
      /\ TopFrame \in Frames /\ FrameOK(frames, 2)
  BY <1>1, TopFacts, ElementOfSeq DEF IInv, FramesInv, TopIdx, TopFrame
<1>3. /\ SubSeq(frames, 1, 1) \in Seq(Frames)
      /\ Len(SubSeq(frames, 1, 1)) = 1
      /\ SubSeq(frames, 1, 1)[1] = frames[1]
  <2>1. \A i \in 1..1 : frames[i] \in Frames
    BY <1>2
  <2>. QED
    BY <2>1, SubSeqProperties
<1>4. FrameOK(SubSeq(frames, 1, 1), 1)
  BY <1>2, <1>3 DEF FrameOK
<1>5. TopFrame.res \in Results
  BY <1>1, <1>2 DEF Frames
<1>6. CASE TopFrame.res.st = "ok"
  <2>1. [NoOutcome EXCEPT !.k = "ok"] \in Outcomes
    BY Zenon DEF NoOutcome, Outcomes
  <2>. QED
    BY <1>3, <1>4, <2>1, <1>6, DepthAssumption DEF HostResume, IInv, FramesInv
<1>7. CASE TopFrame.res.st /= "ok"
  <2>1. Len(TopFrame.res.vals) = 1
    BY <1>1, <1>2, <1>7 DEF FrameOK, ResOK, TopIdx, TopFrame
  <2>2. TopFrame.res.vals[1] \in Values
    BY <1>5, <2>1, ElementOfSeq DEF Results
  <2>3. PopError(TopFrame.res.vals[1], TopFrame.res.st) \in Outcomes
    BY <2>2, PopErrorTyped
  <2>. QED
    BY <1>3, <1>4, <2>3, <1>7, DepthAssumption DEF HostResume, IInv, FramesInv
<1>. QED
  BY <1>6, <1>7

(* A script calls a Rust callback: one frame, linked to the script's own   *)
(* protected call.                                                         *)
LEMMA ScriptCallInv ==
  ASSUME IInv, NEW tag \in {"cb", "rcb"}, ScriptCall(tag)
  PROVE  IInv'
<1> DEFINE g == Frame("rust", tag, TopFrame.bnd)
<1>1. /\ TopIdx \in Nat /\ TopIdx >= 3 /\ TopIdx < MaxDepth
      /\ TopFrame.bnd \in 1..(TopIdx - 1)
  BY TopFacts DEF ScriptCall, ScriptRunning, FrameOK, TopIdx, TopFrame
<1>2. g \in Frames /\ g.kind = "rust" /\ g.bnd = TopFrame.bnd /\ ResOK(g.res)
  BY <1>1, FrameTyped
<1>3. /\ Len(frames) + 1 = 2 => g.kind = "hcall"
      /\ Len(frames) + 1 >= 3 => g.bnd \in 1..Len(frames)
      /\ (Len(frames) + 1 >= 3 /\ g.kind = "hcall") => frames[Len(frames)].kind = "rust"
      /\ g.kind = "lua" => NoPanic(g.stk)
      /\ ResOK(g.res)
  BY <1>1, <1>2 DEF TopIdx
<1>4. FramesInv(Append(frames, g)) /\ Len(Append(frames, g)) = Len(frames) + 1
  BY <1>2, <1>3, PushInv DEF IInv
<1>. QED
  BY <1>1, <1>4, DepthAssumption DEF ScriptCall, IInv, TopIdx

(* Two frames pushed above the running frame n, the first linked to the   *)
(* running frame's protected call and the second to the first: the        *)
(* lua_pcall of a Rust callback, or safe_pcall / safe_xpcall.               *)
LEMMA PushCallInv ==
  ASSUME IInv, NEW kind \in Boundaries, NEW tag \in {"tb", "plain", "-"},
         TopIdx >= 3, TopIdx + 2 <= MaxDepth,
         kind = "hcall" => TopFrame.kind = "rust",
         frames' = frames \o <<Frame(kind, tag, TopFrame.bnd),
                               Frame("lua", "fn", TopIdx + 1)>>
  PROVE  FramesInv(frames') /\ Len(frames') <= MaxDepth
<1> DEFINE h == Frame(kind, tag, TopFrame.bnd)
           f == Frame("lua", "fn", TopIdx + 1)
           fs1 == Append(frames, h)
<1>1. /\ TopIdx \in Nat
      /\ TopFrame.bnd \in 1..(TopIdx - 1)
  BY TopFacts DEF FrameOK, TopIdx, TopFrame
<1>2. /\ h \in Frames /\ h.kind = kind /\ h.bnd = TopFrame.bnd /\ ResOK(h.res)
      /\ f \in Frames /\ f.kind = "lua" /\ f.bnd = TopIdx + 1 /\ f.stk = <<>>
      /\ ResOK(f.res)
  <2>1. kind \in {"rust", "lua"} \cup Boundaries
        /\ tag \in {"root", "cb", "rcb", "fn", "handler", "tb", "plain", "-"}
        /\ TopFrame.bnd \in Nat
    BY <1>1
  <2>2. h \in Frames /\ h.kind = kind /\ h.bnd = TopFrame.bnd /\ ResOK(h.res)
    BY <2>1, FrameTyped
  <2>3. "lua" \in {"rust", "lua"} \cup Boundaries
        /\ "fn" \in {"root", "cb", "rcb", "fn", "handler", "tb", "plain", "-"}
        /\ TopIdx + 1 \in Nat
    BY <1>1
  <2>4. f \in Frames /\ f.kind = "lua" /\ f.bnd = TopIdx + 1 /\ f.stk = <<>>
        /\ ResOK(f.res)
    BY <2>3, FrameTyped
  <2>. QED
    BY <2>2, <2>4
<1>3. FramesInv(fs1) /\ Len(fs1) = Len(frames) + 1
  <2>1. /\ Len(frames) + 1 = 2 => h.kind = "hcall"
        /\ Len(frames) + 1 >= 3 => h.bnd \in 1..Len(frames)
        /\ (Len(frames) + 1 >= 3 /\ h.kind = "hcall") => frames[Len(frames)].kind = "rust"
        /\ h.kind = "lua" => NoPanic(h.stk)
        /\ ResOK(h.res)
    BY <1>1, <1>2 DEF TopIdx, TopFrame, Boundaries
  <2>. QED
    BY <1>2, <2>1, PushInv DEF IInv
<1>4. FramesInv(Append(fs1, f)) /\ Len(Append(fs1, f)) = Len(fs1) + 1
  <2>1. /\ Len(fs1) + 1 = 2 => f.kind = "hcall"
        /\ Len(fs1) + 1 >= 3 => f.bnd \in 1..Len(fs1)
        /\ (Len(fs1) + 1 >= 3 /\ f.kind = "hcall") => fs1[Len(fs1)].kind = "rust"
        /\ f.kind = "lua" => NoPanic(f.stk)
        /\ ResOK(f.res)
    BY <1>1, <1>2, <1>3 DEF TopIdx, NoPanic
  <2>. QED
    BY <1>2, <1>3, <2>1, PushInv
<1>5. frames' = Append(fs1, f)
  BY <1>2, PushTwo DEF IInv, FramesInv
<1>6. FramesInv(frames')
  BY <1>4, <1>5
<1>7. PICK n \in Nat : n = Len(frames)
  BY <1>1 DEF TopIdx
<1>8. Len(frames') = n + 2
  BY <1>3, <1>4, <1>5, <1>7
<1>. QED
  BY <1>6, <1>7, <1>8, DepthAssumption DEF TopIdx

LEMMA RustCallLuaInv ==
  ASSUME IInv, NEW tag \in {"tb", "plain"}, RustCallLua(tag)
  PROVE  IInv'
<1>1. TopIdx >= 3 /\ TopIdx + 2 <= MaxDepth /\ TopFrame.kind = "rust"
  BY TopFacts DEF RustCallLua, RustRunning, TopIdx
<1>2. FramesInv(frames') /\ Len(frames') <= MaxDepth
  BY <1>1, PushCallInv DEF RustCallLua, Boundaries
<1>. QED
  BY <1>2 DEF RustCallLua, IInv

LEMMA ScriptPcallInv ==
  ASSUME IInv, NEW kind \in {"pcall", "xpcall"}, ScriptPcall(kind)
  PROVE  IInv'
<1>1. TopIdx >= 3 /\ TopIdx + 2 <= MaxDepth
  BY TopFacts DEF ScriptPcall, ScriptRunning, TopIdx
<1>2. FramesInv(frames') /\ Len(frames') <= MaxDepth
  BY <1>1, PushCallInv DEF ScriptPcall, Boundaries
<1>. QED
  BY <1>2 DEF ScriptPcall, IInv

(* A lua_error from a chain of at least three frames, with the host's      *)
(* outcome untouched.                                                      *)
LEMMA RaiseStepInv ==
  ASSUME IInv, NEW fs, FramesInv(fs), Len(fs) >= 3, Len(fs) <= MaxDepth,
         NEW v \in Values, Raise(fs, v),
         outcome' = outcome, raised' \subseteq Payloads
  PROVE  IInv'
<1>1. FramesInv(frames') /\ Len(frames') <= MaxDepth
  BY RaiseInv
<1>. QED
  BY <1>1 DEF IInv

(* The running frame with its stack cleared, as the trampolines leave it.  *)
LEMMA ClearedInv ==
  ASSUME IInv
  PROVE  /\ FramesInv(Cleared(frames))
         /\ Len(Cleared(frames)) = Len(frames)
<1>1. <<>> \in Seq(Values) /\ NoPanic(<<>>)
  BY EmptySeq DEF NoPanic
<1>2. LET new == [frames EXCEPT ![Len(frames)].stk = <<>>] IN
      /\ FramesInv(new)
      /\ Len(new) = Len(frames)
      /\ \A i \in 1..Len(frames) : /\ new[i].kind = frames[i].kind
                                   /\ new[i].tag = frames[i].tag
                                   /\ new[i].bnd = frames[i].bnd
  BY <1>1, StkInv DEF IInv
<1>. QED
  BY <1>2 DEF Cleared

LEMMA RustReturnErrInv ==
  ASSUME IInv, NEW e, RustReturnErr(e)
  PROVE  IInv'
<1>1. TopIdx >= 3 /\ TopFrame \in Frames
  BY TopFacts DEF RustReturnErr, RustRunning
<1>2. e \in Errors
  BY <1>1, OwnErrorsTyped DEF RustReturnErr, Frames
<1>3. Str("stack", FALSE) \in Values /\ WErr(e) \in Values
  BY <1>2, ValueFacts DEF AllMsgs, FixedMsgs
<1>4. FramesInv(Cleared(frames)) /\ Len(Cleared(frames)) >= 3
      /\ Len(Cleared(frames)) <= MaxDepth
  BY <1>1, ClearedInv DEF IInv, TopIdx
<1>5. outcome' = outcome /\ raised' \subseteq Payloads
  BY DEF RustReturnErr, IInv
<1>6. CASE TopFrame.tag = "rcb" /\ e = StackErr
  <2>1. Raise(Cleared(frames), Str("stack", FALSE))
    BY <1>6 DEF RustReturnErr
  <2>. QED
    BY <1>3, <1>4, <1>5, <2>1, RaiseStepInv
<1>7. CASE ~(TopFrame.tag = "rcb" /\ e = StackErr)
  <2>1. Raise(Cleared(frames), WErr(e))
    BY <1>7 DEF RustReturnErr
  <2>. QED
    BY <1>3, <1>4, <1>5, <2>1, RaiseStepInv
<1>. QED
  BY <1>6, <1>7

LEMMA RustPanicInv ==
  ASSUME IInv, NEW p \in Payloads, RustPanic(p)
  PROVE  IInv'
<1>1. TopIdx >= 3
  BY TopFacts DEF RustPanic, RustRunning
<1>2. WPanic(p) \in Values
  BY ValueFacts
<1>3. FramesInv(Cleared(frames)) /\ Len(Cleared(frames)) >= 3
      /\ Len(Cleared(frames)) <= MaxDepth
  BY <1>1, ClearedInv DEF IInv, TopIdx
<1>4. raised' \subseteq Payloads
  BY DEF RustPanic, IInv
<1>. QED
  BY <1>2, <1>3, <1>4, RaiseStepInv DEF RustPanic

LEMMA ScriptPcallNoArgsInv ==
  ASSUME IInv, NEW kind, ScriptPcallNoArgs(kind)
  PROVE  IInv'
<1>1. TopIdx >= 3
  BY TopFacts DEF ScriptPcallNoArgs, ScriptRunning
<1>2. Str(IF kind = "pcall" THEN "pcall_args" ELSE "xpcall_args", FALSE) \in Values
  BY ValueFacts DEF AllMsgs, FixedMsgs
<1>. QED
  BY <1>1, <1>2, RaiseStepInv DEF ScriptPcallNoArgs, IInv, TopIdx

LEMMA ScriptRaiseInv ==
  ASSUME IInv, NEW v, ScriptRaise(v)
  PROVE  IInv'
<1>1. TopIdx >= 3 /\ TopFrame \in Frames
  BY TopFacts DEF ScriptRaise, ScriptRunning
<1>2. \A i \in DOMAIN TopFrame.stk : TopFrame.stk[i] \in Values
  BY <1>1, LenProperties, ElementOfSeq DEF Frames
<1>3. v \in Values
  BY <1>2, ValueFacts DEF ScriptRaise
<1>. QED
  BY <1>1, <1>3, RaiseStepInv DEF ScriptRaise, IInv, TopIdx

(* A frame with a new value stack, or a new pending error, is a frame of   *)
(* the same kind, tag, link and result.                                    *)
LEMMA FrameStk ==
  ASSUME NEW c \in Frames, NEW t \in Seq(Values)
  PROVE  /\ [c EXCEPT !.stk = t] \in Frames
         /\ [c EXCEPT !.stk = t].kind = c.kind /\ [c EXCEPT !.stk = t].tag = c.tag
         /\ [c EXCEPT !.stk = t].bnd = c.bnd /\ [c EXCEPT !.stk = t].res = c.res
         /\ [c EXCEPT !.stk = t].stk = t
BY Zenon DEF Frames

LEMMA FrameGot ==
  ASSUME NEW c \in Frames, NEW e \in Errors
  PROVE  /\ [c EXCEPT !.got = e] \in Frames
         /\ [c EXCEPT !.got = e].kind = c.kind /\ [c EXCEPT !.got = e].tag = c.tag
         /\ [c EXCEPT !.got = e].bnd = c.bnd /\ [c EXCEPT !.got = e].res = c.res
         /\ [c EXCEPT !.got = e].stk = c.stk
BY Zenon DEF Frames

(* Appending a value that is not a WrappedPanic. *)
LEMMA NoPanicAppend ==
  ASSUME NEW s \in Seq(Values), NoPanic(s), NEW v \in Values, ~IsWrappedPanic(v)
  PROVE  Append(s, v) \in Seq(Values) /\ NoPanic(Append(s, v))
<1>1. <<v>> \in Seq(Values) /\ NoPanic(<<v>>)
  BY DEF NoPanic
<1>2. Append(s, v) = s \o <<v>>
  BY AppendIsConcat
<1>. QED
  BY <1>1, <1>2, NoPanicConcat, AppendProperties

(* The running frame returns into the frame below it, which takes its     *)
(* place at the top, updated to g.                                         *)
LEMMA ReturnToCaller ==
  ASSUME IInv, TopIdx >= 2, NEW g \in Frames,
         g.kind = frames[TopIdx - 1].kind, g.tag = frames[TopIdx - 1].tag,
         g.bnd = frames[TopIdx - 1].bnd,
         g.kind = "lua" => NoPanic(g.stk),
         ResOK(g.res)
  PROVE  /\ FramesInv(Append(SubSeq(frames, 1, TopIdx - 2), g))
         /\ Len(Append(SubSeq(frames, 1, TopIdx - 2), g)) <= MaxDepth
         /\ Len(Append(SubSeq(frames, 1, TopIdx - 2), g)) = TopIdx - 1
<1>1. PICK n \in Nat : n = TopIdx /\ n >= 2 /\ n <= MaxDepth
  BY TopFacts
<1>2. n - 1 \in 1..Len(frames) /\ (n - 1) - 1 = n - 2
  BY <1>1 DEF TopIdx
<1>3. /\ FramesInv(Append(SubSeq(frames, 1, (n - 1) - 1), g))
      /\ Len(Append(SubSeq(frames, 1, (n - 1) - 1), g)) = n - 1
  BY <1>1, <1>2, ReplaceInv DEF IInv
<1>4. SubSeq(frames, 1, (n - 1) - 1) = SubSeq(frames, 1, TopIdx - 2)
  BY <1>1, <1>2
<1>5. n - 1 <= MaxDepth
  BY <1>1, DepthAssumption
<1>. QED
  BY <1>1, <1>3, <1>4, <1>5

LEMMA ScriptToStringInv ==
  ASSUME IInv, NEW i, ScriptToString(i)
  PROVE  IInv'
<1> DEFINE s == Append(TopFrame.stk, Str("display", FALSE))
<1>1. TopFrame \in Frames /\ TopFrame.kind = "lua" /\ NoPanic(TopFrame.stk)
  BY TopFacts DEF ScriptToString, ScriptRunning, FrameOK, TopIdx, TopFrame
<1>2. Str("display", FALSE) \in Values /\ ~IsWrappedPanic(Str("display", FALSE))
  BY ValueFacts DEF AllMsgs, FixedMsgs
<1>3. s \in Seq(Values) /\ NoPanic(s)
  BY <1>1, <1>2, NoPanicAppend DEF Frames
<1>4. LET new == [frames EXCEPT ![Len(frames)].stk = s] IN
      /\ FramesInv(new)
      /\ Len(new) = Len(frames)
      /\ \A j \in 1..Len(frames) : /\ new[j].kind = frames[j].kind
                                   /\ new[j].tag = frames[j].tag
                                   /\ new[j].bnd = frames[j].bnd
  BY <1>3, StkInv DEF IInv
<1>5. frames' = [frames EXCEPT ![Len(frames)].stk = s]
  BY DEF ScriptToString, TopIdx, TopFrame
<1>. QED
  BY <1>4, <1>5 DEF ScriptToString, IInv

LEMMA RustReturnOkInv ==
  ASSUME IInv, NEW vals \in {<<>>} \cup {<<v>> : v \in ScriptValues},
         RustReturnOk(vals)
  PROVE  IInv'
<1> DEFINE caller == frames[TopIdx - 1]
<1>1. TopIdx \in Nat /\ TopIdx >= 3 /\ caller \in Frames /\ FrameOK(frames, TopIdx - 1)
  BY TopFacts DEF RustReturnOk, RustRunning
<1>2. vals \in Seq(Values) /\ NoPanic(vals)
  <2>1. CASE vals = <<>>
    BY <2>1, EmptySeq DEF NoPanic
  <2>2. CASE vals /= <<>>
    <3>1. PICK v \in ScriptValues : vals = <<v>>
      BY <2>2
    <3>2. v \in Values /\ ~IsWrappedPanic(v)
      BY ValueFacts
    <3>. QED
      BY <3>1, <3>2 DEF NoPanic
  <2>. QED
    BY <2>1, <2>2
<1>3. caller.stk \o vals \in Seq(Values)
  BY <1>1, <1>2, ConcatProperties DEF Frames
<1>4. PICK g : g = [caller EXCEPT !.stk = caller.stk \o vals]
  OBVIOUS
<1>5. /\ g \in Frames /\ g.kind = caller.kind /\ g.tag = caller.tag
      /\ g.bnd = caller.bnd /\ g.res = caller.res /\ g.stk = caller.stk \o vals
  BY <1>1, <1>3, <1>4, FrameStk, Zenon
<1>6. frames' = Append(SubSeq(frames, 1, TopIdx - 2), g)
  BY <1>4, Zenon DEF RustReturnOk
<1>7. g.kind = "lua" => NoPanic(g.stk)
  BY <1>1, <1>2, <1>5, NoPanicConcat DEF FrameOK, Frames
<1>8. ResOK(g.res)
  BY <1>1, <1>5 DEF FrameOK
<1>9. /\ FramesInv(Append(SubSeq(frames, 1, TopIdx - 2), g))
      /\ Len(Append(SubSeq(frames, 1, TopIdx - 2), g)) <= MaxDepth
  <2>1. TopIdx >= 2
    BY <1>1
  <2>. QED
    BY <2>1, <1>5, <1>7, <1>8, ReturnToCaller, Zenon
<1>. QED
  BY <1>6, <1>9 DEF RustReturnOk, IInv

LEMMA ScriptReturnInv ==
  ASSUME IInv, ScriptReturn
  PROVE  IInv'
<1> DEFINE stk == TopFrame.stk
           vals == IF stk = <<>> THEN <<>> ELSE <<stk[Len(stk)]>>
<1>1. /\ TopIdx \in Nat /\ TopIdx >= 3 /\ TopIdx <= MaxDepth /\ TopFrame \in Frames
      /\ TopFrame.bnd \in 1..(TopIdx - 1) /\ NoPanic(stk)
  BY TopFacts DEF ScriptReturn, ScriptRunning, FrameOK, TopIdx, TopFrame
<1>2. /\ vals \in Seq(Values) /\ NoPanic(vals)
      /\ vals /= <<>> => vals[1] \in Values
  <2>1. stk \in Seq(Values)
    BY <1>1 DEF Frames
  <2>2. CASE stk = <<>>
    BY <2>2, EmptySeq DEF NoPanic
  <2>3. CASE stk /= <<>>
    <3>1. PICK n \in Nat : n = Len(stk) /\ n >= 1
      BY <2>1, <2>3, EmptySeq
    <3>2. stk[n] \in Values /\ ~IsWrappedPanic(stk[n])
      BY <1>1, <2>1, <3>1, ElementOfSeq, LenProperties DEF NoPanic
    <3>. QED
      BY <2>3, <3>1, <3>2 DEF NoPanic
  <2>. QED
    BY <2>2, <2>3
<1>3. \A b \in 1..Len(frames), r \in Results :
        ResOK(r) /\ Deliver(frames, b, r) => FramesInv(frames') /\ Len(frames') = b
  BY DeliverInv DEF IInv
<1>4. UNCHANGED <<outcome, raised>>
  BY DEF ScriptReturn
<1>5. CASE TopFrame.tag = "fn"
  <2>1. Deliver(frames, TopIdx - 1, OkResult(vals))
    BY <1>5 DEF ScriptReturn
  <2>2. OkResult(vals) \in Results /\ ResOK(OkResult(vals))
    BY <1>2 DEF OkResult, Results, ResOK
  <2>3. TopIdx - 1 \in 1..Len(frames)
    BY <1>1 DEF TopIdx
  <2>4. FramesInv(frames') /\ Len(frames') = TopIdx - 1
    BY <1>3, <2>1, <2>2, <2>3
  <2>. QED
    BY <1>1, <1>4, <2>4, DepthAssumption DEF IInv
<1>6. CASE TopFrame.tag /= "fn"
  <2> DEFINE x == IF vals = <<>> THEN Nil ELSE vals[1]
  <2>1. Deliver(frames, NearestBoundary(frames), ErrResult("run", x))
    BY <1>6 DEF ScriptReturn
  <2>2. x \in Values
    BY <1>2, ValueFacts
  <2>3. ErrResult("run", x) \in Results /\ ResOK(ErrResult("run", x))
    BY <2>2, ErrResultOK
  <2>4. NearestBoundary(frames) \in 1..Len(frames)
    BY <1>1 DEF NearestBoundary, TopIdx, TopFrame
  <2>5. FramesInv(frames') /\ Len(frames') = NearestBoundary(frames)
    BY <1>3, <2>1, <2>3, <2>4
  <2>. QED
    BY <1>1, <1>4, <2>4, <2>5, DepthAssumption DEF IInv, TopIdx
<1>. QED
  BY <1>5, <1>6

(* What a protected call holds once its callee has finished.               *)
LEMMA PendingResult ==
  ASSUME IInv, TopFrame.res /= NoRes
  PROVE  /\ TopFrame.res \in Results
         /\ TopFrame.res.st = "ok" => NoPanic(TopFrame.res.vals)
         /\ TopFrame.res.st /= "ok" => /\ Len(TopFrame.res.vals) = 1
                                       /\ TopFrame.res.vals[1] \in Values
<1>1. TopFrame \in Frames /\ FrameOK(frames, TopIdx)
  BY TopFacts
<1>2. TopFrame.res \in Results
  BY <1>1 DEF Frames
<1>3. TopFrame.res.vals \in Seq(Values)
  BY <1>2 DEF Results
<1>. QED
  BY <1>1, <1>2, <1>3, ElementOfSeq DEF FrameOK, ResOK, TopFrame

LEMMA RustResumeInv ==
  ASSUME IInv, RustResume
  PROVE  IInv'
<1> DEFINE r == TopFrame.res
           caller == frames[TopIdx - 1]
           below == SubSeq(frames, 1, TopIdx - 2)
<1>1. /\ TopIdx \in Nat /\ TopIdx >= 3 /\ TopIdx <= MaxDepth
      /\ TopFrame.kind = "hcall" /\ r /= NoRes
      /\ caller \in Frames /\ FrameOK(frames, TopIdx - 1)
      /\ caller.kind = "rust"
  BY TopFacts DEF RustResume, FrameOK, TopIdx, TopFrame
<1>2. TopIdx - 1 >= 3
  BY <1>1 DEF FrameOK
<1>3. UNCHANGED <<outcome, raised>>
  BY DEF RustResume
<1>4. CASE r.st = "ok"
  <2>1. frames' = Append(below, caller)
    BY <1>4 DEF RustResume
  <2>2. ResOK(caller.res)
    BY <1>1 DEF FrameOK
  <2>3. /\ FramesInv(Append(below, caller))
        /\ Len(Append(below, caller)) <= MaxDepth
    BY <1>1, <2>2, ReturnToCaller
  <2>. QED
    BY <1>3, <2>1, <2>3 DEF IInv
<1>5. CASE r.st /= "ok"
  <2> DEFINE pe == PopError(r.vals[1], r.st)
  <2>1. r.vals[1] \in Values
    BY <1>1, <1>5, PendingResult
  <2>2. /\ pe.k \in {"err", "panic"}
        /\ pe.k = "err" => pe.e \in Errors
        /\ pe.k = "panic" <=> IsWrappedPanic(r.vals[1])
        /\ IsWrappedPanic(r.vals[1]) => pe.p = r.vals[1].p
    BY <2>1, PopErrorTyped, PopErrorPanic
  <2>3. CASE pe.k = "err"
    <3>1. PICK g : g = [caller EXCEPT !.got = pe.e]
      OBVIOUS
    <3>2. /\ g \in Frames /\ g.kind = caller.kind /\ g.tag = caller.tag
          /\ g.bnd = caller.bnd /\ g.res = caller.res /\ g.stk = caller.stk
      BY <1>1, <2>2, <2>3, <3>1, FrameGot, Zenon
    <3>3. frames' = Append(below, g)
      BY <1>5, <2>3, <3>1, Zenon DEF RustResume
    <3>4. ResOK(g.res) /\ (g.kind = "lua" => NoPanic(g.stk))
      BY <1>1, <3>2 DEF FrameOK
    <3>5. /\ FramesInv(Append(below, g))
          /\ Len(Append(below, g)) <= MaxDepth
      BY <1>1, <3>2, <3>4, ReturnToCaller
    <3>. QED
      BY <1>3, <3>3, <3>5 DEF IInv
  <2>4. CASE pe.k /= "err"
    <3>1. PICK g : g = [caller EXCEPT !.stk = <<>>]
      OBVIOUS
    <3>2. <<>> \in Seq(Values)
      BY EmptySeq
    <3>3. /\ g \in Frames /\ g.kind = caller.kind /\ g.tag = caller.tag
          /\ g.bnd = caller.bnd /\ g.res = caller.res /\ g.stk = <<>>
      BY <1>1, <3>1, <3>2, FrameStk, Zenon
    <3>4. Raise(Append(below, g), WPanic(pe.p))
      BY <1>5, <2>4, <3>1, Zenon DEF RustResume
    <3>5. ResOK(g.res) /\ (g.kind = "lua" => NoPanic(g.stk))
      BY <1>1, <3>3 DEF FrameOK, NoPanic
    <3>6. /\ FramesInv(Append(below, g))
          /\ Len(Append(below, g)) <= MaxDepth
          /\ Len(Append(below, g)) = TopIdx - 1
      BY <1>1, <3>3, <3>5, ReturnToCaller
    <3>7. WPanic(pe.p) \in Values
      BY <2>1, <2>2, <2>4, ValueFacts
    <3>8. /\ Len(Append(below, g)) >= 3
          /\ outcome' = outcome /\ raised' \subseteq Payloads
      BY <1>2, <1>3, <3>6 DEF IInv
    <3>. QED
      BY <3>4, <3>6, <3>7, <3>8, RaiseStepInv
  <2>. QED
    BY <2>3, <2>4
<1>. QED
  BY <1>4, <1>5

LEMMA PcallResumeInv ==
  ASSUME IInv, PcallResume
  PROVE  IInv'
<1> DEFINE r == TopFrame.res
           caller == frames[TopIdx - 1]
           below == SubSeq(frames, 1, TopIdx - 2)
<1>1. /\ TopIdx \in Nat /\ TopIdx >= 3 /\ TopIdx <= MaxDepth
      /\ r /= NoRes
      /\ caller \in Frames /\ FrameOK(frames, TopIdx - 1)
  BY TopFacts DEF PcallResume
<1>2. /\ r \in Results
      /\ r.st = "ok" => NoPanic(r.vals)
      /\ r.st /= "ok" => Len(r.vals) = 1 /\ r.vals[1] \in Values
  BY <1>1, PendingResult
<1>3. outcome' = outcome /\ raised' \subseteq Payloads
  BY DEF PcallResume, IInv
<1>4. CASE r.st /= "ok" /\ IsWrappedPanic(r.vals[1])
  <2>1. Raise(frames, r.vals[1])
    BY <1>4 DEF PcallResume
  <2>2. FramesInv(frames) /\ Len(frames) >= 3 /\ Len(frames) <= MaxDepth
    BY <1>1 DEF IInv, TopIdx
  <2>. QED
    BY <1>2, <1>3, <1>4, <2>1, <2>2, RaiseStepInv
<1>5. CASE ~(r.st /= "ok" /\ IsWrappedPanic(r.vals[1]))
  <2> DEFINE t == (caller.stk \o <<Bool(r.st = "ok")>>) \o r.vals
  <2>1. r.vals \in Seq(Values) /\ NoPanic(r.vals)
    <3>1. r.vals \in Seq(Values)
      BY <1>2 DEF Results
    <3>2. CASE r.st = "ok"
      BY <1>2, <3>1, <3>2
    <3>3. CASE r.st /= "ok"
      <4>1. DOMAIN r.vals = 1..1 /\ ~IsWrappedPanic(r.vals[1])
        BY <1>2, <1>5, <3>1, <3>3, LenProperties
      <4>. QED
        BY <3>1, <4>1 DEF NoPanic
    <3>. QED
      BY <3>2, <3>3
  <2>2. <<Bool(r.st = "ok")>> \in Seq(Values) /\ NoPanic(<<Bool(r.st = "ok")>>)
    <3>1. (r.st = "ok") \in BOOLEAN
      OBVIOUS
    <3>2. Bool(r.st = "ok") \in Values /\ ~IsWrappedPanic(Bool(r.st = "ok"))
      BY <3>1, ValueFacts
    <3>. QED
      BY <3>2 DEF NoPanic
  <2>3. caller.stk \in Seq(Values) /\ (caller.kind = "lua" => NoPanic(caller.stk))
    BY <1>1 DEF Frames, FrameOK
  <2>4. caller.stk \o <<Bool(r.st = "ok")>> \in Seq(Values)
        /\ t \in Seq(Values)
    BY <2>1, <2>2, <2>3, ConcatProperties
  <2>5. caller.kind = "lua" => NoPanic(t)
    BY <2>1, <2>2, <2>3, <2>4, NoPanicConcat
  <2>6. PICK g : g = [caller EXCEPT !.stk = t]
    OBVIOUS
  <2>7. /\ g \in Frames /\ g.kind = caller.kind /\ g.tag = caller.tag
        /\ g.bnd = caller.bnd /\ g.res = caller.res /\ g.stk = t
    BY <1>1, <2>4, <2>6, FrameStk, Zenon
  <2>8. frames' = Append(below, g)
    BY <1>5, <2>6, Zenon DEF PcallResume
  <2>9. ResOK(g.res) /\ (g.kind = "lua" => NoPanic(g.stk))
    BY <1>1, <2>5, <2>7 DEF FrameOK
  <2>10. /\ FramesInv(Append(below, g))
         /\ Len(Append(below, g)) <= MaxDepth
    <3>1. TopIdx >= 2
      BY <1>1
    <3>. QED
      BY <3>1, <2>7, <2>9, ReturnToCaller, Zenon
  <2>. QED
    BY <1>3, <2>8, <2>10 DEF IInv
<1>. QED
  BY <1>4, <1>5

-----------------------------------------------------------------------------
(* IInv is inductive: every step of Next, and every stutter, keeps it.     *)
LEMMA IInvStep == IInv /\ [Next]_vars => IInv'
<1> SUFFICES ASSUME IInv, [Next]_vars PROVE IInv'
  OBVIOUS
<1>1. CASE \E tag \in {"tb", "plain"} : HostCall(tag) \/ RustCallLua(tag)
  <2>1. PICK tag \in {"tb", "plain"} : HostCall(tag) \/ RustCallLua(tag)
    BY <1>1
  <2>. QED
    BY <2>1, HostCallInv, RustCallLuaInv
<1>2. CASE \E m \in Msgs : HostLoadFails(m)
  BY <1>2, HostLoadFailsInv
<1>3. CASE HostNext
  BY <1>3, HostNextInv
<1>4. CASE ProtocolStep
  BY <1>4, HostResumeInv, RustResumeInv, PcallResumeInv DEF ProtocolStep
<1>5. CASE \E vals \in {<<>>} \cup {<<v>> : v \in ScriptValues} : RustReturnOk(vals)
  BY <1>5, RustReturnOkInv
<1>6. CASE \E e \in OwnErrors \cup {TopFrame.got} : RustReturnErr(e)
  BY <1>6, RustReturnErrInv
<1>7. CASE \E p \in Payloads : RustPanic(p)
  BY <1>7, RustPanicInv
<1>8. CASE \E tag \in {"cb", "rcb"} : ScriptCall(tag)
  BY <1>8, ScriptCallInv
<1>9. CASE \E kind \in {"pcall", "xpcall"} : ScriptPcall(kind) \/ ScriptPcallNoArgs(kind)
  <2>1. PICK kind \in {"pcall", "xpcall"} : ScriptPcall(kind) \/ ScriptPcallNoArgs(kind)
    BY <1>9
  <2>. QED
    BY <2>1, ScriptPcallInv, ScriptPcallNoArgsInv
<1>10. CASE \E v \in ScriptValues \cup {TopFrame.stk[i] : i \in DOMAIN TopFrame.stk} :
              ScriptRaise(v)
  BY <1>10, ScriptRaiseInv
<1>11. CASE \E i \in DOMAIN TopFrame.stk : ScriptToString(i)
  BY <1>11, ScriptToStringInv
<1>12. CASE ScriptReturn
  BY <1>12, ScriptReturnInv
<1>13. CASE UNCHANGED vars
  BY <1>13 DEF IInv, vars
<1>. QED
  BY <1>1, <1>2, <1>3, <1>4, <1>5, <1>6, <1>7, <1>8, <1>9, <1>10, <1>11,
     <1>12, <1>13 DEF Next

(* IInv gives the type invariant and panic opacity.                        *)
LEMMA IInvImplies == IInv => TypeOK /\ PanicNeverScriptVisible
<1> SUFFICES ASSUME IInv PROVE TypeOK /\ PanicNeverScriptVisible
  OBVIOUS
<1>1. TypeOK
  BY DEF IInv, FramesInv, TypeOK
<1>2. PanicNeverScriptVisible
  <2> SUFFICES ASSUME NEW i \in 1..Len(frames), frames[i].kind = "lua"
               PROVE  \A j \in DOMAIN frames[i].stk : ~IsWrappedPanic(frames[i].stk[j])
    BY DEF PanicNeverScriptVisible
  <2>1. FrameOK(frames, i)
    BY DEF IInv, FramesInv
  <2>. QED
    BY <2>1 DEF FrameOK, NoPanic
<1>. QED
  BY <1>1, <1>2

(* The type invariant of the error protocol holds for every set of         *)
(* messages and payloads and every depth bound: frames, outcomes and the   *)
(* values the trampolines, error_traceback and pop_error build are always  *)
(* of the model's types.                                                   *)
THEOREM ProtocolTypeCorrect == Spec => []TypeOK
BY InitInv, IInvStep, IInvImplies, PTL DEF Spec

(* Panic opacity (PanicNeverScriptVisible) for every value of the          *)
(* constants: however callbacks, scripts, safe_pcall and safe_xpcall nest, *)
(* no script frame or user message handler ever holds a WrappedPanic,      *)
(* because safe_pcall / safe_xpcall re-raise it, xpcall_msgh passes it by  *)
(* and error_traceback returns it unchanged.                               *)
THEOREM PanicOpacity == Spec => []PanicNeverScriptVisible
BY InitInv, IInvStep, IInvImplies, PTL DEF Spec
====
