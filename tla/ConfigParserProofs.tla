------------------------ MODULE ConfigParserProofs ------------------------
(***************************************************************************)
(* Proof that the parser never stores a directive in a block that is not   *)
(* open, whatever the file.                                                *)
(***************************************************************************)
EXTENDS ConfigParser, TLAPS

Fields == {"bracket_no", "isServer", "isLocation", "isLimitExcept", "block_id", "directive",
           "no_para", "ptr", "parsing_buffer", "listen_socket", "serverinfo", "location",
           "servers", "failed"}

\* Why it holds: block_id is location_ without an open location only between the
\* end of a location and the next keyword, and no brace can be opened there.
Blocks(p) ==
    /\ p.bracket_no \in 0 .. 3
    /\ p.bracket_no > 0 => p.isServer
    /\ p.bracket_no = 2 => p.isLocation \/ p.isLimitExcept
    /\ p.bracket_no = 3 => p.isLocation /\ p.isLimitExcept
    /\ p.block_id = "location_" /\ ~p.isLocation => p.bracket_no = 1 /\ ~p.isLimitExcept

\* The block that a pending directive is for is open.
Pending(p) ==
    p.directive # Unset =>
      \/ p.ptr = "location" /\ p.isLocation /\ p.bracket_no >= 2
      \/ p.ptr = "serverinfo" /\ p.bracket_no >= 1

Good(p) == /\ DOMAIN p = Fields
           /\ ~p.failed => Blocks(p) /\ Pending(p)

\* Two images that differ in data only.
SameBlocks(p, q) ==
    /\ DOMAIN q = DOMAIN p
    /\ q.bracket_no = p.bracket_no /\ q.isServer = p.isServer /\ q.isLocation = p.isLocation
    /\ q.isLimitExcept = p.isLimitExcept /\ q.block_id = p.block_id
    /\ q.directive \in {p.directive, Unset} /\ q.ptr = p.ptr

LEMMA SameBlocksGood ==
  ASSUME NEW p, NEW q, Good(p), ~p.failed, SameBlocks(p, q)
  PROVE  Good(q)
BY DEF Good, SameBlocks, Blocks, Pending

LEMMA FailGood ==
  ASSUME NEW p, DOMAIN p = Fields
  PROVE  Good(Fail(p))
BY DEF Good, Fail, Fields

LEMMA SetSame ==
  ASSUME NEW p, DOMAIN p = Fields, NEW field, NEW value
  PROVE  SameBlocks(p, Set(p, field, value))
BY DEF Set, SameBlocks, Fields

LEMMA OpenGood ==
  ASSUME NEW p, Good(p), ~p.failed, p.directive = Unset
  PROVE  Good(Open(p))
<1>1. CASE MayOpen(p)
  BY <1>1 DEF Open, MayOpen, Good, Blocks, Pending, Fields
<1>2. CASE ~MayOpen(p)
  BY <1>2, FailGood DEF Open, Good
<1> QED BY <1>1, <1>2

LEMMA CloseGood ==
  ASSUME NEW p, Good(p), ~p.failed, p.directive = Unset
  PROVE  Good(Close(p))
<1> DEFINE a == p.bracket_no = 3 /\ p.isServer /\ p.isLocation /\ p.isLimitExcept
           b == p.bracket_no = 2 /\ p.isServer /\ p.isLimitExcept
           c == p.bracket_no = 2 /\ p.isServer /\ p.isLocation /\ ~p.isLimitExcept
           d == p.bracket_no = 1 /\ p.isServer /\ ~p.isLocation /\ ~p.isLimitExcept
<1>1. CASE a
  <2>1. Close(p) = CloseLimitExcept(p, "location_")
    BY <1>1 DEF Close
  <2> QED BY <1>1, <2>1 DEF CloseLimitExcept, Good, Blocks, Pending, Fields
<1>2. CASE b
  <2>1. Close(p) = CloseLimitExcept(p, "server_")
    BY <1>2 DEF Close
  <2> QED BY <1>2, <2>1 DEF CloseLimitExcept, Good, Blocks, Pending, Fields
<1>3. CASE c
  <2>1. Close(p) = CloseLocation(p)
    BY <1>3 DEF Close
  <2> QED BY <1>3, <2>1 DEF CloseLocation, Good, Blocks, Pending, Fields
<1>4. CASE d
  <2>1. Close(p) = CloseServer(p)
    BY <1>4 DEF Close
  <2> QED BY <1>4, <2>1 DEF CloseServer, Good, Blocks, Pending, Fields
<1>5. CASE ~a /\ ~b /\ ~c /\ ~d
  <2>1. Close(p) = Fail(p)
    BY <1>5 DEF Close
  <2> QED BY <2>1, FailGood DEF Good
<1> QED BY <1>1, <1>2, <1>3, <1>4, <1>5

LEMMA KeywordGood ==
  ASSUME NEW p, Good(p), ~p.failed, p.directive = Unset,
         NEW t \in {"server", "location", "limit_except"}
  PROVE  Good(Keyword(p, t))
<1>1. CASE t = "server"
  <2>1. Keyword(p, t) = [p EXCEPT !.isServer = TRUE, !.block_id = "server_"]
    BY <1>1 DEF Keyword
  <2> QED BY <2>1 DEF Good, Blocks, Pending, Fields
<1>2. CASE t = "location"
  <2>1. Keyword(p, t) = [p EXCEPT !.isLocation = TRUE, !.block_id = "location_"]
    BY <1>2 DEF Keyword
  <2> QED BY <2>1 DEF Good, Blocks, Pending, Fields
<1>3. CASE t = "limit_except"
  <2>1. Keyword(p, t) = [p EXCEPT !.isLimitExcept = TRUE, !.block_id = "limitexcept_"]
    BY <1>3 DEF Keyword
  <2> QED BY <2>1 DEF Good, Blocks, Pending, Fields
<1> QED BY <1>1, <1>2, <1>3

\* A directive is begun for a block that is open.
LEMMA BeginGood ==
  ASSUME NEW p, Good(p), ~p.failed, NEW t, NEW known, NEW block,
         \/ block = "location" /\ p.isLocation /\ p.bracket_no >= 2
         \/ block = "serverinfo" /\ p.bracket_no >= 1
  PROVE  Good(Begin(p, t, known, block))
<1>1. CASE t \in known
  BY <1>1 DEF Begin, Good, Blocks, Pending, Fields
<1>2. CASE t \notin known
  BY <1>2, FailGood DEF Begin, Good
<1> QED BY <1>1, <1>2

LEMMA MethodGood ==
  ASSUME NEW p, Good(p), ~p.failed, p.directive = Unset, NEW t, NEW block
  PROVE  Good(Method(p, t, block))
<1>1. CASE t \in Methods
  <2> DEFINE q == [p EXCEPT !.ptr = block]
  <2>1. Good(q) /\ ~q.failed
    BY DEF Good, Blocks, Pending, Fields
  <2>2. \E value : Method(p, t, block) = Set(q, "methods", value)
    BY <1>1 DEF Method
  <2> HIDE DEF q
  <2> QED BY <2>1, <2>2, SetSame, SameBlocksGood DEF Good
<1>2. CASE t \notin Methods
  BY <1>2, FailGood DEF Method, Good
<1> QED BY <1>1, <1>2

LEMMA LocationTokenGood ==
  ASSUME NEW p, Good(p), ~p.failed, p.directive = Unset, p.block_id = "location_", NEW t
  PROVE  Good(LocationToken(p, t))
<1>1. CASE p.bracket_no = 1
  <2>1. CASE p.location.path # Unset
    BY <1>1, <2>1, FailGood DEF LocationToken, Good
  <2>2. CASE p.location.path = Unset
    <3>1. LocationToken(p, t) = [p EXCEPT !.location.path = t]
      BY <1>1, <2>2 DEF LocationToken
    <3> QED BY <3>1 DEF Good, Blocks, Pending, Fields
  <2> QED BY <2>1, <2>2
<1>2. CASE p.bracket_no = 2 /\ p.location.path # Unset
  <2>1. p.isLocation
    BY <1>2 DEF Good, Blocks
  <2>2. LocationToken(p, t) = Begin(p, t, LocationDirectives, "location")
    BY <1>2 DEF LocationToken
  <2> QED BY <1>2, <2>1, <2>2, BeginGood
<1>3. CASE p.bracket_no # 1 /\ ~(p.bracket_no = 2 /\ p.location.path # Unset)
  <2>1. LocationToken(p, t) = Fail(p)
    BY <1>3 DEF LocationToken
  <2> QED BY <2>1, FailGood DEF Good
<1> QED BY <1>1, <1>2, <1>3

LEMMA LimitExceptTokenGood ==
  ASSUME NEW p, Good(p), ~p.failed, p.directive = Unset, NEW t
  PROVE  Good(LimitExceptToken(p, t))
<1> DEFINE a == p.isLocation /\ p.bracket_no = 2
           b == p.isServer /\ p.bracket_no = 1
           c == p.isLocation /\ p.bracket_no = 3
           d == p.isServer /\ ~p.isLocation /\ p.bracket_no = 2
<1>1. CASE a
  <2>1. LimitExceptToken(p, t) = Method(p, t, "location")
    BY <1>1 DEF LimitExceptToken
  <2> QED BY <2>1, MethodGood
<1>2. CASE b
  <2>1. LimitExceptToken(p, t) = Method(p, t, "serverinfo")
    BY <1>2 DEF LimitExceptToken
  <2> QED BY <2>1, MethodGood
<1>3. CASE c
  <2>1. \/ LimitExceptToken(p, t) = Fail(p)
        \/ LimitExceptToken(p, t) = Begin(p, t, LimitDirectives, "location")
    BY <1>3 DEF LimitExceptToken
  <2> QED BY <1>3, <2>1, FailGood, BeginGood DEF Good
<1>4. CASE d
  <2>1. \/ LimitExceptToken(p, t) = Fail(p)
        \/ LimitExceptToken(p, t) = Begin(p, t, LimitDirectives, "serverinfo")
    BY <1>4 DEF LimitExceptToken
  <2> QED BY <1>4, <2>1, FailGood, BeginGood DEF Good
<1>5. CASE ~a /\ ~b /\ ~c /\ ~d
  <2>1. LimitExceptToken(p, t) = Fail(p)
    BY <1>5 DEF LimitExceptToken
  <2> QED BY <2>1, FailGood DEF Good
<1> QED BY <1>1, <1>2, <1>3, <1>4, <1>5

LEMMA TokenGood ==
  ASSUME NEW p, Good(p), ~p.failed, p.directive = Unset, NEW t
  PROVE  Good(Token(p, t))
<1> DEFINE keyword == t \in {"server", "location", "limit_except"}
           other == t \notin {"nl", "{", "}"} /\ ~keyword
<1>1. CASE t = "nl"
  BY <1>1 DEF Token
<1>2. CASE t = "{"
  BY <1>2, OpenGood DEF Token
<1>3. CASE t = "}"
  BY <1>3, CloseGood DEF Token
<1>4. CASE keyword
  <2>1. Token(p, t) = Keyword(p, t)
    BY <1>4 DEF Token
  <2> QED BY <1>4, <2>1, KeywordGood
<1>5. CASE other /\ p.block_id = "server_" /\ p.bracket_no = 1
  <2>1. Token(p, t) = Begin(p, t, ServerDirectives, "serverinfo")
    BY <1>5 DEF Token
  <2>2. p.bracket_no = 1
    BY <1>5, Zenon
  <2>3. p.bracket_no >= 1
    BY <2>2
  <2> QED BY <2>1, <2>3, BeginGood
<1>6. CASE other /\ p.block_id = "location_"
  <2>1. Token(p, t) = LocationToken(p, t)
    BY <1>6 DEF Token
  <2> QED BY <1>6, <2>1, LocationTokenGood
<1>7. CASE other /\ p.block_id = "limitexcept_"
  <2>1. Token(p, t) = LimitExceptToken(p, t)
    BY <1>7 DEF Token
  <2> QED BY <2>1, LimitExceptTokenGood
<1>8. CASE /\ other /\ ~(p.block_id = "server_" /\ p.bracket_no = 1)
           /\ p.block_id # "location_" /\ p.block_id # "limitexcept_"
  <2>1. Token(p, t) = Fail(p)
    BY <1>8 DEF Token
  <2> QED BY <2>1, FailGood DEF Good
<1> QED BY <1>1, <1>2, <1>3, <1>4, <1>5, <1>6, <1>7, <1>8

\* A parameter changes data only, or is refused.
LEMMA ReturnGood ==
  ASSUME NEW p, Good(p), ~p.failed, NEW t
  PROVE  Good(Return(p, t))
<1> DEFINE redirect == [p EXCEPT !.location.code = "302", !.location.uri = t]
           code == [p EXCEPT !.location.code = t]
           uri == [p EXCEPT !.location.uri = t]
<1>1. SameBlocks(p, redirect) /\ SameBlocks(p, code) /\ SameBlocks(p, uri)
  BY DEF Good, SameBlocks, Fields
<1>2. Return(p, t) \in {Fail(p), redirect, code, uri}
  BY DEF Return
<1> HIDE DEF redirect, code, uri
<1> QED BY <1>1, <1>2, FailGood, SameBlocksGood DEF Good

LEMMA ProcessGood ==
  ASSUME NEW p, Good(p), ~p.failed, NEW t
  PROVE  Good(Process(p, t))
<1> DEFINE buffer == [p EXCEPT !.parsing_buffer = t]
           listen == [p EXCEPT !.listen_socket = Append(@, t)]
           alias == [p EXCEPT !.location.info.root = t, !.location.info.alias = TRUE]
<1>1. SameBlocks(p, buffer) /\ SameBlocks(p, listen) /\ SameBlocks(p, alias)
  BY DEF Good, SameBlocks, Fields
<1>2. \/ \E field, value : Process(p, t) = Set(p, field, value)
      \/ Process(p, t) = Return(p, t)
      \/ Process(p, t) \in {p, Fail(p), buffer, listen, alias}
  BY DEF Process, Listen
<1> HIDE DEF buffer, listen, alias
<1> QED BY <1>1, <1>2, FailGood, SetSame, ReturnGood, SameBlocksGood DEF Good

LEMMA EndDirectiveGood ==
  ASSUME NEW p, Good(p), ~p.failed
  PROVE  Good(EndDirective(p))
<1> DEFINE over == [p EXCEPT !.directive = Unset, !.no_para = 0]
           stored == [over EXCEPT !.serverinfo.listen = Append(@, p.listen_socket),
                                  !.listen_socket = <<>>]
<1>1. SameBlocks(p, over) /\ SameBlocks(p, stored)
  BY DEF Good, SameBlocks, Fields
<1>2. EndDirective(p) \in {Fail(p), over, stored}
  BY DEF EndDirective
<1> HIDE DEF over, stored
<1> QED BY <1>1, <1>2, FailGood, SameBlocksGood DEF Good

LEMMA DirectiveGood ==
  ASSUME NEW p, Good(p), ~p.failed, NEW t
  PROVE  Good(Directive(p, t))
<1> DEFINE q == [p EXCEPT !.no_para = @ + 1]
<1>1. SameBlocks(p, q) /\ q.failed = p.failed
  BY DEF Good, SameBlocks, Fields
<1>2. Directive(p, t) \in {Fail(p), EndDirective(p), Process(q, t)}
  BY DEF Directive
<1> HIDE DEF q
<1>3. Good(q) /\ ~q.failed
  BY <1>1, SameBlocksGood
<1> QED BY <1>2, <1>3, FailGood, EndDirectiveGood, ProcessGood DEF Good

IInv == Good(parser)

LEMMA InitGood == Init => IInv
BY DEF Init, IInv, Start, Good, Blocks, Pending, Fields

LEMMA NextGood == IInv /\ [Next]_vars => IInv'
<1> SUFFICES ASSUME IInv, [Next]_vars PROVE IInv'
  OBVIOUS
<1>1. CASE Read
  BY <1>1, TokenGood, DirectiveGood DEF Read, IInv
<1>2. CASE EndOfFile
  <2>1. parser' = Fail(parser) \/ parser' = parser
    BY <1>2 DEF EndOfFile
  <2> QED BY <2>1, FailGood DEF IInv, Good
<1>3. CASE UNCHANGED vars
  BY <1>3 DEF vars, IInv
<1> QED BY <1>1, <1>2, <1>3 DEF Next

\* Whatever the file is, while it is read a pending directive belongs to a
\* block that is open, and flags and braces agree.
THEOREM BlocksAlwaysAgree == Spec => []BlocksAgree
<1>1. IInv => BlocksAgree
  BY DEF IInv, Good, Blocks, Pending, BlocksAgree, Fields
<1> QED BY <1>1, InitGood, NextGood, PTL DEF Spec
=============================================================================
