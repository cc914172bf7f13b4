----------------------------- MODULE MCVerdicts -----------------------------
EXTENDS Verdicts

MCMaxInner == 1

Call(sel, party, amount) ==
    [NoCall EXCEPT !.sel = sel, !.party = party, !.amount = amount]

Grants == {Call(sel, party, amount) :
              sel \in Permissive \cup {"setApprovalForAll"},
              party \in {Permit2, Safe, Morpho, Usdc, Shop, Dirty}, amount \in Zero..Top255}
Moves == {Call("transfer", party, Some) : party \in {Peer, Shady, Dirty}}
         \cup {[Call("transferFrom", party, Some) EXCEPT !.from = from] :
                  party \in {Peer, Shady}, from \in {None, Dirty}}
OtherCalls == {Call("transferOwnership", Peer, Zero), Call("upgradeTo", Dirty, Zero),
               Call("decreaseAllowance", Shop, Some), Call("decreaseAllowance", Dirty, Some),
               Call("unlisted", None, Zero), Call("execTransaction", None, Zero)}
OddCall == [Call("approve", Shop, Some) EXCEPT !.words = "odd"]
ShortCalls == {[Call(sel, Shop, Some) EXCEPT !.words = "other"] : sel \in {"approve", "permit", "transfer"}}

MCCalls == Grants \cup Moves \cup OtherCalls \cup ShortCalls

Inner(op, value, data, call) == [op |-> op, value |-> value, to |-> Shop, data |-> data, call |-> call]
Batches == {[bytes |-> "bad", calls |-> <<>>],
            [bytes |-> "parse", calls |-> <<Inner("call", 0, "call", Call("approve", Shop, Some))>>],
            [bytes |-> "parse", calls |-> <<Inner("delegatecall", 0, "call", Call("approve", Morpho, Some)),
                                            Inner("call", 2, "none", NoCall)>>],
            [bytes |-> "parse", calls |-> <<Inner("call", 0, "short", NoCall),
                                            Inner("call", 0, "call", Call("approve", Shop, Top255))>>]}

MCContracts == Addresses \ {Peer, Shady}

MCRequests ==
    {[EmptyRequest EXCEPT !.call = c, !.to = Shop] : c \in MCCalls \cup {OddCall}}
    \cup {[EmptyRequest EXCEPT !.call = c, !.to = to, !.value = 2, !.provider = p] :
            c \in Moves \cup {Call("approve", Shop, Top255), Call("approve", Morpho, Some)},
            to \in {None, Permit2, Shady}, p \in {None, "layerzero"}}
    \cup {[EmptyRequest EXCEPT !.call = Call("multiSend", None, Zero), !.batch = b] : b \in Batches}
    \cup {[EmptyRequest EXCEPT !.to = to, !.value = v, !.category = c, !.inputType = i] :
            to \in {None, Peer, Shady, Safe, FeedCache, Shop, Invalid}, v \in {0, 2, 30},
            c \in {None, "cross_chain", "oracle", "gaming"}, i \in {None, "contract", "policy_question", "native_transfer"}}
    \cup {[EmptyRequest EXCEPT !.address = a] : a \in Addresses \cup {Invalid}}
    \cup {[EmptyRequest EXCEPT !.url = u, !.payment = p, !.payTo = a] :
            u \in {None, "private", "public"}, p \in {0, 4, 12, 30}, a \in {None, Peer, Invalid}}
    \cup {[EmptyRequest EXCEPT !.hash = h, !.inputType = i] :
            h \in {None, "good", "bad"}, i \in {None, "tx"}}
    \cup {[EmptyRequest EXCEPT !.text = t, !.to = Shady] : t \in {None, "policy_question"}}

MCOverrides ==
    {NoOverride,
     [NoOverride EXCEPT !.preset = "strict", !.trusted = {Peer, Shop}],
     [NoOverride EXCEPT !.limits = [native |-> 0, approval |-> 0, x402 |-> 2]],
     [NoOverride EXCEPT !.limits = [native |-> 1, approval |-> 1, x402 |-> 1]],
     [NoOverride EXCEPT !.preset = "agent", !.limits = [native |-> 200, approval |-> 200, x402 |-> 200]],
     [NoOverride EXCEPT !.preset = "unlisted", !.on = Switches]}

-----------------------------------------------------------------------------

Fresh == [NoFacts EXCEPT !.fresh = TRUE, !.empty = TRUE]
Code == [NoFacts EXCEPT !.code = TRUE]
TokenCode == [Code EXCEPT !.token = TRUE]

MCBaseFacts == [a \in Addresses |-> CASE a \in {Peer} -> NoFacts
                                      [] a = Shady -> [Fresh EXCEPT !.flags = 80]
                                      [] a = Usdc -> TokenCode
                                      [] OTHER -> Code]

MCShopFacts ==
    {NoFacts, Code, TokenCode,
     [Code EXCEPT !.copy = TRUE],
     [Code EXCEPT !.copy = TRUE, !.proxy = "broken", !.small = TRUE],
     [Code EXCEPT !.holds = {FeedCache}],
     [Code EXCEPT !.proxy = "recognized", !.holds = {Usdc, CreateX}],
     [TokenCode EXCEPT !.claims = TRUE],
     [TokenCode EXCEPT !.perm = "paused", !.proxy = "plain", !.flags = 40],
     [TokenCode EXCEPT !.perm = "erc3643", !.extra = 20]}

MCRpcChains ==
    {[primary |-> Pacific, fallback |-> Pacific], [primary |-> Pacific, fallback |-> Atlantic],
     [primary |-> Atlantic, fallback |-> Pacific]}

FewCalls == {NoCall, Call("approve", Shop, Top255), Call("transfer", Shady, Some),
             Call("unlisted", None, Zero)}

MCCommands ==
    {[EmptyCommand EXCEPT !.action = s, !.at = a] : s \in {"wallet", "contract"},
        a \in {Peer, Shady, Shop, Morpho, Usdc, "nowhere"}}
    \cup {[EmptyCommand EXCEPT !.action = s, !.at = Shop] : s \in {"vault", "pool"}}
    \cup {[EmptyCommand EXCEPT !.action = "transfer", !.wallet = Peer, !.payTo = to,
                               !.amount = amount, !.call = c] :
            to \in {Peer, Shady, Shop, None}, amount \in {"none", "small", "most", "over", "bad"},
            c \in FewCalls}
    \cup {[EmptyCommand EXCEPT !.action = "swap", !.wallet = Shady, !.token = t, !.tokenOut = Shop,
                               !.call = c] : t \in {Usdc, Shop}, c \in FewCalls}
    \cup {[EmptyCommand EXCEPT !.action = a, !.wallet = w, !.token = t, !.target = g, !.call = c,
                               !.goodTx = good] :
            a \in {"vault_deposit", "tokenized_asset"}, w \in {Peer}, t \in {None, Shop},
            g \in {None, Peer, Shop, Morpho}, c \in {NoCall, Call("approve", Shop, Top255)},
            good \in BOOLEAN}
    \cup {[EmptyCommand EXCEPT !.action = "staking", !.wallet = Peer, !.target = Morpho,
                               !.call = Call("multiSend", None, Zero), !.batch = b] : b \in Batches}
    \cup {[EmptyCommand EXCEPT !.action = "x402_payment", !.payTo = to, !.hasUrl = u # {}, !.url = u \ {"https"}] :
            to \in {None, Shady},
            u \in {{}, {"https"}, {"malformed"}, {"https", "port", "long"}, {"http", "ipLiteral", "private"}}}
    \cup {[EmptyCommand EXCEPT !.action = a, !.pacific = FALSE] : a \in {"wallet", "unlisted"}}

-----------------------------------------------------------------------------

MCAssessments ==
    {[NoAssessment EXCEPT !.to = to, !.funds = funds] :
        to \in DOMAIN Unprobed \cup DOMAIN Recipients,
        funds \in {"enough", "most", "short", "gasless"}}
    \cup {[NoAssessment EXCEPT !.action = Swap, !.router = router, !.impact = impact, !.funds = funds] :
            router \in {None, Morpho, PriceFeed, Shop}, impact \in {0, 3, 6, NoRoute},
            funds \in {"enough", "short"}}

=============================================================================
