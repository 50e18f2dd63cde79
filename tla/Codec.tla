------------------------------- MODULE Codec -------------------------------
(***************************************************************************)
(* The encodings of go-perun: every message of the wire protocol with the  *)
(* types it carries (states, parameters, allocations, transactions), as    *)
(* written by the Encode and read by the Decode methods.                   *)
(*                                                                         *)
(* The stream is a sequence of tokens <<width, value>>, one per primitive  *)
(* value perunio.Encode writes.  A token carries no tag that says what it  *)
(* is: a decoder that is out of step reads a value of the same width as    *)
(* something else, and fails on a token of another width (the bytes would  *)
(* be cut at the wrong place).  An encoder yields the tokens it wrote and  *)
(* whether it failed; on failure the tokens before it stay written.        *)
(*                                                                         *)
(* The module declares RECURSIVE operators (a decoder of nested values),   *)
(* so it is model-checked only.                                            *)
(***************************************************************************)
EXTENDS Allocs, FiniteSets, FiniteSetsExt, TLC

CONSTANTS
  MaxBigIntLength,  \* bytes of the longest big.Int
  SliceMod,         \* lengths are written as uint16: modulo 2^16
  StateApps,        \* app definitions the receiver's registry resolves
  DataApps          \* those among them whose states carry data

-----------------------------------------------------------------------------
(* pkg/io: primitive values *)

Written(toks) == [out |-> toks, err |-> FALSE]
Failed == [out |-> <<>>, err |-> TRUE]

\* perunio.Encode: the values in order, up to the first that fails.
EncodeAll(es) ==
  LET bad  == {i \in DOMAIN es : es[i].err}
      last == IF bad = {} THEN Len(es) ELSE Min(bad)
  IN [out |-> FlattenSeq([i \in 1..last |-> es[i].out]), err |-> bad # {}]

U8(v)   == Written(<<<<"1", v>>>>)
U16(v)  == Written(<<<<"2", v % SliceMod>>>>)
U64(v)  == Written(<<<<"8", v>>>>)
B32(v)  == Written(<<<<"32", v>>>>)
Addr(v) == Written(<<<<"addr", v>>>>)
SigEnc(v) == Written(<<<<"sig", v>>>>)
Bool(b) == U8(IF b THEN 1 ELSE 0)

\* The bytes of a big.Int; small numbers stand for long ones.
ByteLen(v) == IF v = 0 THEN 0 ELSE IF v < 256 THEN 1 ELSE 2

BigIntEnc(v) ==
  IF ByteLen(v) > MaxBigIntLength THEN Failed
  ELSE Written(<<<<"1", ByteLen(v)>>>>
               \o IF v = 0 THEN <<>> ELSE <<<<"bytes", v>>>>)

\* A string is modelled by its length.
encodeString(n) ==
  IF n >= SliceMod THEN Failed
  ELSE Written(<<<<"2", n>>>> \o IF n = 0 THEN <<>> ELSE <<<<"chars", n>>>>)

Each(Enc(_), s) == EncodeAll([i \in DOMAIN s |-> Enc(s[i])])
AddressesWithLenEnc(s) == EncodeAll(<<U16(Len(s)), Each(Addr, s)>>)
\* wire.AddressesWithLen: the same for the addresses of peers.
PeersEnc(s) == AddressesWithLenEnc(s)
channelIDsWithLenEnc(s) == EncodeAll(<<U16(Len(s)), Each(B32, s)>>)
indexMapWithLenEnc(s) == EncodeAll(<<U16(Len(s)), Each(U16, s)>>)
indexMapsWithLenEnc(s) ==
  EncodeAll(<<U16(Len(s)), Each(indexMapWithLenEnc, s)>>)

-----------------------------------------------------------------------------
(* channel: apps, allocations, states, parameters, transactions *)

NoApp == "noApp"
NoData == 0
NoSig == "noSig"
NoState == [none |-> TRUE]

OptAppEnc(app) ==
  IF app = NoApp THEN Bool(FALSE) ELSE EncodeAll(<<Bool(TRUE), Addr(app)>>)
\* noApp's and the payment app's data is empty, a MockOp is a uint64.
DataEnc(app, data) == IF app \in DataApps THEN U64(data) ELSE Written(<<>>)
OptAppAndDataEnc(app, data) == EncodeAll(<<OptAppEnc(app), DataEnc(app, data)>>)

\* The width written is that of the first row, whatever the others have.
BalancesEnc(b) ==
  LET numParts == IF b = <<>> THEN 0 ELSE Len(b[1])
      Row(bals) == Each(BigIntEnc, bals)
  IN IF Len(b) > MaxNumAssets \/ numParts > MaxNumParts THEN Failed
     ELSE EncodeAll(<<U16(Len(b)), U16(numParts), Each(Row, b)>>)

SubAllocEnc(l) ==
  IF ~SubAllocValid(l) THEN Failed
  ELSE EncodeAll(<<B32(l.ID), U16(Len(l.Bals)), Each(BigIntEnc, l.Bals),
                   U16(Len(l.IndexMap)), Each(U16, l.IndexMap)>>)

AllocationEnc(a) ==
  IF ~AllocationValid(a) THEN Failed
  ELSE EncodeAll(<<U16(Len(a.Assets)), U16(NumParts(a)), U16(Len(a.Locked)),
                   Each(Addr, a.Assets), BalancesEnc(a.Balances),
                   Each(SubAllocEnc, a.Locked)>>)

StateEnc(s) ==
  EncodeAll(<<B32(s.ID), U64(s.Version), AllocationEnc(s.Allocation),
              Bool(s.IsFinal), OptAppEnc(s.App), DataEnc(s.App, s.Data)>>)

ParamsEnc(p) ==
  EncodeAll(<<U64(p.ChallengeDuration), AddressesWithLenEnc(p.Parts),
              OptAppEnc(p.App), BigIntEnc(p.Nonce), Bool(p.LedgerChannel),
              Bool(p.VirtualChannel)>>)

MaskLen(n) == (n + 7) \div 8

\* One bit per signature that is there, then those signatures.
EncodeSparseSigs(sigs) ==
  LET here(k) == {i \in 8*(k-1)+1 .. Min({8*k, Len(sigs)}) : sigs[i] # NoSig}
      mask(k) == MapThenSumSet(LAMBDA i : 2 ^ ((i-1) % 8), here(k))
      IsSet(sig) == sig # NoSig
  IN EncodeAll(<<EncodeAll([k \in 1..MaskLen(Len(sigs)) |-> U8(mask(k))]),
                 Each(SigEnc, SelectSeq(sigs, IsSet))>>)

TransactionEnc(t) ==
  IF t.State = NoState THEN U8(0)
  ELSE EncodeAll(<<U8(1), StateEnc(t.State), EncodeSparseSigs(t.Sigs)>>)

-----------------------------------------------------------------------------
(* client, wire: the messages *)

BaseChannelProposalEnc(p) ==
  EncodeAll(<<U64(p.ChallengeDuration), B32(p.NonceShare),
              OptAppAndDataEnc(p.App, p.InitData), AllocationEnc(p.InitBals),
              BalancesEnc(p.FundingAgreement)>>)

assertValidNumParts(p) == Len(p.Peers) \in 2..MaxNumParts

LedgerChannelProposalEnc(p) ==
  IF ~assertValidNumParts(p) THEN Failed
  ELSE EncodeAll(<<BaseChannelProposalEnc(p), Addr(p.Participant),
                   PeersEnc(p.Peers)>>)
SubChannelProposalEnc(p) ==
  EncodeAll(<<BaseChannelProposalEnc(p), B32(p.Parent)>>)
VirtualChannelProposalEnc(p) ==
  EncodeAll(<<BaseChannelProposalEnc(p), Addr(p.Proposer),
              PeersEnc(p.Peers), channelIDsWithLenEnc(p.Parents),
              indexMapsWithLenEnc(p.IndexMaps)>>)
BaseChannelProposalAccEnc(a) ==
  EncodeAll(<<B32(a.ProposalID), B32(a.NonceShare)>>)
LedgerChannelProposalAccEnc(a) ==
  EncodeAll(<<BaseChannelProposalAccEnc(a), Addr(a.Participant)>>)
SubChannelProposalAccEnc(a) == BaseChannelProposalAccEnc(a)
VirtualChannelProposalAccEnc(a) ==
  EncodeAll(<<BaseChannelProposalAccEnc(a), Addr(a.Responder)>>)
ChannelProposalRejEnc(r) ==
  EncodeAll(<<B32(r.ProposalID), encodeString(r.Reason)>>)
msgChannelUpdateEnc(m) ==
  EncodeAll(<<StateEnc(m.State), U16(m.ActorIdx), SigEnc(m.Sig)>>)
msgChannelUpdateAccEnc(m) ==
  EncodeAll(<<B32(m.ChannelID), U64(m.Version), SigEnc(m.Sig)>>)
msgChannelUpdateRejEnc(m) ==
  EncodeAll(<<B32(m.ChannelID), U64(m.Version), encodeString(m.Reason)>>)
virtualChannelFundingProposalEnc(m) ==
  EncodeAll(<<msgChannelUpdateEnc(m), ParamsEnc(m.Params),
              StateEnc(m.Initial), indexMapWithLenEnc(m.IndexMap),
              EncodeSparseSigs(m.Sigs)>>)
virtualChannelSettlementProposalEnc(m) ==
  EncodeAll(<<msgChannelUpdateEnc(m), ParamsEnc(m.Params),
              StateEnc(m.Final), EncodeSparseSigs(m.Sigs)>>)
msgChannelSyncEnc(m) ==
  EncodeAll(<<U8(m.Phase), TransactionEnc(m.CurrentTX)>>)
newPingPongMsg(now) == [Created |-> now]
pingPongMsgEnc(m) == U64(m.Created)
ShutdownMsgEnc(m) == encodeString(m.Reason)

\* The message types in the order of their numbers, from 0.
Types == <<"Ping", "Pong", "Shutdown", "AuthResponse",
  "LedgerChannelProposal", "LedgerChannelProposalAcc", "SubChannelProposal",
  "SubChannelProposalAcc", "VirtualChannelProposal",
  "VirtualChannelProposalAcc", "ChannelProposalRej", "ChannelUpdate",
  "VirtualChannelFundingProposal", "VirtualChannelSettlementProposal",
  "ChannelUpdateAcc", "ChannelUpdateRej", "ChannelSync">>
TypeNo(t) == (CHOOSE i \in DOMAIN Types : Types[i] = t) - 1

PayloadEnc(t, m) ==
  CASE t \in {"Ping", "Pong"} -> pingPongMsgEnc(m)
    [] t = "Shutdown" -> ShutdownMsgEnc(m)
    [] t = "AuthResponse" -> Written(<<>>)
    [] t = "LedgerChannelProposal" -> LedgerChannelProposalEnc(m)
    [] t = "LedgerChannelProposalAcc" -> LedgerChannelProposalAccEnc(m)
    [] t = "SubChannelProposal" -> SubChannelProposalEnc(m)
    [] t = "SubChannelProposalAcc" -> SubChannelProposalAccEnc(m)
    [] t = "VirtualChannelProposal" -> VirtualChannelProposalEnc(m)
    [] t = "VirtualChannelProposalAcc" -> VirtualChannelProposalAccEnc(m)
    [] t = "ChannelProposalRej" -> ChannelProposalRejEnc(m)
    [] t = "ChannelUpdate" -> msgChannelUpdateEnc(m)
    [] t = "VirtualChannelFundingProposal" -> virtualChannelFundingProposalEnc(m)
    [] t = "VirtualChannelSettlementProposal" ->
         virtualChannelSettlementProposalEnc(m)
    [] t = "ChannelUpdateAcc" -> msgChannelUpdateAccEnc(m)
    [] t = "ChannelUpdateRej" -> msgChannelUpdateRejEnc(m)
    [] t = "ChannelSync" -> msgChannelSyncEnc(m)

EnvelopeEnc(e) ==
  EncodeAll(<<Addr(e.Sender), Addr(e.Recipient),
              U8(TypeNo(e.Type)), PayloadEnc(e.Type, e.Msg)>>)

-----------------------------------------------------------------------------
(* Decoding.  A result is "ok" with the value and the tokens left, "short"  *)
(* when the stream ends inside a value (the reader waits for more, or sees  *)
(* the end of the stream), or "err".                                        *)

Ok(v, rest) == [st |-> "ok", val |-> v, rest |-> rest]
Bad(st) == [st |-> st, val |-> 0, rest |-> <<>>]
\* Go on with K if r succeeded (the set makes TLC evaluate r once).
Bind(r, K(_)) ==
  CHOOSE z \in {IF x.st = "ok" THEN K(x) ELSE x : x \in {r}} : TRUE
Require(r, b) == IF r.st = "ok" /\ ~b THEN Bad("err") ELSE r

ReadToken(w, s) ==
  IF s = <<>> THEN Bad("short")
  ELSE IF Head(s)[1] # w THEN Bad("err") ELSE Ok(Head(s)[2], Tail(s))

BigIntDec(s) ==
  Bind(ReadToken("1", s), LAMBDA n :
    IF n.val > MaxBigIntLength THEN Bad("err")
    ELSE IF n.val = 0 THEN Ok(0, n.rest)
    ELSE Bind(ReadToken("bytes", n.rest), LAMBDA v :
           IF ByteLen(v.val) = n.val THEN v ELSE Bad("err")))

\* Mutant: an empty string is not an exception.
decodeStringAlways(s) ==
  Bind(ReadToken("2", s), LAMBDA n : ReadToken("chars", n.rest))

decodeString(s) ==
  Bind(ReadToken("2", s), LAMBDA n :
    IF n.val = 0 THEN Ok(0, n.rest)
    ELSE Bind(ReadToken("chars", n.rest), LAMBDA v :
           IF v.val = n.val THEN v ELSE Bad("err")))

\* OptAppDec: only an app the registry resolves can be decoded.
Resolve(def, rest) == IF def \in StateApps THEN Ok(def, rest) ELSE Bad("err")
OptAppDec(s) ==
  Bind(ReadToken("1", s), LAMBDA flag :
    IF flag.val = 0 THEN Ok(NoApp, flag.rest)
    ELSE Bind(ReadToken("addr", flag.rest), LAMBDA a : Resolve(a.val, a.rest)))

DataDec(app, s) ==
  IF app \in DataApps THEN ReadToken("8", s) ELSE Ok(NoData, s)

(* A field is <<name, kind>> or <<name, kind, argument>>; a kind that       *)
(* depends on a field read before names that field in its argument.         *)
AddressesWithLenDec(name) == <<name, "slice", "addr">>
PeersDec(name) == AddressesWithLenDec(name)
channelIDsWithLenDec(name) == <<name, "slice", "32">>
indexMapWithLenDec(name) == <<name, "slice", "2">>
indexMapsWithLenDec(name) == <<name, "slice", "IndexMap">>
SigDec(name) == <<name, "sig">>
OptAppAndDataDec(app, data) == <<<<app, "OptApp">>, <<data, "Data">>>>
StateDec ==
  <<<<"ID", "32">>, <<"Version", "8">>, <<"Allocation", "Allocation">>,
    <<"IsFinal", "bool">>, <<"App", "OptApp">>, <<"Data", "Data">>>>
AllocationDec ==
  <<<<"numAssets", "dim", MaxNumAssets>>, <<"numParts", "dim", MaxNumParts>>,
    <<"numLocked", "dim", MaxNumSubAllocations>>,
    <<"Assets", "many", "numAssets", "addr">>, <<"Balances", "Balances">>,
    <<"Locked", "many", "numLocked", "SubAlloc">>>>
SubAllocDec ==
  <<<<"ID", "32">>, <<"numAssets", "dim", MaxNumAssets>>,
    <<"Bals", "many", "numAssets", "BigInt">>, <<"IndexMap", "slice", "2">>>>
ParamsDec ==
  <<<<"ChallengeDuration", "8">>, AddressesWithLenDec("Parts"),
    <<"App", "OptApp">>, <<"Nonce", "BigInt">>, <<"LedgerChannel", "bool">>,
    <<"VirtualChannel", "bool">>>>
BaseChannelProposalDec ==
  <<<<"ChallengeDuration", "8">>, <<"NonceShare", "32">>>>
    \o OptAppAndDataDec("App", "InitData")
    \o <<<<"InitBals", "Allocation">>, <<"FundingAgreement", "Balances">>>>
LedgerChannelProposalDec ==
  BaseChannelProposalDec \o <<<<"Participant", "addr">>, PeersDec("Peers")>>
SubChannelProposalDec == BaseChannelProposalDec \o <<<<"Parent", "32">>>>
VirtualChannelProposalDec ==
  BaseChannelProposalDec \o
  <<<<"Proposer", "addr">>, PeersDec("Peers"),
    channelIDsWithLenDec("Parents"), indexMapsWithLenDec("IndexMaps")>>
\* Mutant: the fields are read in another order.
BaseAccDecSwapped == <<<<"NonceShare", "32">>, <<"ProposalID", "32">>>>
BaseChannelProposalAccDec == <<<<"ProposalID", "32">>, <<"NonceShare", "32">>>>
LedgerChannelProposalAccDec ==
  BaseChannelProposalAccDec \o <<<<"Participant", "addr">>>>
SubChannelProposalAccDec == BaseChannelProposalAccDec
VirtualChannelProposalAccDec ==
  BaseChannelProposalAccDec \o <<<<"Responder", "addr">>>>
ChannelProposalRejDec == <<<<"ProposalID", "32">>, <<"Reason", "string">>>>
msgChannelUpdateDec ==
  <<<<"State", "State">>, <<"ActorIdx", "2">>, SigDec("Sig")>>
msgChannelUpdateAccDec ==
  <<<<"ChannelID", "32">>, <<"Version", "8">>, SigDec("Sig")>>
msgChannelUpdateRejDec ==
  <<<<"ChannelID", "32">>, <<"Version", "8">>, <<"Reason", "string">>>>
virtualChannelFundingProposalDec ==
  msgChannelUpdateDec \o
  <<<<"Params", "Params">>, <<"Initial", "State">>,
    indexMapWithLenDec("IndexMap"), <<"Sigs", "sparse", "Initial">>>>
virtualChannelSettlementProposalDec ==
  msgChannelUpdateDec \o
  <<<<"Params", "Params">>, <<"Final", "State">>, <<"Sigs", "sparse", "Final">>>>
msgChannelSyncDec == <<<<"Phase", "1">>, <<"CurrentTX", "Transaction">>>>
pingPongMsgDec == <<<<"Created", "8">>>>
ShutdownMsgDec == <<<<"Reason", "string">>>>

\* The registered decoders, as the packages register them.
controlDecoders ==
  [Ping |-> pingPongMsgDec, Pong |-> pingPongMsgDec, Shutdown |-> ShutdownMsgDec]
authDecoders == [AuthResponse |-> <<>>]
proposalDecoders == [
  LedgerChannelProposal |-> LedgerChannelProposalDec,
  LedgerChannelProposalAcc |-> LedgerChannelProposalAccDec,
  SubChannelProposal |-> SubChannelProposalDec,
  SubChannelProposalAcc |-> SubChannelProposalAccDec,
  VirtualChannelProposal |-> VirtualChannelProposalDec,
  VirtualChannelProposalAcc |-> VirtualChannelProposalAccDec,
  ChannelProposalRej |-> ChannelProposalRejDec]
updateDecoders == [
  ChannelUpdate |-> msgChannelUpdateDec,
  VirtualChannelFundingProposal |-> virtualChannelFundingProposalDec,
  VirtualChannelSettlementProposal |-> virtualChannelSettlementProposalDec,
  ChannelUpdateAcc |-> msgChannelUpdateAccDec,
  ChannelUpdateRej |-> msgChannelUpdateRejDec]
syncDecoders == [ChannelSync |-> msgChannelSyncDec]
decoders == controlDecoders @@ authDecoders @@ proposalDecoders
              @@ updateDecoders @@ syncDecoders

\* A type is valid if it has a decoder.
Valid(n) == n < Len(Types) /\ Types[n + 1] \in DOMAIN decoders

\* NewParams, called by Params.Decode (the id is a function of the fields).
ValidateParameters(p) ==
  /\ p.ChallengeDuration # 0
  /\ Len(p.Parts) \in 2..MaxNumParts

RECURSIVE Read(_, _, _), ReadMany(_, _, _), ReadFields(_, _, _),
          ReadSigs(_, _)

\* n values of one kind, one after the other.
ReadMany(n, kind, s) ==
  IF n = 0 THEN Ok(<<>>, s)
  ELSE Bind(Read(<<"item", kind>>, s, <<>>), LAMBDA x :
         Bind(ReadMany(n - 1, kind, x.rest), LAMBDA xs :
           Ok(<<x.val>> \o xs.val, xs.rest)))

\* perunio.Decode: the fields in order.
ReadFields(fs, s, acc) ==
  IF fs = <<>> THEN Ok(acc, s)
  ELSE Bind(Read(Head(fs), s, acc), LAMBDA x :
         ReadFields(Tail(fs), x.rest, acc @@ (Head(fs)[1] :> x.val)))

\* The signatures whose bit is set; bits is a sequence of 0 and 1.
ReadSigs(bits, s) ==
  IF bits = <<>> THEN Ok(<<>>, s)
  ELSE Bind(IF Head(bits) = 0 THEN Ok(NoSig, s) ELSE ReadToken("sig", s),
         LAMBDA x : Bind(ReadSigs(Tail(bits), x.rest), LAMBDA xs :
           Ok(<<x.val>> \o xs.val, xs.rest)))

DecodeSparseSigs(n, s) ==
  Bind(ReadMany(MaskLen(n), "1", s), LAMBDA mask :
    ReadSigs([i \in 1..n |->
      (mask.val[(i-1) \div 8 + 1] \div 2 ^ ((i-1) % 8)) % 2], mask.rest))

BalancesDec(s) ==
  Bind(ReadFields(<<<<"numAssets", "dim", MaxNumAssets>>,
                    <<"numParts", "dim", MaxNumParts>>>>, s, <<>>), LAMBDA d :
    Bind(ReadMany(d.val.numAssets * d.val.numParts, "BigInt", d.rest), LAMBDA v :
      Ok([i \in 1..d.val.numAssets |->
            SubSeq(v.val, (i-1) * d.val.numParts + 1, i * d.val.numParts)],
         v.rest)))

TransactionDec(s) ==
  Bind(ReadToken("1", s), LAMBDA stateSet :
    IF stateSet.val % 2 = 0 THEN Ok([State |-> NoState, Sigs |-> <<>>], stateSet.rest)
    ELSE Bind(Read(<<"State", "State">>, stateSet.rest, <<>>), LAMBDA st :
           Bind(DecodeSparseSigs(NumParts(st.val.Allocation), st.rest), LAMBDA g :
             Ok([State |-> st.val, Sigs |-> g.val], g.rest))))

Read(f, s, acc) ==
  CASE f[2] \in {"1", "2", "8", "32", "addr", "sig"} -> ReadToken(f[2], s)
    [] f[2] = "bool" ->
         Bind(ReadToken("1", s), LAMBDA b : Ok(b.val # 0, b.rest))
    [] f[2] = "dim" ->
         Bind(ReadToken("2", s), LAMBDA d : Require(d, d.val <= f[3]))
    [] f[2] = "BigInt" -> BigIntDec(s)
    [] f[2] = "string" -> decodeString(s)
    [] f[2] = "many" -> ReadMany(acc[f[3]], f[4], s)
    [] f[2] = "slice" ->
         Bind(ReadToken("2", s), LAMBDA n : ReadMany(n.val, f[3], n.rest))
    [] f[2] = "IndexMap" ->
         Bind(ReadToken("2", s), LAMBDA n : ReadMany(n.val, "2", n.rest))
    [] f[2] = "sparse" -> DecodeSparseSigs(NumParts(acc[f[3]].Allocation), s)
    [] f[2] = "OptApp" -> OptAppDec(s)
    [] f[2] = "Data" -> DataDec(acc.App, s)
    [] f[2] = "Balances" -> BalancesDec(s)
    [] f[2] = "SubAlloc" ->
         Bind(ReadFields(SubAllocDec, s, <<>>), LAMBDA x :
           LET l == [ID |-> x.val.ID, Bals |-> x.val.Bals,
                     IndexMap |-> x.val.IndexMap]
           IN Require(Ok(l, x.rest), SubAllocValid(l)))
    [] f[2] = "Allocation" ->
         Bind(ReadFields(AllocationDec, s, <<>>), LAMBDA x :
           LET a == [Assets |-> x.val.Assets, Balances |-> x.val.Balances,
                     Locked |-> x.val.Locked]
           IN Require(Ok(a, x.rest), AllocationValid(a)))
    [] f[2] = "State" -> ReadFields(StateDec, s, <<>>)
    [] f[2] = "Params" ->
         Bind(ReadFields(ParamsDec, s, <<>>), LAMBDA x :
           Require(x, ValidateParameters(x.val)))
    [] f[2] = "Transaction" -> TransactionDec(s)

\* Envelope.Decode and wire.Decode; a ledger channel proposal is checked.
EnvelopeDec(s) ==
  Bind(ReadFields(<<<<"Sender", "addr">>, <<"Recipient", "addr">>,
                    <<"type", "1">>>>, s, <<>>), LAMBDA h :
    IF ~Valid(h.val.type) THEN Bad("err")
    ELSE LET t == Types[h.val.type + 1]
         IN Bind(ReadFields(decoders[t], h.rest, <<>>), LAMBDA m :
              IF t = "LedgerChannelProposal" /\ ~assertValidNumParts(m.val)
              THEN Bad("err")
              ELSE Ok([Sender |-> h.val.Sender, Recipient |-> h.val.Recipient,
                       Type |-> t, Msg |-> m.val], m.rest)))
=============================================================================
