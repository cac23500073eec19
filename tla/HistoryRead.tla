----------------------------- MODULE HistoryRead -----------------------------
(***************************************************************************)
(* A client's HistoryRead request: readRaw and readAtTime, with             *)
(* readHistory, readAndAppendHistory and the two callbacks around them.    *)
(* The historizer keeps nothing between two requests, so one is modelled.  *)
(*                                                                         *)
(* The database is external: a query returns the rows the code asks for or *)
(* fails.  Everything on the way can fail by one of three exceptions:      *)
(* runtime_error (the connection, the statement), logic_error (a neighbour *)
(* that is not there, a value that cannot be converted or computed with)   *)
(* and OutOfMemory.                                                        *)
(***************************************************************************)
EXTENDS Interpolation, Sequences

CONSTANTS
  NodesToRead,   \* how many nodes the request names
  ReqTimes,      \* how many times, for readAtTime
  MaxRows        \* bound on the rows a query returns

ASSUME RequestAssumption ==
  NodesToRead \in Nat /\ ReqTimes \in Nat /\ MaxRows \in Nat

VARIABLES
  details,         \* what is read
  index,           \* the node in hand
  time,            \* the time in hand
  results, bits,   \* readAndAppendHistory's values and historian bits so far
  statusCode,      \* the response's status for each node
  historyBits,     \* the historian bits of each status
  historyData,     \* the response's values for each node
  serviceResult,   \* the response's own status
  outcome          \* how the request ended, or "reading"

response == <<statusCode, historyBits, historyData, serviceResult>>
readVars == <<details, index, time, results, bits, response, outcome>>
historyVars == <<readVars, interpolationVars>>

RequestedNodes == 1 .. NodesToRead

\* The bits of a DataLocation in a status.
Raw == {}
Interpolated == {1}

\* A value of the response: which time it answers, and how it was found.
Entries == [time : 0 .. ReqTimes, location : {Raw, Interpolated}]

\* n of them.
Found(n, t, where) == [k \in 1 .. n |-> [time |-> t, location |-> where]]

TypeOK ==
  /\ InterpolationType
  /\ details \in {"raw", "atTime", "release"}
  /\ index \in 1 .. NodesToRead + 1 /\ time \in 1 .. ReqTimes + 1
  /\ results \in Seq(Entries) /\ historyData \in [RequestedNodes -> Seq(Entries)]
  /\ bits \in SUBSET {0, 1} /\ historyBits \in [RequestedNodes -> SUBSET {0, 1}]
  /\ statusCode \in [RequestedNodes -> {"Good", "BadUnexpectedError", "BadOutOfMemory",
                                        "BadAggregateInvalidInputs"}]
  /\ serviceResult \in {"Good", "BadOutOfMemory"}
  /\ outcome \in {"reading", "answered", "failed"}

HistoryInit ==
  /\ InterpolationInit
  /\ details \in {"raw", "atTime", "release"}
  /\ index = 1 /\ time = 1
  /\ results = <<>> /\ bits = Raw
  /\ statusCode = [i \in RequestedNodes |-> "Good"]
  /\ historyBits = [i \in RequestedNodes |-> Raw]
  /\ historyData = [i \in RequestedNodes |-> <<>>]
  /\ serviceResult = "Good"
  /\ outcome = "reading"

-----------------------------------------------------------------------------
(* readRaw and readAtTime: the loop over the nodes *)

Reading(what) ==
  /\ outcome = "reading" /\ details = what
  /\ index \in RequestedNodes

NextNode ==
  /\ index' = index + 1 /\ time' = 1
  /\ results' = <<>> /\ bits' = Raw
  /\ UNCHANGED <<details, outcome>>

NodeFails(status) == statusCode' = [statusCode EXCEPT ![index] = status]

\* A release of continuation points is answered without a look at the nodes.
AnswerRequest ==
  /\ outcome = "reading"
  /\ details = "release" \/ index > NodesToRead
  /\ outcome' = "answered"
  /\ UNCHANGED <<details, index, time, results, bits, response, interpolationVars>>

-----------------------------------------------------------------------------
(* readHistory and expandHistoryResult *)

ReadHistory ==
  /\ Reading("raw")
  /\ \E n \in 0 .. MaxRows :
       historyData' = [historyData EXCEPT ![index] = Found(n, 0, Raw)]
  /\ NextNode
  /\ UNCHANGED <<statusCode, historyBits, serviceResult, interpolationVars>>

\* The array of values is not allocated, or the continuation point.
ReadHistoryOutOfMemory ==
  /\ Reading("raw")
  /\ \/ NodeFails("BadOutOfMemory") /\ UNCHANGED serviceResult
     \/ serviceResult' = "BadOutOfMemory" /\ UNCHANGED statusCode
  /\ NextNode
  /\ UNCHANGED <<historyBits, historyData, interpolationVars>>

\* readRaw has no handler for logic_error: readRawCallback answers one result
\* in place of all.
ReadHistoryThrows ==
  /\ Reading("raw")
  /\ outcome' = "failed"
  /\ statusCode' = [statusCode EXCEPT ![1] = "BadUnexpectedError"]
  /\ UNCHANGED <<details, index, time, results, bits, historyBits, historyData,
                 serviceResult, interpolationVars>>

-----------------------------------------------------------------------------
(* readAndAppendHistory: the loop over the times *)

\* Mutation: the bits are assigned, not or-ed.
AssignHistorianBits(location) == bits' = location

SetHistorianBits(location) == bits' = bits \cup location

Answered(n, location) ==
  /\ results' = results \o Found(n, time, location)
  /\ SetHistorianBits(location)
  /\ time' = time + 1
  /\ UNCHANGED <<details, index, response, outcome>>

AtTime == Reading("atTime") /\ time <= ReqTimes /\ step = "none"

\* Several values may have been stored for one time.
ReadExactly ==
  /\ AtTime
  /\ \E n \in 1 .. MaxRows : Answered(n, Raw)
  /\ UNCHANGED interpolationVars

ReadNearest ==
  /\ AtTime
  /\ BeginInterpolation
  /\ UNCHANGED readVars

InterpolateValues == Interpolate /\ UNCHANGED readVars

AppendInterpolated ==
  /\ step = "done"
  /\ Answered(1, Interpolated)
  /\ EndInterpolation

\* runtime_error
ReadFails ==
  /\ AtTime \/ (Reading("raw") /\ step = "none")
  /\ NodeFails("BadUnexpectedError")
  /\ NextNode
  /\ UNCHANGED <<historyBits, historyData, serviceResult, interpolationVars>>

InvalidInputs == AtTime \/ step = "invalid"

\* Mutation: what was read until then is part of the answer.
KeepInputs ==
  /\ InvalidInputs
  /\ NodeFails("BadAggregateInvalidInputs")
  /\ historyData' = [historyData EXCEPT ![index] = results]
  /\ NextNode
  /\ EndInterpolation
  /\ UNCHANGED <<historyBits, serviceResult>>

\* Mutation: readAtTime has no handler for logic_error either.
LoseInputs ==
  /\ InvalidInputs
  /\ outcome' = "failed"
  /\ statusCode' = [statusCode EXCEPT ![1] = "BadUnexpectedError"]
  /\ EndInterpolation
  /\ UNCHANGED <<details, index, time, results, bits, historyBits, historyData,
                 serviceResult>>

\* logic_error
RejectInputs ==
  /\ InvalidInputs
  /\ NodeFails("BadAggregateInvalidInputs")
  /\ NextNode
  /\ EndInterpolation
  /\ UNCHANGED <<historyBits, historyData, serviceResult>>

\* The values are appended at the end.  If their array is not allocated, the
\* status that says so is dropped.
ExpandResult ==
  /\ Reading("atTime") /\ time > ReqTimes
  /\ historyBits' = [historyBits EXCEPT ![index] = bits]
  /\ \/ historyData' = [historyData EXCEPT ![index] = results]
     \/ UNCHANGED historyData
  /\ NextNode
  /\ UNCHANGED <<statusCode, serviceResult, interpolationVars>>

-----------------------------------------------------------------------------
HistoryNext ==
  \/ AnswerRequest
  \/ ReadHistory
  \/ ReadHistoryOutOfMemory
  \/ ReadHistoryThrows
  \/ ReadExactly
  \/ ReadNearest
  \/ InterpolateValues
  \/ AppendInterpolated
  \/ ReadFails
  \/ RejectInputs
  \/ ExpandResult

HistorySpec == HistoryInit /\ [][HistoryNext]_historyVars

-----------------------------------------------------------------------------
(* readAtTime answers a node all or nothing: values for every requested    *)
(* time, or none, and none with a bad status.  A failure at a later time   *)
(* takes back what was found for the earlier ones.                         *)
EveryTimeIsAnswered ==
  details = "atTime" =>
    \A i \in RequestedNodes :
      LET data == historyData[i] IN
      data # <<>> => /\ statusCode[i] = "Good"
                     /\ {data[k].time : k \in DOMAIN data} = 1 .. ReqTimes

(* The data location in a node's status tells whether any of its values    *)
(* was interpolated, in whatever order interpolated and stored values come.*)
LocationIsHonest ==
  \A i \in RequestedNodes :
    LET data == historyData[i] IN
    data # <<>> =>
      (historyBits[i] = Interpolated
         <=> \E k \in DOMAIN data : data[k].location = Interpolated)

(* What is wrong with one node's values does not cost readAtTime's answer  *)
(* on the others: no step changes what the response says of a node but the *)
(* one in hand, and the response is sent when all had their turn.  (readRaw *)
(* drops the whole response for one value it cannot convert.)  This is     *)
(* about the response only: an interpolation of Int64 values that traps    *)
(* ends the process, and with it the answers on all nodes.                 *)
NodesAreIsolated ==
  [][details = "atTime" =>
       /\ \A i \in RequestedNodes \ {index} :
            /\ statusCode'[i] = statusCode[i]
            /\ historyBits'[i] = historyBits[i]
            /\ historyData'[i] = historyData[i]
       /\ outcome' = "reading" \/ index > NodesToRead]_historyVars
=============================================================================
