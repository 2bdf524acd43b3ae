------------------------------ MODULE NodeCatalog ------------------------------
(***************************************************************************)
(* The node types a workflow may use (Execution_Engine/src/nodes), by what *)
(* an execution of one depends on:                                         *)
(*                                                                         *)
(*   needs    the keys of its configuration it cannot do without           *)
(*   token    it needs an access token of Google's first                   *)
(*   asks     what it may ask of the service before its request proper     *)
(*   writes   its request changes something at the service                 *)
(*   checks   an answer with an error status is an error                   *)
(*   reads    what it cannot do without in an answer                       *)
(*   bound    what its timeout is of: each read of its request (httpx), or *)
(*            the whole; "close": of the whole, and then it closes its     *)
(*            connection without one                                       *)
(***************************************************************************)
EXTENDS FiniteSets

Request(type, needs, reads) ==
  [type |-> type, kind |-> "request", needs |-> needs, reads |-> reads \union {"json"},
   token |-> FALSE, asks |-> {FALSE}, writes |-> TRUE, checks |-> TRUE,
   bound |-> "read"]

Query(r)  == [r EXCEPT !.writes = FALSE]
Silent(r) == [r EXCEPT !.reads = {}]      \* its answer has no body it looks at
Google(r) == [r EXCEPT !.token = TRUE, !.needs = @ \union {"credential_id"}]
Local(type, kind, needs) ==
  [Silent(Query(Request(type, needs, {}))) EXCEPT !.kind = kind, !.bound = "whole"]

-----------------------------------------------------------------------------
AirtableCreateRecord ==
  Request("airtable_create_record", {"api_token", "base_id", "table", "fields"}, {"id"})
AirtableListRecords ==
  Query(Request("airtable_list_records", {"api_token", "base_id", "table"}, {}))
AnthropicChat ==
  Query(Request("anthropic_chat", {"api_token", "model", "messages", "max_tokens"}, {}))
OpenAIChat ==
  Query(Request("openai_chat", {"api_token", "model", "messages"}, {"choices"}))
GitHubCreateIssue ==
  Request("github_create_issue", {"api_token", "owner", "repo", "title"}, {"id", "number"})
HubSpotCreateContact ==
  Request("hubspot_create_contact", {"api_token", "properties"}, {"id"})
NotionCreatePage ==
  Request("notion_create_page", {"api_token", "parent", "properties"}, {"id"})
NotionQueryDatabase ==
  Query(Request("notion_query_database", {"api_token", "database_id"}, {}))

(* GraphQL: a refusal is an answer without an issue. *)
LinearCreateIssue ==
  Request("linear_create_issue", {"api_token", "team_id", "title"}, {"issue"})

DiscordNotify == Silent(Request("discord_notify", {"webhook_url", "content"}, {}))
SlackNotify   == Silent(Request("slack_notify", {"webhook_url", "text"}, {}))
EmailSend     ==
  [Silent(Request("email_send", {"from", "to", "subject", "body", "smtp_host", "smtp_port",
                                 "smtp_user", "smtp_password"}, {})) EXCEPT !.bound = "whole"]

(* Mutant: an error status is the node's result, as with http_request. *)
GmailSend_Unchecked ==
  [Google(Request("gmail_send", {"to", "subject"}, {})) EXCEPT !.checks = FALSE, !.reads = {}]

GmailSend == Google(Request("gmail_send", {"to", "subject"}, {"id"}))

(* An event has times, or days. *)
GoogleCalendarCreateEvent(given) ==
  Google(Request("google_calendar_create_event",
    {"summary"} \union (IF "start_datetime" \in given THEN {"end_datetime"}
                        ELSE {"start_date", "end_date"}), {"id"}))
GoogleDocsAppendText == Google(Request("google_docs_append_text", {"document_id", "text"}, {}))
GoogleDriveUploadFile == Google(Request("google_drive_upload_file", {"name"}, {"id"}))
GoogleSlidesCreatePresentation ==
  Google(Request("google_slides_create_presentation", {"title"}, {"id"}))

(* A range without a sheet's name: the first sheet's is asked for. *)
GoogleSheetsAppendRow ==
  [Google(Request("google_sheets_append_row", {"spreadsheet_id", "range", "values"}, {}))
     EXCEPT !.asks = BOOLEAN]

(* A connection first.  A statement that returns no rows has its count     *)
(* read from its status, which is not there for one like CREATE TABLE.     *)
DBQuery ==
  [Request("db_query", {"connection_url", "query"}, {}) EXCEPT !.reads = {"count"}, !.asks = {TRUE},
     !.bound = "close"]

(* Whatever the status, the answer is the result. *)
HttpRequest == [Silent(Request("http_request", {"url"}, {})) EXCEPT !.checks = FALSE]

-----------------------------------------------------------------------------
(* Nodes that ask nobody (their values: NodeValues). *)
Condition == Local("condition", "local", {"left_field", "operator", "right_value"})
Filter    == Local("filter", "local", {"condition"})
Transform == Local("transform", "local", {})
Merge     == Local("merge", "local", {})
Delay     == Local("delay", "local", {"seconds"})
Code      == Local("code", "code", {"source"})

Registered(given) ==
  {AirtableCreateRecord, AirtableListRecords, AnthropicChat, OpenAIChat, GitHubCreateIssue,
   HubSpotCreateContact, NotionCreatePage, NotionQueryDatabase, LinearCreateIssue, DiscordNotify,
   SlackNotify, EmailSend, GmailSend, GoogleCalendarCreateEvent(given), GoogleDocsAppendText,
   GoogleDriveUploadFile, GoogleSlidesCreatePresentation, GoogleSheetsAppendRow, DBQuery,
   HttpRequest, Condition, Filter, Transform, Merge, Delay, Code}

(* registry.get, for a worker of loop_items: that type itself is refused. *)
Types == {r.type : r \in Registered({})}
NodeType(type, given) == CHOOSE r \in Registered(given) : r.type = type
=============================================================================
