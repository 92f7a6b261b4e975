-------------------------------- MODULE WebApp --------------------------------
(***************************************************************************)
(* The web application of src/apps/web: its pages, and the tools of the    *)
(* site that compute in the page.  The answers of the API, which Contracts *)
(* compares with what the pages accept, are taken in with the tools.       *)
(***************************************************************************)
EXTENDS WebPages, Workbench, SchemaTool, YamlTool, XmlTool, TomlTool, JsonPathTool,
        CodeTool, UrlTool, Contracts

webVars == <<pagesVars, work>>

WebInit == PagesInit /\ WorkbenchInit

VisitPages == PagesNext /\ UNCHANGED work

VisitWorkbench ==
    /\ page = "workbench"
    /\ \/ WorkbenchNext
       \/ /\ work.tool = "none"
          /\ \/ SubmitSchema \/ SubmitYaml \/ SubmitXml \/ SubmitToml
             \/ SubmitJsonPath \/ SubmitSql \/ SubmitGraphql \/ SubmitUrl
             \/ SubmitQuery \/ ReceiveAnswer
    /\ UNCHANGED pagesVars

WebNext == VisitPages \/ VisitWorkbench

WebSpec == WebInit /\ [][WebNext]_webVars /\ PagesFairness

(***************************************************************************)
(* The tools for documents are right.  A converter or formatter that gives *)
(* an answer loses nothing on the way: what CSV, YAML and TOML the         *)
(* converters wrote reads back as the value it was written from; formatted *)
(* XML means what it meant, formatted SQL and GraphQL have the tokens they *)
(* had, and a normalised URL and one without its tracking are what they    *)
(* were; all but for the losses that those properties name.  And what a    *)
(* JSONPath selects and a JSON Schema accepts is what they are defined to. *)
(***************************************************************************)
DocumentToolsAreRight ==
    /\ CsvRoundTrip /\ YamlRoundTrip /\ TomlRoundTrip /\ XmlKeepsMeaning
    /\ FormattersKeepTokens /\ UrlToolsAreRight
    /\ SelectionsAreRight /\ SchemaVerdictIsRight
=============================================================================
