SPECIFICATION QSpec
CONSTANTS
  w1 = w1
  w2 = w2
  q1 = q1
  q2 = q2
  c1 = c1
  c2 = c2
  NoMail = NoMail
  NoQuestionnaire = NoQuestionnaire
  Workers <- TwoWorkers
  Questionnaires <- TwoQuestionnaires
  Clerks <- TwoClerks
  Mails <- Mails2
  BatchLimit = 2
  MaxAttempts = 2
  Faults <- AllFaults
CHECK_DEADLOCK FALSE
SYMMETRY Symmetry
INVARIANTS
  OneMailPerQuestionnaire
  TablesAgree
  SentMeansAccepted
PROPERTIES
  QuestionnaireNeverGoesBack
