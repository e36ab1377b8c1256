SPECIFICATION Spec
CONSTANTS
  Phrases = {"rice", "potato", "shop", "drinks", "staple", "eats", "one", "two", "again", "each", "buyao", "buyaole", "delete", "cancel", "nospice", "nocoriander", "note", "changeto", "swapto", "sendto", "campus", "phone", "pickup", "delivery", "question", "howmuch", "howlong", "candeliver", "fee", "price", "have", "contains", "allergy", "recommend", "best", "this", "if", "ok", "clear", "hello", "nice", "notordered", "bypass"}
  MaxPhrases = 3
INVARIANTS TalkChangesNothing EachDishItsOwnWord PlacesAreNoDishes
CHECK_DEADLOCK FALSE
